------------------------- MODULE BillingStoreProofs -------------------------
(***************************************************************************)
(* The billing store implements an atomic account, for any number of       *)
(* tenants, connections, recharge ids and amounts.                         *)
(*                                                                         *)
(* The argument: a transaction that moves money holds the tenant's balance *)
(* row from the moment it reads it to COMMIT, so what it has read is what  *)
(* is there when it commits (Locking, the inductive invariant); its COMMIT *)
(* is the step of the account, and every other statement a stutter.        *)
(***************************************************************************)
EXTENDS BillingStore, TLAPS, SequenceTheorems, WellFoundedInduction

\* The inductive invariant.
Inv == TypeOK /\ Locking

----------------------------------------------------------------------------
(* Operators *)

\* boundaryFor never answers a day after the one it is asked about.
LEMMA BoundaryIsADay ==
    ASSUME NEW kind, NEW day \in Days
    PROVE  Boundary(kind, day) \in Days /\ Boundary(kind, day) <= day
  <1>1. day % MonthDays \in 0..day
    BY BillingStoreAssumption DEF Days, BillingStoreAssumption
  <1> QED
    BY <1>1, BillingStoreAssumption DEF Boundary, Days, BillingStoreAssumption

\* ensureWindowFresh leaves a window that starts no earlier than it did.
LEMMA RolledIsLater ==
    ASSUME NEW kind, NEW w \in Window, NEW day \in Days
    PROVE  Rolled(kind, w, day) \in Window /\ Rolled(kind, w, day).start >= w.start
  <1>1. Boundary(kind, day) \in Days
    BY BoundaryIsADay
  <1>2. CASE Stale(kind, w.start, day)
    BY <1>1, <1>2 DEF Rolled, Stale, Window, Days
  <1>3. CASE ~Stale(kind, w.start, day)
    BY <1>3 DEF Rolled, Window, Days
  <1> QED
    BY <1>2, <1>3

LEMMA UsageIsNat ==
    ASSUME NEW x \in Transaction
    PROVE  Usage(x) \in Nat
  BY DEF Usage, Transaction

\* What a transaction writes to the windows of its tenant.
LEMMA AccumulatedIsLater ==
    ASSUME NEW x \in Transaction, window \in [Tenants -> [Kinds -> Window]]
    PROVE  /\ Accumulated(x) \in [Kinds -> Window]
           /\ \A kind \in Kinds : Accumulated(x)[kind].start >= window[x.tenant][kind].start
  <1>1. SUFFICES ASSUME NEW kind \in Kinds
                 PROVE  /\ Accumulated(x)[kind] \in Window
                        /\ Accumulated(x)[kind].start >= window[x.tenant][kind].start
    BY DEF Accumulated
  <1> DEFINE w == window[x.tenant][kind]
             r == Rolled(kind, w, x.day)
  <1>2. w \in Window /\ x.day \in Days
    BY DEF Transaction
  <1>3. r \in Window /\ r.start >= w.start
    BY <1>2, RolledIsLater
  <1>4. Accumulated(x)[kind] = [r EXCEPT !.used = @ + Usage(x)]
    BY DEF Accumulated
  <1> HIDE DEF r
  <1> QED
    BY <1>2, <1>3, <1>4, UsageIsNat DEF Window

----------------------------------------------------------------------------
(* The transactions in flight *)

\* An active transaction is a well-typed record.
LEMMA ActiveType ==
    ASSUME TypeOK, NEW c \in Clients
    PROVE  /\ Active(c) <=> tx[c] \in Transaction
           /\ tx[c].at \in Steps => Active(c)
  <1>1. Idle \notin Transaction
    BY DEF Idle, Transaction, Steps
  <1>2. Idle.at \notin Steps
    BY DEF Idle, Steps
  <1> QED
    BY <1>1, <1>2 DEF Active, TypeOK

\* A step of one transaction that writes nothing keeps every type.
LEMMA StepType ==
    ASSUME TypeOK, NEW c \in Clients, NEW v \in Transaction \cup {Idle},
           tx' = [tx EXCEPT ![c] = v], UNCHANGED <<stored, today>>
    PROVE  TypeOK'
  BY DEF TypeOK, stored

\* What another transaction's step leaves alone.
LEMMA Untouched ==
    ASSUME NEW g, tx'[g] = tx[g], UNCHANGED account
    PROVE  /\ (Active(g) <=> Active(g)')
           /\ (Shape(g) <=> Shape(g)')
           /\ (Fresh(g) <=> Fresh(g)')
           /\ \A t : HoldsRow(g, t) <=> HoldsRow(g, t)'
           /\ \A id : HoldsKey(g, id) <=> HoldsKey(g, id)'
  <1>1. Active(g) <=> Active(g)'
    BY DEF Active
  <1>2. Shape(g) <=> Shape(g)'
    BY DEF Shape
  <1>3. \A t : HoldsRow(g, t) <=> HoldsRow(g, t)'
    BY <1>1 DEF HoldsRow
  <1>4. \A id : HoldsKey(g, id) <=> HoldsKey(g, id)'
    BY <1>1 DEF HoldsKey
  <1>5. Fresh(g) <=> Fresh(g)'
    BY <1>3 DEF Fresh, Exists
  <1> QED
    BY <1>1, <1>2, <1>3, <1>4, <1>5

\* A step of one transaction that writes nothing keeps the locks exclusive if
\* the transaction only takes what nobody else holds.
LEMMA StepLocking ==
    ASSUME TypeOK, Locking, NEW c \in Clients, NEW v,
           tx' = [tx EXCEPT ![c] = v], UNCHANGED stored,
           Active(c)' => Shape(c)' /\ Fresh(c)',
           \A t \in Tenants : HoldsRow(c, t)' =>
              \A g \in Clients \ {c} : ~HoldsRow(g, t),
           \A id \in RechargeIds : HoldsKey(c, id)' =>
              /\ \A g \in Clients \ {c} : ~HoldsKey(g, id)
              /\ \A q \in recharges : q.id # id
    PROVE  Locking'
  <1>1. \A g \in Clients \ {c} : tx'[g] = tx[g]
    BY DEF TypeOK
  <1>2. \A g \in Clients \ {c} :
           /\ (Active(g) <=> Active(g)')
           /\ (Shape(g) <=> Shape(g)')
           /\ (Fresh(g) <=> Fresh(g)')
           /\ \A t : HoldsRow(g, t) <=> HoldsRow(g, t)'
           /\ \A id : HoldsKey(g, id) <=> HoldsKey(g, id)'
    BY <1>1, Untouched DEF stored
  <1>3. \A g \in Clients : Active(g)' => Shape(g)' /\ Fresh(g)'
    BY <1>2 DEF Locking
  <1>4. \A g, f \in Clients : g # f =>
           /\ \A t \in Tenants : ~(HoldsRow(g, t)' /\ HoldsRow(f, t)')
           /\ \A id \in RechargeIds : ~(HoldsKey(g, id)' /\ HoldsKey(f, id)')
    BY <1>2 DEF Locking
  <1>5. \A g \in Clients, q \in recharges' : ~HoldsKey(g, q.id)'
    BY <1>2 DEF Locking, stored, TypeOK, RechargeRow
  <1> QED
    BY <1>3, <1>4, <1>5 DEF Locking

\* A transaction that ends without COMMIT.
LEMMA AbandonKeepsInv ==
    ASSUME Inv, NEW c \in Clients, Abandon(c), UNCHANGED <<stored, today>>
    PROVE  Inv'
  <1>1. TypeOK'
    BY StepType DEF Inv, Abandon
  <1>2. ~Active(c)'
    BY DEF Inv, TypeOK, Abandon, Active
  <1>3. Locking'
    BY <1>2, StepLocking DEF Inv, Abandon, HoldsRow, HoldsKey, stored
  <1> QED
    BY <1>1, <1>3 DEF Inv

----------------------------------------------------------------------------
(* Every action keeps the invariant *)

\* A transaction that begins is well typed, has the shape of what it is for,
\* and holds nothing yet.
LEMMA BeginKeepsInv ==
    ASSUME Inv, NEW c \in Clients, NEW t \in Tenants, NEW day \in Days,
           NEW op \in {"move", "recharge", "read"},
           NEW at \in {"lookup", "row", "window"}, NEW delta \in Int, NEW spend \in BOOLEAN,
           NEW id \in RechargeIds \cup {NoRecharge},
           Begin(c, op, at, t, delta, spend, id, day),
           \/ /\ op = "move" /\ at = "row" /\ id = NoRecharge
              /\ delta \in {-d : d \in Holds} \cup Refunds
           \/ /\ op = "recharge" /\ at = "lookup" /\ id \in RechargeIds
              /\ delta \in Credits /\ ~spend
           \/ op = "read" /\ at = "window" /\ id = NoRecharge
    PROVE  Inv'
  <1> DEFINE v == [op |-> op, at |-> at, tenant |-> t, delta |-> delta, spend |-> spend,
                   id |-> id, day |-> day, attempt |-> 1, prev |-> 0, version |-> 0,
                   locked |-> 0]
  <1>1. v \in Transaction
    BY BillingStoreAssumption DEF Transaction, Steps, BillingStoreAssumption
  <1>2. tx' = [tx EXCEPT ![c] = v] /\ UNCHANGED <<stored, today>>
    BY DEF Begin
  <1>3. TypeOK'
    BY <1>1, <1>2, StepType DEF Inv
  <1>4. tx'[c] = v
    BY <1>2 DEF Inv, TypeOK
  <1>5. Shape(c)'
    <2>1. /\ tx'[c].op = op /\ tx'[c].at = at /\ tx'[c].delta = delta /\ tx'[c].id = id
          /\ tx'[c].spend = spend /\ tx'[c].attempt = 1 /\ tx'[c].locked = 0
      BY <1>4
    <2> HIDE DEF v
    <2>2. CASE op = "move"
      BY <2>1, <2>2, BillingStoreAssumption DEF Shape, BillingStoreAssumption
    <2>3. CASE op = "recharge"
      BY <2>1, <2>3 DEF Shape, Steps
    <2>4. CASE op = "read"
      BY <2>1, <2>4, BillingStoreAssumption DEF Shape, BillingStoreAssumption
    <2> QED
      BY <2>2, <2>3, <2>4
  <1>6. \A u : ~HoldsRow(c, u)'
    BY <1>4 DEF HoldsRow
  <1>7. \A i : ~HoldsKey(c, i)'
    BY <1>4 DEF HoldsKey
  <1>8. Fresh(c)'
    BY <1>4, <1>6 DEF Fresh
  <1> HIDE DEF v
  <1>9. Locking'
    BY <1>2, <1>5, <1>6, <1>7, <1>8, StepLocking DEF Inv
  <1> QED
    BY <1>3, <1>9 DEF Inv

LEMMA StartKeepsInv ==
    ASSUME Inv, NEW c \in Clients, Start(c)
    PROVE  Inv'
  <1>1. PICK t \in Tenants : BeginMove(c, t) \/ BeginRecharge(c, t) \/ BeginRead(c, t)
    BY DEF Start
  <1>2. today \in Days /\ ClientDays \cup {today} \subseteq Days
    BY BillingStoreAssumption DEF Inv, TypeOK, Days, BillingStoreAssumption
  <1>3. CASE BeginMove(c, t)
    <2>1. CASE \E d \in Holds : Begin(c, "move", "row", t, -d, TRUE, NoRecharge, today)
      <3>1. PICK d \in Holds : Begin(c, "move", "row", t, -d, TRUE, NoRecharge, today)
        BY <2>1
      <3>2. -d \in Int
        BY BillingStoreAssumption DEF BillingStoreAssumption
      <3> QED
        BY <1>2, <3>1, <3>2, BeginKeepsInv
    <2>2. CASE \E d \in Refunds : Begin(c, "move", "row", t, d, FALSE, NoRecharge, today)
      <3>1. PICK d \in Refunds : Begin(c, "move", "row", t, d, FALSE, NoRecharge, today)
        BY <2>2
      <3>2. d \in Int
        BY BillingStoreAssumption DEF BillingStoreAssumption
      <3> QED
        BY <1>2, <3>1, <3>2, BeginKeepsInv
    <2> QED
      BY <1>3, <2>1, <2>2 DEF BeginMove
  <1>4. CASE BeginRecharge(c, t)
    <2>1. PICK id \in RechargeIds, a \in Credits, day \in ClientDays \cup {today} :
             Begin(c, "recharge", "lookup", t, a, FALSE, id, day)
      BY <1>4 DEF BeginRecharge
    <2>2. a \in Int
      BY BillingStoreAssumption DEF BillingStoreAssumption
    <2> QED
      BY <1>2, <2>1, <2>2, BeginKeepsInv
  <1>5. CASE BeginRead(c, t)
    <2>1. PICK day \in ClientDays \cup {today} :
             Begin(c, "read", "window", t, 0, FALSE, NoRecharge, day)
      BY <1>5 DEF BeginRead
    <2>2. 0 \in Int /\ FALSE \in BOOLEAN
      OBVIOUS
    <2> QED
      BY <1>2, <2>1, <2>2, BeginKeepsInv
  <1> QED
    BY <1>1, <1>3, <1>4, <1>5

LEMMA CreateTenantKeepsInv ==
    ASSUME Inv, NEW t \in Tenants, CreateTenant(t)
    PROVE  Inv'
  <1>1. \A kind, day : day \in ClientDays \cup {today} =>
           [start |-> Boundary(kind, day), used |-> 0] \in Window
    BY BillingStoreAssumption, BoundaryIsADay
       DEF Window, Inv, TypeOK, Days, BillingStoreAssumption
  <1>2. TypeOK'
    BY <1>1 DEF Inv, TypeOK, CreateTenant
  <1>3. \A c \in Clients : Active(c)' => Shape(c)' /\ Fresh(c)'
    <2> SUFFICES ASSUME NEW c \in Clients, Active(c)'
                 PROVE  Shape(c)' /\ Fresh(c)'
      OBVIOUS
    <2>1. Active(c) /\ Shape(c) /\ Fresh(c)
      BY DEF CreateTenant, Inv, Locking, Active
    <2>2. Shape(c)'
      BY <2>1 DEF CreateTenant, Shape
    <2>3. HoldsRow(c, tx[c].tenant)' <=> HoldsRow(c, tx[c].tenant)
      BY DEF CreateTenant, HoldsRow, Active
    <2>4. tx[c].tenant # t \/ ~HoldsRow(c, tx[c].tenant)
      BY <2>1 DEF CreateTenant, Fresh
    <2>5. Fresh(c)'
      BY <2>1, <2>3, <2>4 DEF CreateTenant, Fresh, Exists, Inv, TypeOK
    <2> QED
      BY <2>2, <2>5
  <1>4. Locking'
    BY <1>3 DEF Inv, Locking, CreateTenant, HoldsRow, HoldsKey, Active
  <1> QED
    BY <1>2, <1>4 DEF Inv

LEMMA LookUpKeepsInv ==
    ASSUME Inv, NEW c \in Clients, LookUp(c)
    PROVE  Inv'
  <1>1. CASE Abandon(c)
    BY <1>1, AbandonKeepsInv DEF LookUp
  <1>2. CASE Proceed(c, "row")
    <2> DEFINE v == [tx[c] EXCEPT !.at = "row"]
    <2>1. Active(c) /\ tx[c] \in Transaction /\ tx[c].at = "lookup"
      BY ActiveType DEF LookUp, Inv, Steps
    <2>2. v \in Transaction /\ tx' = [tx EXCEPT ![c] = v]
      BY <1>2, <2>1 DEF Proceed, Transaction, Steps
    <2>3. tx'[c] = v
      BY <2>2 DEF Inv, TypeOK
    <2>4. TypeOK'
      BY <2>2, StepType DEF Inv, LookUp
    <2>5. Shape(c)
      BY <2>1 DEF Inv, Locking
    <2>6. Shape(c)'
      BY <2>1, <2>3, <2>5 DEF Shape, Steps, Transaction
    <2>7. \A u : ~HoldsRow(c, u)'
      BY <2>1, <2>3, <2>5 DEF HoldsRow, Shape, Transaction
    <2>8. \A i : ~HoldsKey(c, i)'
      BY <2>1, <2>3 DEF HoldsKey, Transaction
    <2>9. Fresh(c)'
      BY <2>1, <2>3, <2>5, <2>7 DEF Fresh, Shape, Transaction
    <2> HIDE DEF v
    <2>10. Locking'
      BY <2>2, <2>6, <2>7, <2>8, <2>9, StepLocking DEF Inv, LookUp
    <2> QED
      BY <2>4, <2>10 DEF Inv
  <1> QED
    BY <1>1, <1>2 DEF LookUp

\* A transaction that goes on holds the row it held, and no recharge id yet.
LEMMA ProceedKeepsInv ==
    ASSUME Inv, NEW c \in Clients, tx[c] \in Transaction, UNCHANGED <<stored, today>>,
           NEW v \in Transaction, tx' = [tx EXCEPT ![c] = v],
           v.tenant = tx[c].tenant, v.op = tx[c].op, v.delta = tx[c].delta,
           v.locked > 0 => Exists(v.tenant),
           Shape(c)', ~(v.at = "commit" /\ v.op = "recharge"),
           HoldsRow(c, v.tenant)' =>
              /\ HoldsRow(c, v.tenant)
              /\ v.version = tx[c].version /\ v.prev = tx[c].prev
    PROVE  Inv'
  <1>1. TypeOK'
    BY StepType DEF Inv
  <1>2. tx'[c] = v /\ UNCHANGED account
    BY DEF Inv, TypeOK, stored
  <1>3. Active(c)
    BY ActiveType DEF Inv
  <1>4. Fresh(c)
    BY <1>3 DEF Inv, Locking
  <1>5. Fresh(c)'
    BY <1>2, <1>4 DEF Fresh, Exists
  <1>6. \A t \in Tenants : HoldsRow(c, t)' => \A g \in Clients \ {c} : ~HoldsRow(g, t)
    <2> SUFFICES ASSUME NEW t \in Tenants, HoldsRow(c, t)'
                 PROVE  \A g \in Clients \ {c} : ~HoldsRow(g, t)
      OBVIOUS
    <2>1. t = v.tenant
      BY <1>2 DEF HoldsRow
    <2> QED
      BY <2>1 DEF Inv, Locking
  <1>7. \A id \in RechargeIds : ~HoldsKey(c, id)'
    <2> SUFFICES ASSUME NEW id \in RechargeIds, HoldsKey(c, id)'
                 PROVE  FALSE
      OBVIOUS
    <2>1. v.id = id /\ v.at = "commit"
      BY <1>2 DEF HoldsKey
    <2>2. v.op = "recharge"
      BY <1>2, <2>1, BillingStoreAssumption DEF Shape, Transaction, BillingStoreAssumption
    <2> QED
      BY <2>1, <2>2
  <1>8. Locking'
    BY <1>5, <1>6, <1>7, StepLocking DEF Inv
  <1> QED
    BY <1>1, <1>8 DEF Inv

LEMMA LockRowKeepsInv ==
    ASSUME Inv, NEW c \in Clients, LockRow(c)
    PROVE  Inv'
  <1> DEFINE x == tx[c]
             a == account[x.tenant]
             v == [x EXCEPT !.at = "update", !.prev = a.balance, !.version = a.version]
  <1>1. CASE Abandon(c)
    BY <1>1, AbandonKeepsInv DEF LockRow
  <1>2. CASE Exists(x.tenant) /\ a.balance + x.delta >= 0 /\ tx' = [tx EXCEPT ![c] = v]
    <2>1. Active(c) /\ x \in Transaction /\ x.at = "row"
      BY ActiveType DEF LockRow, Inv, Steps
    <2>2. a.balance \in Nat /\ a.version \in Nat
      BY <1>2, <2>1 DEF Inv, TypeOK, Exists, Transaction
    <2>3. v \in Transaction
      BY <2>1, <2>2 DEF Transaction, Steps
    <2>4. tx'[c] = v
      BY <1>2 DEF Inv, TypeOK
    <2>5. /\ v.at = "update" /\ v.prev = a.balance /\ v.version = a.version
          /\ v.tenant = x.tenant /\ v.delta = x.delta /\ v.op = x.op /\ v.id = x.id
          /\ v.attempt = x.attempt /\ v.locked = x.locked /\ v.spend = x.spend
      BY <2>1 DEF Transaction
    <2>6. TypeOK'
      BY <1>2, <2>3, StepType DEF Inv, LockRow
    <2>7. Shape(c) /\ account' = account
      BY <2>1 DEF Inv, Locking, LockRow, stored
    <2> HIDE DEF v
    <2>8. Shape(c)'
      BY <2>1, <2>4, <2>5, <2>7 DEF Shape, Steps
    <2>9. Fresh(c)'
      BY <1>2, <2>1, <2>4, <2>5, <2>7 DEF Fresh, Exists, Shape
    <2>10. \A t \in Tenants : HoldsRow(c, t)' => \A g \in Clients \ {c} : ~HoldsRow(g, t)
      BY <2>4, <2>5 DEF HoldsRow, LockRow, RowIsFree
    <2>11. \A id : ~HoldsKey(c, id)'
      BY <2>4, <2>5 DEF HoldsKey
    <2>12. Locking'
      BY <1>2, <2>8, <2>9, <2>10, <2>11, StepLocking DEF Inv, LockRow
    <2> QED
      BY <2>6, <2>12 DEF Inv
  <1>3. ~Abandon(c) => /\ Exists(x.tenant) /\ ~(a.balance + x.delta < 0)
                       /\ tx' = [tx EXCEPT ![c] = v]
    BY DEF LockRow
  <1>4. x \in Transaction
    BY ActiveType DEF LockRow, Inv, Steps
  <1>5. Exists(x.tenant) => a.balance \in Nat /\ x.delta \in Int
    BY <1>4 DEF Inv, TypeOK, Exists, Transaction
  <1> QED
    BY <1>1, <1>2, <1>3, <1>5

LEMMA UpdateRowKeepsInv ==
    ASSUME Inv, NEW c \in Clients, UpdateRow(c)
    PROVE  Inv'
  <1> DEFINE x == tx[c]
             v == [x EXCEPT !.at = "window"]
  <1>1. Active(c) /\ x \in Transaction /\ x.at = "update"
    BY ActiveType DEF UpdateRow, Inv, Steps
  <1>2. Shape(c) /\ Fresh(c)
    BY <1>1 DEF Inv, Locking
  <1>3. HoldsRow(c, x.tenant)
    <2>1. x.op # "read"
      BY <1>1, <1>2 DEF Shape
    <2> QED
      BY <1>1, <2>1 DEF HoldsRow
  <1>4. tx' = [tx EXCEPT ![c] = v] /\ UNCHANGED <<stored, today>>
    BY <1>2, <1>3 DEF UpdateRow, Fresh, Proceed
  <1>5. /\ v \in Transaction /\ v.at = "window" /\ v.version = x.version /\ v.prev = x.prev
        /\ v.tenant = x.tenant /\ v.delta = x.delta /\ v.op = x.op /\ v.id = x.id
        /\ v.attempt = x.attempt /\ v.locked = x.locked /\ v.spend = x.spend
    BY <1>1 DEF Transaction, Steps
  <1>6. tx'[c] = v
    BY <1>4 DEF Inv, TypeOK
  <1> HIDE DEF v
  <1>7. Shape(c)'
    BY <1>1, <1>2, <1>5, <1>6 DEF Shape, Steps
  <1>8. ~(v.locked > 0)
    BY <1>1, <1>2, <1>5 DEF Shape
  <1> QED
    BY <1>1, <1>3, <1>4, <1>5, <1>7, <1>8, ProceedKeepsInv

LEMMA LockWindowKeepsInv ==
    ASSUME Inv, NEW c \in Clients, LockWindow(c)
    PROVE  Inv'
  <1> DEFINE x == tx[c]
             at == IF x.locked < 2 THEN "window"
                   ELSE CASE x.op = "move"     -> "commit"
                          [] x.op = "recharge" -> "insert"
                          [] x.op = "read"     -> "read"
             v == [x EXCEPT !.locked = @ + 1, !.at = at]
  <1>1. Active(c) /\ x \in Transaction /\ x.at = "window"
    BY ActiveType DEF LockWindow, Inv, Steps
  <1>2. CASE Abandon(c)
    BY <1>2, AbandonKeepsInv DEF LockWindow
  <1>3. CASE Exists(x.tenant) /\ tx' = [tx EXCEPT ![c] = v]
    <2>1. Shape(c) /\ x.locked \in 0..2
      BY <1>1 DEF Inv, Locking, Shape, Transaction
    <2>2. at \in Steps
      BY <1>1 DEF Transaction, Steps
    <2> HIDE DEF at
    <2>3. v \in Transaction
      <3>1. x.locked + 1 \in 0..3
        BY <2>1
      <3>2. [x EXCEPT !.locked = x.locked + 1] \in Transaction
        BY <1>1, <3>1 DEF Transaction
      <3> QED
        BY <2>2, <3>2 DEF Transaction
    <2>4. /\ v.at = at /\ v.version = x.version /\ v.prev = x.prev
          /\ v.tenant = x.tenant /\ v.delta = x.delta /\ v.op = x.op /\ v.id = x.id
          /\ v.attempt = x.attempt /\ v.locked = x.locked + 1 /\ v.spend = x.spend
      BY <1>1 DEF Transaction
    <2>5. /\ at = "window" => x.locked < 2
          /\ at # "window" => /\ x.op = "move" => at = "commit"
                              /\ x.op = "recharge" => at = "insert"
                              /\ x.op = "read" => at = "read"
                              /\ x.locked = 2
          /\ at \in {"window", "commit", "insert", "read"}
      BY <1>1, <2>1 DEF at, Transaction
    <2> HIDE DEF v
    <2>6. Shape(c)'
      <3>1. tx'[c] = v
        BY <1>3, <2>3 DEF Inv, TypeOK
      <3> QED
        BY <1>1, <2>1, <2>4, <2>5, <3>1 DEF Shape, Steps, Transaction
    <2>7. \A t : HoldsRow(c, t)' => HoldsRow(c, t)
      <3>1. tx'[c] = v
        BY <1>3, <2>3 DEF Inv, TypeOK
      <3> QED
        BY <1>1, <2>4, <3>1 DEF HoldsRow
    <2>8. ~(v.at = "commit" /\ v.op = "recharge")
      BY <2>4, <2>5
    <2> QED
      BY <1>1, <1>3, <2>3, <2>4, <2>6, <2>7, <2>8, ProceedKeepsInv DEF LockWindow
  <1>4. ~Abandon(c) => Exists(x.tenant) /\ tx' = [tx EXCEPT ![c] = v]
    BY <1>1 DEF LockWindow
  <1> QED
    BY <1>2, <1>3, <1>4

LEMMA ReadBalanceKeepsInv ==
    ASSUME Inv, NEW c \in Clients, ReadBalance(c)
    PROVE  Inv'
  <1> DEFINE x == tx[c]
             v == [x EXCEPT !.at = "commit", !.prev = account[x.tenant].balance]
  <1>1. Active(c) /\ x \in Transaction /\ x.at = "read"
    BY ActiveType DEF ReadBalance, Inv, Steps
  <1>2. Shape(c) /\ Fresh(c)
    BY <1>1 DEF Inv, Locking
  <1>3. x.op = "read" /\ x.locked = 3 /\ Exists(x.tenant)
    BY <1>1, <1>2 DEF Shape, Fresh, Transaction
  <1>4. tx' = [tx EXCEPT ![c] = v] /\ UNCHANGED <<stored, today>>
    BY DEF ReadBalance
  <1>5. account[x.tenant].balance \in Nat
    BY <1>1, <1>3 DEF Inv, TypeOK, Exists, Transaction
  <1>6. /\ v \in Transaction /\ v.at = "commit" /\ v.tenant = x.tenant /\ v.op = "read"
        /\ v.delta = x.delta /\ v.id = x.id /\ v.attempt = x.attempt /\ v.locked = 3
    BY <1>1, <1>3, <1>5 DEF Transaction, Steps
  <1>7. tx'[c] = v
    BY <1>4 DEF Inv, TypeOK
  <1> HIDE DEF v
  <1>8. Shape(c)'
    BY <1>1, <1>2, <1>3, <1>6, <1>7 DEF Shape
  <1>9. \A t : ~HoldsRow(c, t)'
    BY <1>6, <1>7 DEF HoldsRow
  <1> QED
    BY <1>1, <1>3, <1>4, <1>6, <1>8, <1>9, ProceedKeepsInv

LEMMA InsertRechargeKeepsInv ==
    ASSUME Inv, NEW c \in Clients, InsertRecharge(c)
    PROVE  Inv'
  <1> DEFINE x == tx[c]
             v == [x EXCEPT !.at = "commit"]
  <1>1. Active(c) /\ x \in Transaction /\ x.at = "insert"
    BY ActiveType DEF InsertRecharge, Inv, Steps
  <1>2. Shape(c) /\ Fresh(c)
    BY <1>1 DEF Inv, Locking
  <1>3. x.op = "recharge" /\ x.id \in RechargeIds /\ HoldsRow(c, x.tenant)
    BY <1>1, <1>2 DEF Shape, HoldsRow, Transaction
  <1>4. CASE Abandon(c)
    BY <1>4, AbandonKeepsInv DEF InsertRecharge
  <1>5. CASE Proceed(c, "commit") /\ \A q \in recharges : q.id # x.id
    <2>1. tx' = [tx EXCEPT ![c] = v] /\ UNCHANGED <<stored, today>>
      BY <1>5 DEF Proceed, InsertRecharge
    <2>2. /\ v \in Transaction /\ v.at = "commit" /\ v.version = x.version /\ v.prev = x.prev
          /\ v.tenant = x.tenant /\ v.delta = x.delta /\ v.op = x.op /\ v.id = x.id
          /\ v.attempt = x.attempt /\ v.locked = x.locked /\ v.spend = x.spend
      BY <1>1 DEF Transaction, Steps
    <2>3. tx'[c] = v
      BY <2>1 DEF Inv, TypeOK
    <2> HIDE DEF v
    <2>4. TypeOK'
      BY <2>1, <2>2, StepType DEF Inv
    <2>5. Shape(c)'
      BY <1>1, <1>2, <1>3, <2>2, <2>3 DEF Shape, Steps
    <2>6. Fresh(c)'
      BY <1>2, <1>3, <2>1, <2>2, <2>3 DEF Fresh, Exists, stored
    <2>7. \A t \in Tenants : HoldsRow(c, t)' => \A g \in Clients \ {c} : ~HoldsRow(g, t)
      <3> SUFFICES ASSUME NEW t \in Tenants, HoldsRow(c, t)'
                   PROVE  \A g \in Clients \ {c} : ~HoldsRow(g, t)
        OBVIOUS
      <3>1. t = x.tenant
        BY <2>2, <2>3 DEF HoldsRow
      <3> QED
        BY <1>3, <3>1 DEF Inv, Locking
    <2>8. \A id \in RechargeIds : HoldsKey(c, id)' =>
             /\ \A g \in Clients \ {c} : ~HoldsKey(g, id)
             /\ \A q \in recharges : q.id # id
      BY <1>5, <2>2, <2>3 DEF HoldsKey, InsertRecharge, KeyIsFree
    <2>9. Locking'
      BY <2>1, <2>5, <2>6, <2>7, <2>8, StepLocking DEF Inv
    <2> QED
      BY <2>4, <2>9 DEF Inv
  <1> QED
    BY <1>4, <1>5 DEF InsertRecharge

\* COMMIT is the one step that writes: the row it writes is locked, so nobody
\* else has read it, and the recharge id it adds is held by nobody else.
LEMMA CommitKeepsInv ==
    ASSUME Inv, NEW c \in Clients, Commit(c)
    PROVE  Inv'
  <1> DEFINE x == tx[c]
             t == x.tenant
  <1>1. Active(c) /\ x \in Transaction /\ x.at = "commit" /\ t \in Tenants
    BY ActiveType DEF Commit, Inv, Steps, Transaction
  <1>2. Shape(c) /\ Fresh(c)
    BY <1>1 DEF Inv, Locking
  <1>3. tx'[c] = Idle /\ \A g \in Clients \ {c} : tx'[g] = tx[g]
    BY DEF Commit, Abandon, Inv, TypeOK
  <1>4. ~Active(c)' /\ (\A u : ~HoldsRow(c, u)') /\ (\A id : ~HoldsKey(c, id)')
    BY <1>3 DEF Active, HoldsRow, HoldsKey
  <1>5. tx' \in [Clients -> Transaction \cup {Idle}] /\ today' \in Days
    BY DEF Commit, Abandon, Inv, TypeOK
  <1>6. window' \in [Tenants -> [Kinds -> Window]]
    BY <1>1, AccumulatedIsLater DEF Commit, Inv, TypeOK
  <1>7. CASE x.op = "read"
    <2>1. UNCHANGED <<account, ledger, recharges>>
      BY <1>7 DEF Commit
    <2>2. TypeOK'
      BY <1>5, <1>6, <2>1 DEF Inv, TypeOK
    <2>3. \A g \in Clients \ {c} :
             /\ (Active(g) <=> Active(g)')
             /\ (Shape(g) <=> Shape(g)')
             /\ (Fresh(g) <=> Fresh(g)')
             /\ \A u : HoldsRow(g, u) <=> HoldsRow(g, u)'
             /\ \A id : HoldsKey(g, id) <=> HoldsKey(g, id)'
      BY <1>3, <2>1, Untouched
    <2>4. Locking'
      BY <1>4, <2>1, <2>3 DEF Inv, Locking
    <2> QED
      BY <2>2, <2>4 DEF Inv
  <1>8. CASE x.op # "read"
    <2>1. HoldsRow(c, t)
      BY <1>1, <1>8 DEF HoldsRow
    <2>2. /\ Exists(t) /\ x.prev + x.delta \in Nat
          /\ x.prev \in Nat /\ x.delta \in Int /\ x.spend \in BOOLEAN
      BY <1>1, <1>2, <2>1 DEF Fresh, Transaction
    <2>3. account[t] \in [balance : Nat, version : Nat]
      BY <1>1, <2>2 DEF Inv, TypeOK, Exists
    <2>4. account' = [account EXCEPT ![t] =
                         [balance |-> x.prev + x.delta, version |-> account[t].version + 1]]
      BY <1>8 DEF Commit, Post
    <2>5. account' \in [Tenants -> [balance : Nat, version : Nat] \cup {NoTenant}]
      BY <1>1, <2>2, <2>3, <2>4 DEF Inv, TypeOK
    <2>6. ledger' \in [Tenants -> Seq(LedgerRow)]
      <3> DEFINE row == [amount |-> x.delta, prev |-> x.prev, new |-> x.prev + x.delta,
                         spend |-> x.spend]
      <3>1. row \in LedgerRow
        BY <2>2 DEF LedgerRow
      <3>2. ledger' = [ledger EXCEPT ![t] = Append(ledger[t], row)]
        BY <1>8 DEF Commit, Post
      <3> HIDE DEF row
      <3>3. Append(ledger[t], row) \in Seq(LedgerRow)
        BY <1>1, <3>1, AppendProperties DEF Inv, TypeOK
      <3> QED
        BY <3>2, <3>3 DEF Inv, TypeOK
    <2>7. /\ x.op = "recharge" => /\ x.id \in RechargeIds
                                  /\ [id |-> x.id, tenant |-> t, amount |-> x.delta] \in RechargeRow
          /\ \A q \in recharges' : q \in recharges \/ (HoldsKey(c, x.id) /\ q.id = x.id)
      BY <1>1, <1>2 DEF Commit, Shape, RechargeRow, HoldsKey
    <2>8. recharges' \subseteq RechargeRow
      BY <2>7 DEF Commit, Inv, TypeOK
    <2>9. TypeOK'
      BY <1>5, <1>6, <2>5, <2>6, <2>8 DEF TypeOK
    <2>10. \A g \in Clients \ {c} : Active(g)' <=> Active(g)
      BY <1>3 DEF Active
    <2>11. \A g \in Clients \ {c} : /\ (Shape(g)' <=> Shape(g))
                                    /\ (\A u : HoldsRow(g, u)' <=> HoldsRow(g, u))
                                    /\ (\A id : HoldsKey(g, id)' <=> HoldsKey(g, id))
      BY <1>3, <2>10 DEF Shape, HoldsRow, HoldsKey
    <2>12. \A g \in Clients \ {c} : Active(g) => Fresh(g)'
      <3> SUFFICES ASSUME NEW g \in Clients \ {c}, Active(g)
                   PROVE  Fresh(g)'
        OBVIOUS
      <3>1. Fresh(g) /\ tx'[g] = tx[g] /\ tx[g].tenant \in Tenants
        BY <1>3, ActiveType DEF Inv, Locking, Transaction
      <3>2. \A u \in Tenants : account'[u] # NoTenant \/ (u # t /\ account'[u] = account[u])
        <4>1. account'[t] \in [balance : Nat, version : Nat]
          BY <1>1, <2>2, <2>3, <2>4 DEF Inv, TypeOK
        <4>2. account'[t] # NoTenant
          BY <4>1, BillingStoreAssumption DEF BillingStoreAssumption
        <4> QED
          BY <2>4, <4>2 DEF Inv, TypeOK
      <3>3. ~HoldsRow(g, t)
        BY <1>1, <2>1 DEF Inv, Locking
      <3>4. HoldsRow(g, tx[g].tenant) => account'[tx[g].tenant] = account[tx[g].tenant]
        BY <2>4, <3>1, <3>3 DEF Inv, TypeOK
      <3>5. Exists(tx[g].tenant) => account'[tx[g].tenant] # NoTenant
        BY <3>1, <3>2 DEF Exists
      <3> QED
        BY <2>11, <3>1, <3>4, <3>5 DEF Fresh, Exists
    <2>13. \A g \in Clients, q \in recharges' : ~HoldsKey(g, q.id)'
      <3> SUFFICES ASSUME NEW g \in Clients, NEW q \in recharges', HoldsKey(g, q.id)'
                   PROVE  FALSE
        OBVIOUS
      <3>1. g # c /\ HoldsKey(g, q.id)
        BY <1>4, <2>11
      <3>2. q.id \in RechargeIds
        BY <2>8 DEF RechargeRow
      <3>3. q \notin recharges
        BY <3>1 DEF Inv, Locking
      <3>4. HoldsKey(c, q.id)
        BY <2>7, <3>3
      <3> QED
        BY <3>1, <3>2, <3>4 DEF Inv, Locking
    <2>14. Locking'
      BY <1>4, <2>10, <2>11, <2>12, <2>13 DEF Inv, Locking
    <2> QED
      BY <2>9, <2>14 DEF Inv
  <1> QED
    BY <1>7, <1>8

LEMMA MidnightKeepsInv ==
    ASSUME Inv, Midnight
    PROVE  Inv'
  <1>1. TypeOK'
    BY BillingStoreAssumption DEF Midnight, stored, Inv, TypeOK, Days, BillingStoreAssumption
  <1>2. Locking'
    BY DEF Midnight, stored, Inv, Locking, Active, Shape, Fresh, HoldsRow, HoldsKey, Exists
  <1> QED
    BY <1>1, <1>2 DEF Inv

----------------------------------------------------------------------------
(* Theorems *)

LEMMA InitInv ==
    ASSUME Init
    PROVE  Inv
  <1>1. TypeOK
    <2>1. [start |-> 0, used |-> 0] \in Window
      BY BillingStoreAssumption DEF Window, Days, BillingStoreAssumption
    <2>2. 0 \in Days
      BY BillingStoreAssumption DEF Days, BillingStoreAssumption
    <2>3. <<>> \in Seq(LedgerRow)
      OBVIOUS
    <2> QED
      BY <2>1, <2>2, <2>3 DEF Init, TypeOK
  <1>2. Locking
    BY DEF Init, Locking, Active, HoldsRow, HoldsKey
  <1> QED
    BY <1>1, <1>2 DEF Inv

LEMMA NextKeepsInv ==
    ASSUME Inv, [Next]_vars
    PROVE  Inv'
  <1>1. ASSUME NEW t \in Tenants, CreateTenant(t) PROVE Inv'
    BY <1>1, CreateTenantKeepsInv
  <1>2. ASSUME NEW c \in Clients, Start(c) PROVE Inv'
    BY <1>2, StartKeepsInv
  <1>3. ASSUME NEW c \in Clients, Step(c) PROVE Inv'
    BY <1>3, LookUpKeepsInv, LockRowKeepsInv, UpdateRowKeepsInv, LockWindowKeepsInv,
       ReadBalanceKeepsInv, InsertRechargeKeepsInv, CommitKeepsInv DEF Step
  <1>4. ASSUME NEW c \in Clients, Fail(c) PROVE Inv'
    BY <1>4, AbandonKeepsInv DEF Fail
  <1>5. CASE Midnight
    BY <1>5, MidnightKeepsInv
  <1>6. CASE UNCHANGED vars
    BY <1>6 DEF vars, Inv, TypeOK, Locking, Active, Shape, Fresh, HoldsRow, HoldsKey, Exists
  <1> QED
    BY <1>1, <1>2, <1>3, <1>4, <1>5, <1>6 DEF Next

\* The tables are typed and every lock is as its holder believes, in every
\* reachable state; the theorems that follow rest on this one.
THEOREM Invariance == Spec => []Inv
  <1>1. Init => Inv
    BY InitInv
  <1>2. Inv /\ [Next]_vars => Inv'
    BY NextKeepsInv
  <1> QED
    BY <1>1, <1>2, PTL DEF Spec

\* Every table and every transaction in flight stays well typed; in particular
\* no balance is ever negative (the CHECK of tenant_balance never has to fire).
THEOREM TypeCorrect == Spec => []TypeOK
  <1>1. Inv => TypeOK
    BY DEF Inv
  <1> QED
    BY <1>1, Invariance, PTL

\* Whoever moves money holds the balance row alone and knows its content;
\* nobody inserts a recharge id that another connection holds.
THEOREM LockDiscipline == Spec => []Locking
  <1>1. Inv => Locking
    BY DEF Inv
  <1> QED
    BY <1>1, Invariance, PTL

\* The UPDATE of applyBalanceDelta never misses its version.
THEOREM UpdateNeverMisses == Spec => []CasNeverMisses
  <1>1. Inv => CasNeverMisses
    <2> SUFFICES ASSUME Inv, NEW c \in Clients, tx[c].at = "update"
                 PROVE  account[tx[c].tenant].version = tx[c].version
      BY DEF CasNeverMisses
    <2>1. Active(c) /\ tx[c] \in Transaction
      BY ActiveType DEF Inv, Steps
    <2>2. Shape(c) /\ Fresh(c)
      BY <2>1 DEF Inv, Locking
    <2>3. HoldsRow(c, tx[c].tenant)
      BY <2>1, <2>2 DEF HoldsRow, Shape
    <2> QED
      BY <2>2, <2>3 DEF Fresh
  <1> QED
    BY <1>1, Invariance, PTL

LEMMA AccountInit ==
    ASSUME Init
    PROVE  Account!Init
  BY DEF Init, Account!Init, Balance, Exists

\* Every statement but a COMMIT that moves money stutters in the account.
LEMMA AccountStep ==
    ASSUME Inv, [Next]_vars
    PROVE  [Account!Next]_Account!vars
  <1>1. CASE UNCHANGED <<account, ledger, recharges>>
    BY <1>1 DEF Account!vars, Balance, Exists
  <1>2. ASSUME NEW t \in Tenants, CreateTenant(t)
        PROVE  UNCHANGED Account!vars
    <2>1. \A u \in Tenants : Balance(u)' = Balance(u)
      BY <1>2, BillingStoreAssumption
         DEF CreateTenant, Balance, Exists, Inv, TypeOK, BillingStoreAssumption
    <2> QED
      BY <1>2, <2>1 DEF CreateTenant, Account!vars
  <1>3. ASSUME NEW c \in Clients, Commit(c), tx[c].op # "read"
        PROVE  Account!Next
    <2> DEFINE x == tx[c]
               t == x.tenant
    <2>1. Active(c) /\ x \in Transaction /\ x.at = "commit" /\ t \in Tenants
      BY <1>3, ActiveType DEF Commit, Inv, Steps, Transaction
    <2>2. Shape(c) /\ Fresh(c) /\ HoldsRow(c, t)
      BY <1>3, <2>1 DEF Inv, Locking, HoldsRow
    <2>3. /\ Balance(t) = x.prev /\ x.prev + x.delta >= 0
          /\ x.prev \in Nat /\ x.delta \in Int /\ x.spend \in BOOLEAN
      BY <2>1, <2>2 DEF Fresh, Balance, Transaction
    <2>4. \A u \in Tenants : Balance(u)' = IF u = t THEN x.prev + x.delta ELSE Balance(u)
      <3> DEFINE row == [balance |-> x.prev + x.delta, version |-> account[t].version + 1]
      <3>1. account[t].version \in Nat
        BY <2>1, <2>2 DEF Fresh, Exists, Inv, TypeOK
      <3>2. row \in [balance : Nat, version : Nat]
        BY <2>3, <3>1
      <3>3. row # NoTenant
        BY <3>2, BillingStoreAssumption DEF BillingStoreAssumption
      <3>4. account' = [account EXCEPT ![t] = row]
        BY <1>3 DEF Commit, Post
      <3>5. row.balance = x.prev + x.delta
        OBVIOUS
      <3> HIDE DEF row
      <3> QED
        BY <2>1, <3>3, <3>4, <3>5 DEF Balance, Exists, Inv, TypeOK
    <2>5. Account!Post(t, x.delta, x.spend)
      BY <1>3, <2>1, <2>3, <2>4 DEF Account!Post, Commit, Post, Inv, TypeOK
    <2>6. CASE x.op = "move"
      <3>1. Account!Move(t, x.delta, x.spend)
        BY <1>3, <2>5, <2>6 DEF Account!Move, Commit
      <3>2. x.delta \in {-d : d \in Holds} \cup Refunds
        BY <2>2, <2>6 DEF Shape
      <3> QED
        BY <2>1, <2>3, <3>1, <3>2 DEF Account!Next
    <2>7. CASE x.op = "recharge"
      <3>1. x.id \in RechargeIds /\ x.delta \in Credits /\ x.spend = FALSE
        BY <2>2, <2>3, <2>7 DEF Shape
      <3>2. PICK id \in RechargeIds, a \in Credits : id = x.id /\ a = x.delta
        BY <3>1
      <3>3. id \notin {q.id : q \in recharges}
        BY <2>1, <3>1, <3>2 DEF Inv, Locking, HoldsKey
      <3>4. {q.id : q \in recharges'} = {q.id : q \in recharges} \cup {id}
        <4> DEFINE row == [id |-> id, tenant |-> t, amount |-> a]
        <4>1. recharges' = recharges \cup {row}
          BY <1>3, <2>7, <3>2 DEF Commit
        <4>2. row.id = id
          OBVIOUS
        <4> HIDE DEF row
        <4> QED
          BY <4>1, <4>2
      <3>5. Account!Recharge(id, t, a)
        BY <2>5, <3>1, <3>2, <3>3, <3>4 DEF Account!Recharge
      <3> QED
        BY <2>1, <3>5 DEF Account!Next
    <2> QED
      BY <1>3, <2>1, <2>6, <2>7 DEF Transaction
  <1>4. ASSUME NEW c \in Clients, Start(c)
        PROVE  UNCHANGED <<account, ledger, recharges>>
    BY <1>4 DEF Start, BeginMove, BeginRecharge, BeginRead, Begin, stored
  <1>5. ASSUME NEW c \in Clients, Step(c), ~(Commit(c) /\ tx[c].op # "read")
        PROVE  UNCHANGED <<account, ledger, recharges>>
    <2>1. CASE Commit(c) /\ tx[c].op = "read"
      BY <2>1 DEF Commit
    <2> QED
      BY <1>5, <2>1 DEF Step, LookUp, LockRow, UpdateRow, LockWindow, ReadBalance,
                        InsertRecharge, stored
  <1>6. ASSUME NEW c \in Clients, Fail(c)
        PROVE  UNCHANGED <<account, ledger, recharges>>
    BY <1>6 DEF Fail, stored
  <1>7. ASSUME Midnight \/ UNCHANGED vars
        PROVE  UNCHANGED <<account, ledger, recharges>>
    BY <1>7 DEF Midnight, stored, vars
  <1> QED
    BY <1>1, <1>2, <1>3, <1>4, <1>5, <1>6, <1>7 DEF Next

\* The store implements the atomic account: under any interleaving of
\* statements and any rollback, its operations happen at one moment or not at all.
THEOREM StoreIsAtomic == Spec => Implements
  <1>1. Init => Account!Init
    BY AccountInit
  <1>2. Inv /\ [Next]_vars => [Account!Next]_Account!vars
    BY AccountStep
  <1> QED
    BY <1>1, <1>2, Invariance, PTL DEF Spec, Implements, Account!Spec

\* No window ever moves back to an earlier day.
THEOREM WindowsOnlyAdvance == Spec => WindowsForward
  <1> DEFINE Forward == \A t \in Tenants, kind \in Kinds :
                            Exists(t) => window'[t][kind].start >= window[t][kind].start
  <1>1. Inv /\ [Next]_vars => [Forward]_vars
    <2> SUFFICES ASSUME Inv, Next, NEW t \in Tenants, NEW kind \in Kinds, Exists(t)
                 PROVE  window'[t][kind].start >= window[t][kind].start
      OBVIOUS
    <2>1. window \in [Tenants -> [Kinds -> Window]] /\ window[t][kind].start \in Int
      BY DEF Inv, TypeOK, Window, Days
    <2>2. CASE UNCHANGED window
      BY <2>1, <2>2
    <2>3. ASSUME NEW u \in Tenants, CreateTenant(u)
          PROVE  window'[t][kind] = window[t][kind]
      BY <2>1, <2>3 DEF CreateTenant
    <2>4. ASSUME NEW c \in Clients, Commit(c)
          PROVE  window'[t][kind].start >= window[t][kind].start
      <3>1. tx[c] \in Transaction
        BY <2>4, ActiveType DEF Commit, Inv, Steps
      <3>2. Accumulated(tx[c])[kind].start >= window[tx[c].tenant][kind].start
        BY <2>1, <3>1, AccumulatedIsLater
      <3> QED
        BY <2>1, <2>4, <3>1, <3>2 DEF Commit
    <2>5. ASSUME NEW c \in Clients, Start(c) \/ Fail(c) \/ (Step(c) /\ ~Commit(c))
          PROVE  UNCHANGED window
      BY <2>5 DEF Start, BeginMove, BeginRecharge, BeginRead, Begin, Fail, Step, LookUp,
                  LockRow, UpdateRow, LockWindow, ReadBalance, InsertRecharge, stored
    <2>6. CASE Midnight
      BY <2>6, <2>2 DEF Midnight, stored
    <2> QED
      BY <2>1, <2>2, <2>3, <2>4, <2>5, <2>6 DEF Next, Step
  <1> QED
    BY <1>1, Invariance, PTL DEF Spec, WindowsForward

----------------------------------------------------------------------------
(* The quota windows of a tenant have one holder at a time *)

\* Every transaction locks the windows in one order, so the first window
\* decides who goes on to the others.
OneAtTheWindows ==
    \A c, g \in Clients :
        c # g /\ Active(c) /\ Active(g) /\ tx[c].tenant = tx[g].tenant =>
            tx[c].locked = 0 \/ tx[g].locked = 0

\* Who has locked any window has locked the first.
LEMMA FirstWindowHeld ==
    ASSUME TypeOK, NEW g \in Clients, Active(g), tx[g].locked # 0
    PROVE  HoldsWindow(g, tx[g].tenant, WindowKinds[1])
  <1>1. tx[g].locked \in 0 .. 3
    BY ActiveType DEF Transaction
  <1>2. 1 \in 1 .. tx[g].locked
    BY <1>1
  <1> QED
    BY <1>2 DEF HoldsWindow, WindowAt

\* A step of one transaction that takes no window.
LEMMA NoWindowTaken ==
    ASSUME TypeOK, OneAtTheWindows, NEW c \in Clients,
           \A g \in Clients : g # c => tx'[g] = tx[g],
           tx'[c] = Idle \/ tx'[c].locked = 0
              \/ (Active(c) /\ tx'[c].locked = tx[c].locked /\ tx'[c].tenant = tx[c].tenant)
    PROVE  OneAtTheWindows'
  BY DEF OneAtTheWindows, Active

\* What LookUp, LockRow, UpdateRow, ReadBalance and InsertRecharge leave of
\* the transaction that does them.
LEMMA StatementKeepsWindows ==
    ASSUME TypeOK, NEW c \in Clients,
           LookUp(c) \/ LockRow(c) \/ UpdateRow(c) \/ ReadBalance(c) \/ InsertRecharge(c)
    PROVE  /\ \A g \in Clients : g # c => tx'[g] = tx[g]
           /\ \/ tx'[c] = Idle
              \/ /\ Active(c) /\ tx'[c].locked = tx[c].locked
                 /\ tx'[c].tenant = tx[c].tenant /\ tx'[c].op = tx[c].op
               /\ tx'[c].delta = tx[c].delta /\ tx'[c].spend = tx[c].spend
                 /\ tx'[c].delta = tx[c].delta /\ tx'[c].spend = tx[c].spend
           /\ UNCHANGED stored
  <1>1. Active(c) /\ tx[c] \in Transaction
    BY ActiveType DEF LookUp, LockRow, UpdateRow, ReadBalance, InsertRecharge, Steps
  <1>2. ASSUME Abandon(c)
        PROVE  tx'[c] = Idle /\ \A g \in Clients : g # c => tx'[g] = tx[g]
    BY <1>2 DEF Abandon, TypeOK
  <1>3. ASSUME NEW v, tx' = [tx EXCEPT ![c] = v], v.locked = tx[c].locked,
               v.tenant = tx[c].tenant, v.op = tx[c].op,
               v.delta = tx[c].delta, v.spend = tx[c].spend
        PROVE  /\ \A g \in Clients : g # c => tx'[g] = tx[g]
               /\ tx'[c].locked = tx[c].locked
               /\ tx'[c].tenant = tx[c].tenant /\ tx'[c].op = tx[c].op
               /\ tx'[c].delta = tx[c].delta /\ tx'[c].spend = tx[c].spend
    BY <1>3 DEF TypeOK
  <1>4. ASSUME NEW at, Proceed(c, at)
        PROVE  /\ \A g \in Clients : g # c => tx'[g] = tx[g]
               /\ tx'[c].locked = tx[c].locked
               /\ tx'[c].tenant = tx[c].tenant /\ tx'[c].op = tx[c].op
               /\ tx'[c].delta = tx[c].delta /\ tx'[c].spend = tx[c].spend
    <2> DEFINE v == [tx[c] EXCEPT !.at = at]
    <2>1. /\ v.locked = tx[c].locked /\ v.tenant = tx[c].tenant /\ v.op = tx[c].op
          /\ v.delta = tx[c].delta /\ v.spend = tx[c].spend
      BY <1>1 DEF Transaction
    <2>2. tx' = [tx EXCEPT ![c] = v]
      BY <1>1, <1>4 DEF Proceed, TypeOK
    <2> HIDE DEF v
    <2> QED
      BY <1>3, <2>1, <2>2
  <1>5. CASE LookUp(c) \/ InsertRecharge(c)
    BY <1>1, <1>2, <1>4, <1>5 DEF LookUp, InsertRecharge
  <1>6. CASE LockRow(c)
    <2> DEFINE a == account[tx[c].tenant]
               v == [tx[c] EXCEPT !.at = "update", !.prev = a.balance, !.version = a.version]
    <2>1. /\ v.locked = tx[c].locked /\ v.tenant = tx[c].tenant /\ v.op = tx[c].op
          /\ v.delta = tx[c].delta /\ v.spend = tx[c].spend
      BY <1>1 DEF Transaction
    <2>2. Abandon(c) \/ tx' = [tx EXCEPT ![c] = v]
      BY <1>1, <1>6 DEF LockRow, TypeOK
    <2> HIDE DEF v
    <2> QED
      BY <1>1, <1>2, <1>3, <1>6, <2>1, <2>2 DEF LockRow
  <1>7. CASE UpdateRow(c)
    <2> DEFINE v == [tx[c] EXCEPT !.at = "row", !.attempt = tx[c].attempt + 1]
    <2>1. /\ v.locked = tx[c].locked /\ v.tenant = tx[c].tenant /\ v.op = tx[c].op
          /\ v.delta = tx[c].delta /\ v.spend = tx[c].spend
      BY <1>1 DEF Transaction
    <2>2. Abandon(c) \/ Proceed(c, "window") \/ tx' = [tx EXCEPT ![c] = v]
      BY <1>1, <1>7 DEF UpdateRow, TypeOK
    <2> HIDE DEF v
    <2> QED
      BY <1>1, <1>2, <1>3, <1>4, <1>7, <2>1, <2>2 DEF UpdateRow
  <1>8. CASE ReadBalance(c)
    <2> DEFINE v == [tx[c] EXCEPT !.at = "commit", !.prev = account[tx[c].tenant].balance]
    <2>1. /\ v.locked = tx[c].locked /\ v.tenant = tx[c].tenant /\ v.op = tx[c].op
          /\ v.delta = tx[c].delta /\ v.spend = tx[c].spend
      BY <1>1 DEF Transaction
    <2>2. tx' = [tx EXCEPT ![c] = v]
      BY <1>1, <1>8 DEF ReadBalance, TypeOK
    <2> HIDE DEF v
    <2> QED
      BY <1>1, <1>3, <1>8, <2>1, <2>2 DEF ReadBalance
  <1> QED
    BY <1>5, <1>6, <1>7, <1>8

\* The window that LockWindow takes nobody holds.
LEMMA LockWindowEffect ==
    ASSUME Inv, NEW c \in Clients, LockWindow(c)
    PROVE  /\ Active(c) /\ tx[c].at = "window" /\ UNCHANGED stored
           /\ \A g \in Clients : g # c => tx'[g] = tx[g]
           /\ \/ tx'[c] = Idle
              \/ /\ tx'[c].tenant = tx[c].tenant /\ tx'[c].op = tx[c].op
                 /\ tx'[c].delta = tx[c].delta /\ tx'[c].spend = tx[c].spend
                 /\ tx'[c].at \in {"window", "insert", "read", "commit"}
                 /\ tx[c].op = "read" => tx'[c].at # "commit"
                 /\ \A g \in Clients \ {c} :
                       ~HoldsWindow(g, tx[c].tenant, WindowAt(c, tx[c].locked + 1))
  <1>1. Active(c) /\ tx[c] \in Transaction /\ tx[c].at = "window"
    BY ActiveType DEF LockWindow, Steps, Inv
  <1>2. CASE Abandon(c)
    BY <1>1, <1>2 DEF Abandon, Inv, TypeOK, LockWindow
  <1>3. CASE ~Abandon(c)
    <2> DEFINE at == IF tx[c].locked < 2 THEN tx[c].at
                     ELSE CASE tx[c].op = "move"     -> "commit"
                            [] tx[c].op = "recharge" -> "insert"
                            [] tx[c].op = "read"     -> "read"
               v == [tx[c] EXCEPT !.locked = tx[c].locked + 1, !.at = at]
    <2>1. at \in {"window", "insert", "read", "commit"} /\ (tx[c].op = "read" => at # "commit")
      BY <1>1 DEF Transaction
    <2>2. tx' = [tx EXCEPT ![c] = v] /\ WindowIsFree(c)
      BY <1>1, <1>3 DEF LockWindow, Inv, TypeOK
    <2> HIDE DEF at
    <2>3. /\ v.at = at /\ v.tenant = tx[c].tenant /\ v.op = tx[c].op
          /\ v.delta = tx[c].delta /\ v.spend = tx[c].spend
      BY <1>1 DEF Transaction
    <2> HIDE DEF v
    <2>4. tx'[c] = v /\ \A g \in Clients : g # c => tx'[g] = tx[g]
      BY <2>2 DEF Inv, TypeOK
    <2> QED
      BY <1>1, <2>1, <2>2, <2>3, <2>4 DEF WindowIsFree, LockWindow
  <1> QED
    BY <1>2, <1>3

LEMMA LockWindowKeepsOne ==
    ASSUME Inv, OneAtTheWindows, NEW c \in Clients, LockWindow(c)
    PROVE  OneAtTheWindows'
  <1> SUFFICES ASSUME tx'[c] # Idle, NEW g \in Clients, g # c, Active(g),
                      tx[g].tenant = tx[c].tenant, tx[g].locked # 0
               PROVE  FALSE
    BY LockWindowEffect DEF OneAtTheWindows, Active
  <1>1. /\ Active(c) /\ tx[c] \in Transaction
        /\ ~HoldsWindow(g, tx[c].tenant, WindowAt(c, tx[c].locked + 1))
    BY LockWindowEffect, ActiveType DEF Inv
  <1>2. CASE tx[c].locked = 0
    BY <1>1, <1>2, FirstWindowHeld DEF Inv, WindowAt
  <1>3. CASE tx[c].locked # 0
    BY <1>1, <1>3 DEF OneAtTheWindows
  <1> QED
    BY <1>2, <1>3

\* How the other steps leave the transactions.
LEMMA StartEffect ==
    ASSUME TypeOK, NEW c \in Clients, Start(c)
    PROVE  /\ \A g \in Clients : g # c => tx'[g] = tx[g]
           /\ tx'[c].locked = 0 /\ tx'[c].at # "commit"
           /\ UNCHANGED stored
  <1>1. PICK op, at, t, delta, spend, id, day :
           Begin(c, op, at, t, delta, spend, id, day) /\ at \in {"row", "lookup", "window"}
    BY DEF Start, BeginMove, BeginRecharge, BeginRead
  <1> QED
    BY <1>1 DEF Begin, TypeOK

LEMMA EndEffect ==
    ASSUME TypeOK, NEW c \in Clients, Abandon(c)
    PROVE  tx'[c] = Idle /\ \A g \in Clients : g # c => tx'[g] = tx[g]
  BY DEF TypeOK, Abandon

LEMMA OneAtTheWindowsStep == Inv /\ OneAtTheWindows /\ [Next]_vars => OneAtTheWindows'
  <1> SUFFICES ASSUME Inv, OneAtTheWindows, [Next]_vars PROVE OneAtTheWindows'
    OBVIOUS
  <1> TypeOK
    BY DEF Inv
  <1>1. CASE \E c \in Clients : Start(c)
    BY <1>1, StartEffect, NoWindowTaken
  <1>2. CASE \E c \in Clients : LockWindow(c)
    BY <1>2, LockWindowKeepsOne
  <1>3. CASE \E c \in Clients : Commit(c) \/ Fail(c)
    BY <1>3, EndEffect, NoWindowTaken DEF Commit, Fail
  <1>4. CASE \E c \in Clients : LookUp(c) \/ LockRow(c) \/ UpdateRow(c) \/ ReadBalance(c)
                                   \/ InsertRecharge(c)
    BY <1>4, StatementKeepsWindows, NoWindowTaken
  <1>5. CASE UNCHANGED tx
    BY <1>5 DEF OneAtTheWindows, Active
  <1> QED
    BY <1>1, <1>2, <1>3, <1>4, <1>5 DEF Next, Step, CreateTenant, Midnight, vars

\* A statement of a transaction that writes nothing.
LEMMA QuietStepKeepsMoment ==
    ASSUME Inv, ReadsOneMoment, NEW c \in Clients, UNCHANGED account,
           \A g \in Clients : g # c => tx'[g] = tx[g],
           tx'[c].at = "commit" /\ tx'[c].op = "read" =>
              tx'[c].prev = account[tx'[c].tenant].balance
    PROVE  ReadsOneMoment'
  BY DEF ReadsOneMoment

LEMMA CommitKeepsMoment ==
    ASSUME Inv, OneAtTheWindows, ReadsOneMoment, NEW c \in Clients, Commit(c)
    PROVE  ReadsOneMoment'
  <1>1. Active(c) /\ tx[c].at = "commit" /\ tx[c].tenant \in Tenants /\ tx[c].locked = 3
    <2>1. Active(c) /\ tx[c] \in Transaction /\ tx[c].at = "commit"
      BY ActiveType DEF Commit, Inv, Steps
    <2> QED
      BY <2>1 DEF Inv, Locking, Shape, Transaction
  <1>2. tx'[c] = Idle /\ \A g \in Clients : g # c => tx'[g] = tx[g]
    BY EndEffect DEF Commit, Inv
  <1> SUFFICES ASSUME NEW g \in Clients, g # c, tx[g].at = "commit", tx[g].op = "read"
               PROVE  account'[tx[g].tenant].balance = account[tx[g].tenant].balance
    BY <1>2 DEF ReadsOneMoment, Idle
  <1>3. CASE tx[c].op = "read"
    BY <1>3 DEF Commit
  <1>4. CASE tx[c].op # "read"
    <2>1. Active(g) /\ tx[g].locked = 3 /\ tx[g].tenant \in Tenants
      <3>1. Active(g) /\ tx[g] \in Transaction
        BY ActiveType DEF Inv, Steps
      <3> QED
        BY <3>1 DEF Inv, Locking, Shape, Transaction
    <2>2. tx[g].tenant # tx[c].tenant
      BY <1>1, <2>1 DEF OneAtTheWindows
    <2> QED
      BY <1>1, <1>4, <2>1, <2>2 DEF Commit, Post, Inv, TypeOK
  <1> QED
    BY <1>3, <1>4

LEMMA CreateTenantKeepsMoment ==
    ASSUME Inv, ReadsOneMoment, NEW t \in Tenants, CreateTenant(t)
    PROVE  ReadsOneMoment'
  <1> SUFFICES ASSUME NEW g \in Clients, tx[g].at = "commit", tx[g].op = "read"
               PROVE  account'[tx[g].tenant] = account[tx[g].tenant]
    BY DEF ReadsOneMoment, CreateTenant
  <1>1. Active(g) /\ tx[g] \in Transaction
    BY ActiveType DEF Inv, Steps
  <1>2. Exists(tx[g].tenant) /\ tx[g].tenant \in Tenants
    BY <1>1 DEF Inv, Locking, Shape, Fresh, Transaction
  <1> QED
    BY <1>2 DEF CreateTenant, Inv, TypeOK

LEMMA ReadsOneMomentStep ==
    Inv /\ OneAtTheWindows /\ ReadsOneMoment /\ [Next]_vars => ReadsOneMoment'
  <1> SUFFICES ASSUME Inv, OneAtTheWindows, ReadsOneMoment, [Next]_vars
               PROVE  ReadsOneMoment'
    OBVIOUS
  <1> TypeOK
    BY DEF Inv
  <1>1. CASE \E c \in Clients : Start(c)
    BY <1>1, StartEffect, QuietStepKeepsMoment DEF stored
  <1>2. CASE \E c \in Clients : LockWindow(c)
    <2>1. PICK c \in Clients : LockWindow(c)
      BY <1>2
    <2>2. ~(tx'[c].at = "commit" /\ tx'[c].op = "read")
      BY <2>1, LockWindowEffect DEF Idle
    <2> QED
      BY <2>1, <2>2, LockWindowEffect, QuietStepKeepsMoment DEF stored
  <1>3. CASE \E c \in Clients : Commit(c)
    BY <1>3, CommitKeepsMoment
  <1>4. CASE \E c \in Clients : Fail(c)
    <2>1. PICK c \in Clients : Fail(c)
      BY <1>4
    <2>2. tx'[c].at # "commit" /\ \A g \in Clients : g # c => tx'[g] = tx[g]
      BY <2>1, EndEffect DEF Fail, Idle
    <2> QED
      BY <2>1, <2>2, QuietStepKeepsMoment DEF Fail, stored
  <1>5. CASE \E c \in Clients : LookUp(c) \/ LockRow(c) \/ UpdateRow(c) \/ InsertRecharge(c)
    <2>1. PICK c \in Clients : LookUp(c) \/ LockRow(c) \/ UpdateRow(c) \/ InsertRecharge(c)
      BY <1>5
    <2>2. tx[c].op # "read"
      <3>1. Active(c) /\ tx[c].at \in {"lookup", "row", "update", "insert"}
        BY <2>1, ActiveType DEF LookUp, LockRow, UpdateRow, InsertRecharge, Steps
      <3> QED
        BY <3>1 DEF Inv, Locking, Shape
    <2>3. /\ \A g \in Clients : g # c => tx'[g] = tx[g]
          /\ tx'[c] = Idle \/ tx'[c].op = tx[c].op
          /\ UNCHANGED stored
      BY <2>1, StatementKeepsWindows
    <2>4. ~(tx'[c].at = "commit" /\ tx'[c].op = "read")
      BY <2>2, <2>3 DEF Idle
    <2> QED
      BY <2>3, <2>4, QuietStepKeepsMoment DEF stored
  <1>6. CASE \E c \in Clients : ReadBalance(c)
    <2>1. PICK c \in Clients : ReadBalance(c)
      BY <1>6
    <2>2. Active(c) /\ tx[c] \in Transaction
      BY <2>1, ActiveType DEF ReadBalance, Steps
    <2> DEFINE v == [tx[c] EXCEPT !.at = "commit", !.prev = account[tx[c].tenant].balance]
    <2>3. v.tenant = tx[c].tenant /\ v.prev = account[tx[c].tenant].balance
      BY <2>2 DEF Transaction
    <2>4. tx' = [tx EXCEPT ![c] = v] /\ UNCHANGED account
      BY <2>1, <2>2 DEF ReadBalance, TypeOK, stored
    <2> HIDE DEF v
    <2>5. tx'[c] = v /\ \A g \in Clients : g # c => tx'[g] = tx[g]
      BY <2>4 DEF TypeOK
    <2> QED
      BY <2>3, <2>4, <2>5, QuietStepKeepsMoment
  <1>7. CASE \E t \in Tenants : CreateTenant(t)
    BY <1>7, CreateTenantKeepsMoment
  <1>8. CASE UNCHANGED <<account, tx>>
    BY <1>8 DEF ReadsOneMoment
  <1> QED
    BY <1>1, <1>2, <1>3, <1>4, <1>5, <1>6, <1>7, <1>8 DEF Next, Step, Midnight, stored, vars

LEMMA WindowsInv == Spec => [](Inv /\ OneAtTheWindows)
  <1>1. Init => OneAtTheWindows
    BY DEF Init, OneAtTheWindows, Active
  <1> QED
    BY <1>1, OneAtTheWindowsStep, Invariance, PTL DEF Spec

\* What getBalance answers, the balance and the usage, was so at one moment.
THEOREM BalanceAndUsageAgree == Spec => []ReadsOneMoment
  <1>1. Init => ReadsOneMoment
    BY DEF Init, ReadsOneMoment, Idle
  <1> QED
    BY <1>1, ReadsOneMomentStep, WindowsInv, PTL DEF Spec

----------------------------------------------------------------------------
(* Waiting *)

\* Who holds windows, or is among those that hold none, waits for no window.
LEMMA WindowHolderGoesOn ==
    ASSUME Inv, OneAtTheWindows, NEW c \in Clients, Active(c),
           NEW g \in Clients, tx[c].locked # 0 \/ (Active(g) => tx[g].locked = 0),
           tx[c].at = "window"
    PROVE  ~WaitsFor(c, g)
  <1> SUFFICES ASSUME c # g, HoldsWindow(g, tx[c].tenant, WindowAt(c, tx[c].locked + 1))
               PROVE  FALSE
    BY DEF WaitsFor
  <1>1. /\ Active(g) /\ tx[g].tenant = tx[c].tenant
        /\ \E i \in 1 .. tx[g].locked : TRUE
    BY DEF HoldsWindow
  <1>2. tx[g].locked # 0
    BY <1>1
  <1> QED
    BY <1>1, <1>2 DEF OneAtTheWindows

\* Of any connections one waits for none of the others: one that takes no lock
\* now, or else the one that has come furthest in the order row, windows,
\* recharge id.
LEMMA SomeoneGoesOn ==
    ASSUME Inv, OneAtTheWindows, NEW S \in SUBSET Clients, NEW a \in S
    PROVE  \E c \in S : \A g \in S : ~WaitsFor(c, g)
  <1>1. \A c \in Clients : Active(c) => tx[c] \in Transaction /\ Shape(c)
    BY ActiveType DEF Inv, Locking
  <1>2. CASE \E c \in S : ~Active(c) \/ tx[c].at \in {"lookup", "read", "commit"}
    BY <1>2 DEF WaitsFor
  <1>3. CASE /\ \A c \in S : Active(c) /\ tx[c].at \notin {"lookup", "read", "commit"}
             /\ \E c \in S : tx[c].at = "insert"
    <2>1. \A c \in S, g \in S : tx[c].at = "insert" => ~WaitsFor(c, g)
      BY <1>3 DEF WaitsFor, HoldsKey
    <2> QED
      BY <1>3, <2>1
  <1>4. CASE \E c \in S : Active(c) /\ tx[c].at = "window" /\ tx[c].locked # 0
    BY <1>4, WindowHolderGoesOn
  <1>5. CASE \A c \in S : Active(c) /\ tx[c].at \in {"row", "update", "window"}
                          /\ tx[c].locked = 0
    <2>1. CASE \E c \in S : tx[c].at = "window"
      BY <1>5, <2>1, WindowHolderGoesOn
    <2>2. CASE \E c \in S : tx[c].at = "update"
      <3>1. PICK c \in S : Active(c) /\ tx[c].at = "update"
        BY <1>5, <2>2
      <3>2. HoldsRow(c, tx[c].tenant) /\ tx[c].tenant \in Tenants
        BY <1>1, <3>1 DEF HoldsRow, Shape, Transaction
      <3>3. \A g \in S : g # c => ~HoldsRow(g, tx[c].tenant)
        BY <3>2 DEF Inv, Locking
      <3> QED
        BY <3>1, <3>3 DEF WaitsFor
    <2>3. CASE \A c \in S : tx[c].at = "row"
      <3>1. \A g \in S : ~HoldsRow(g, tx[a].tenant)
        BY <1>1, <1>5, <2>3 DEF HoldsRow, Shape
      <3> QED
        BY <2>3, <3>1 DEF WaitsFor
    <2> QED
      BY <1>5, <2>1, <2>2, <2>3
  <1> QED
    <2>1. \A c \in S : Active(c) =>
             /\ tx[c].at \in Steps
             /\ tx[c].at \in {"row", "update"} => tx[c].locked = 0
      BY <1>1 DEF Shape, Transaction
    <2> QED
      BY <1>2, <1>3, <1>4, <1>5, <2>1 DEF Steps

\* The statements of all operations take their locks in one order, so in no
\* set of connections does each wait for another of the set.
THEOREM NobodyWaitsForItself == Spec => []NoCircularWait
  <1>1. Inv /\ OneAtTheWindows => NoCircularWait
    BY SomeoneGoesOn DEF NoCircularWait
  <1> QED
    BY <1>1, WindowsInv, PTL

----------------------------------------------------------------------------
(* What the ledger's rows have spent *)

\* What one ledger row adds to what has been spent.
SpentIn(row) == IF row.spend THEN -row.amount ELSE 0

\* g sums the ledgers of S from their rows.
Sums(g, S) == g = [s \in S |-> IF s = <<>> THEN 0 ELSE g[Tail(s)] + SpentIn(Head(s))]

Short(n) == {s \in Seq(LedgerRow) : Len(s) <= n}

\* Proofs about Spent go by the least counterexample.
LEMMA NatHasLeast ==
    ASSUME NEW T, T \subseteq Nat, T # {}
    PROVE  \E n \in T : \A m \in T : n <= m
  <1>1. \E n \in T : \A m \in T : <<m, n>> \notin OpToRel(<, Nat)
    BY NatLessThanWellFounded, WFMin
  <1>2. PICK n \in T : \A m \in T : <<m, n>> \notin OpToRel(<, Nat)
    BY <1>1
  <1>3. \A m \in T : ~(m < n)
    BY <1>2 DEF OpToRel
  <1> QED
    BY <1>3

LEMMA SpentInIsInt ==
    ASSUME NEW row \in LedgerRow
    PROVE  SpentIn(row) \in Int
  BY DEF SpentIn, LedgerRow

LEMMA TailIsShorter ==
    ASSUME NEW s \in Seq(LedgerRow), s # <<>>
    PROVE  /\ Head(s) \in LedgerRow /\ Tail(s) \in Seq(LedgerRow)
           /\ Len(s) \in Nat /\ Len(s) > 0 /\ Len(Tail(s)) = Len(s) - 1
  BY HeadTailProperties, LenProperties, EmptySeq

\* Two sums agree where both are defined.
LEMMA SumsAgree ==
    ASSUME NEW n \in Nat, NEW m \in Nat, NEW g, NEW h, Sums(g, Short(n)), Sums(h, Short(m)),
           NEW s \in Short(n) \cap Short(m)
    PROVE  g[s] = h[s]
  <1> DEFINE Apart == {k \in Nat : \E r \in Short(n) \cap Short(m) : Len(r) = k /\ g[r] # h[r]}
  <1>1. SUFFICES ASSUME Apart # {} PROVE FALSE
    BY DEF Short
  <1>2. PICK k \in Apart : \A j \in Apart : k <= j
    BY <1>1, NatHasLeast
  <1>3. PICK r \in Short(n) \cap Short(m) : Len(r) = k /\ g[r] # h[r]
    BY <1>2
  <1>4. \A q \in Short(n) : g[q] = IF q = <<>> THEN 0 ELSE g[Tail(q)] + SpentIn(Head(q))
    BY DEF Sums
  <1>5. \A q \in Short(m) : h[q] = IF q = <<>> THEN 0 ELSE h[Tail(q)] + SpentIn(Head(q))
    BY DEF Sums
  <1>6. r # <<>>
    BY <1>3, <1>4, <1>5
  <1>7. Tail(r) \in Short(n) \cap Short(m) /\ Len(Tail(r)) = k - 1 /\ k \in Nat /\ k > 0
    BY <1>3, <1>6, TailIsShorter DEF Short
  <1>8. k - 1 \notin Apart
    BY <1>2, <1>7
  <1>9. g[Tail(r)] = h[Tail(r)]
    <2>1. k - 1 \in Nat
      BY <1>7
    <2> SUFFICES ASSUME g[Tail(r)] # h[Tail(r)] PROVE k - 1 \in Apart
      BY <1>8
    <2> QED
      BY <1>7, <2>1
  <1> QED
    BY <1>3, <1>4, <1>5, <1>6, <1>9

\* Ledgers of any length have a sum.
LEMMA SumsExist ==
    ASSUME NEW n \in Nat
    PROVE  \E g : Sums(g, Short(n))
  <1> DEFINE Without == {k \in Nat : ~ \E g : Sums(g, Short(k))}
  <1>1. SUFFICES ASSUME Without # {} PROVE FALSE
    OBVIOUS
  <1>2. PICK k \in Without : \A j \in Without : k <= j
    BY <1>1, NatHasLeast
  <1>3. k \in Nat /\ ~ \E g : Sums(g, Short(k))
    BY <1>2
  <1>4. CASE k = 0
    <2> DEFINE h == [s \in Short(0) |-> 0]
    <2>1. \A s \in Short(0) : s = <<>>
      BY TailIsShorter DEF Short
    <2>2. h = [s \in Short(0) |-> IF s = <<>> THEN 0 ELSE h[Tail(s)] + SpentIn(Head(s))]
      BY <2>1
    <2>3. Sums(h, Short(0))
      BY <2>2 DEF Sums
    <2> QED
      BY <1>3, <1>4, <2>3
  <1>5. CASE k > 0
    <2>1. k - 1 \in Nat /\ k - 1 \notin Without
      BY <1>2, <1>3, <1>5
    <2>2. PICK g : Sums(g, Short(k - 1))
      BY <2>1
    <2> DEFINE h == [s \in Short(k) |-> IF s = <<>> THEN 0 ELSE g[Tail(s)] + SpentIn(Head(s))]
    <2>3. \A q \in Short(k - 1) : g[q] = IF q = <<>> THEN 0 ELSE g[Tail(q)] + SpentIn(Head(q))
      BY <2>2 DEF Sums
    <2>4. \A q \in Short(k - 1) : h[q] = g[q]
      <3>1. Short(k - 1) \subseteq Short(k)
        BY <1>3, <2>1, LenProperties DEF Short
      <3> QED
        BY <2>3, <3>1
    <2>5. \A s \in Short(k) : s # <<>> => Tail(s) \in Short(k - 1)
      BY <1>3, TailIsShorter DEF Short
    <2>6. h = [s \in Short(k) |-> IF s = <<>> THEN 0 ELSE h[Tail(s)] + SpentIn(Head(s))]
      <3> SUFFICES ASSUME NEW s \in Short(k)
                   PROVE  h[s] = IF s = <<>> THEN 0 ELSE h[Tail(s)] + SpentIn(Head(s))
        OBVIOUS
      <3> QED
        BY <2>4, <2>5
    <2> HIDE DEF h
    <2>7. Sums(h, Short(k))
      BY <2>6 DEF Sums
    <2> QED
      BY <1>3, <2>7
  <1> QED
    BY <1>3, <1>4, <1>5

\* So Spent is what its equation says.
LEMMA SpentSums == Sums(Spent, Seq(LedgerRow))
  <1> DEFINE g(n) == CHOOSE h : Sums(h, Short(n))
             f == [s \in Seq(LedgerRow) |-> g(Len(s))[s]]
  <1>1. \A n \in Nat : Sums(g(n), Short(n))
    BY SumsExist
  <1> HIDE DEF g
  <1>2. \A s \in Seq(LedgerRow) : Len(s) \in Nat /\ s \in Short(Len(s))
    BY LenProperties DEF Short
  <1>3. \A n \in Nat : \A s \in Short(n) :
           g(n)[s] = IF s = <<>> THEN 0 ELSE g(n)[Tail(s)] + SpentIn(Head(s))
    BY <1>1 DEF Sums
  <1>4. ASSUME NEW s \in Seq(LedgerRow)
        PROVE  f[s] = IF s = <<>> THEN 0 ELSE f[Tail(s)] + SpentIn(Head(s))
    <2>1. CASE s = <<>>
      BY <1>2, <1>3, <2>1
    <2>2. CASE s # <<>>
      <3>1. /\ Tail(s) \in Seq(LedgerRow) /\ Len(Tail(s)) \in Nat /\ Len(s) \in Nat
            /\ Tail(s) \in Short(Len(s)) \cap Short(Len(Tail(s)))
        BY <2>2, TailIsShorter DEF Short
      <3>2. g(Len(s))[Tail(s)] = g(Len(Tail(s)))[Tail(s)]
        BY <1>1, <3>1, SumsAgree
      <3>3. f[s] = g(Len(s))[Tail(s)] + SpentIn(Head(s))
        BY <1>2, <1>3, <2>2
      <3>4. f[Tail(s)] = g(Len(Tail(s)))[Tail(s)]
        BY <3>1
      <3> QED
        BY <2>2, <3>2, <3>3, <3>4
    <2> QED
      BY <2>1, <2>2
  <1>5. f = [s \in Seq(LedgerRow) |-> IF s = <<>> THEN 0 ELSE f[Tail(s)] + SpentIn(Head(s))]
    BY <1>4
  <1> HIDE DEF f
  <1>6. \E h : h = [s \in Seq(LedgerRow) |->
                       IF s = <<>> THEN 0
                       ELSE h[Tail(s)] + (IF Head(s).spend THEN -Head(s).amount ELSE 0)]
    BY <1>5 DEF SpentIn
  <1>7. Spent = [s \in Seq(LedgerRow) |->
                       IF s = <<>> THEN 0
                       ELSE Spent[Tail(s)] + (IF Head(s).spend THEN -Head(s).amount ELSE 0)]
    BY <1>6, Zenon DEF Spent
  <1> QED
    BY <1>7, Zenon DEF Sums, SpentIn

LEMMA SpentType == Spent \in [Seq(LedgerRow) -> Int]
  <1> DEFINE Wrong == {k \in Nat : \E r \in Seq(LedgerRow) : Len(r) = k /\ Spent[r] \notin Int}
  <1>1. \A s \in Seq(LedgerRow) :
           Spent[s] = IF s = <<>> THEN 0 ELSE Spent[Tail(s)] + SpentIn(Head(s))
    BY SpentSums DEF Sums
  <1>2. Wrong = {}
    <2>1. SUFFICES ASSUME Wrong # {} PROVE FALSE
      OBVIOUS
    <2>2. PICK k \in Wrong : \A j \in Wrong : k <= j
      BY <2>1, NatHasLeast
    <2>3. PICK r \in Seq(LedgerRow) : Len(r) = k /\ Spent[r] \notin Int
      BY <2>2
    <2>4. r # <<>>
      BY <1>1, <2>3
    <2>5. /\ Tail(r) \in Seq(LedgerRow) /\ Len(Tail(r)) = k - 1 /\ k \in Nat /\ k > 0
          /\ SpentIn(Head(r)) \in Int
      BY <2>3, <2>4, TailIsShorter, SpentInIsInt
    <2>6. k - 1 \notin Wrong
      BY <2>2, <2>5
    <2>7. Spent[Tail(r)] \in Int
      <3>1. k - 1 \in Nat
        BY <2>5
      <3> SUFFICES ASSUME Spent[Tail(r)] \notin Int PROVE k - 1 \in Wrong
        BY <2>6
      <3> QED
        BY <2>5, <3>1
    <2> QED
      BY <1>1, <2>3, <2>4, <2>5, <2>7
  <1>3. \A s \in Seq(LedgerRow) : Spent[s] \in Int
    BY <1>2, LenProperties
  <1> QED
    BY <1>3, SpentSums DEF Sums

\* A row that is posted adds what it spends.
LEMMA SpentAppend ==
    ASSUME NEW s \in Seq(LedgerRow), NEW row \in LedgerRow
    PROVE  Spent[Append(s, row)] = Spent[s] + SpentIn(row)
  <1> DEFINE Wrong == {k \in Nat : \E r \in Seq(LedgerRow) :
                          Len(r) = k /\ Spent[Append(r, row)] # Spent[r] + SpentIn(row)}
  <1>1. \A r \in Seq(LedgerRow) :
           /\ Spent[r] = IF r = <<>> THEN 0 ELSE Spent[Tail(r)] + SpentIn(Head(r))
           /\ Spent[r] \in Int
    BY SpentSums, SpentType DEF Sums
  <1>2. \A r \in Seq(LedgerRow) : Append(r, row) \in Seq(LedgerRow) /\ Append(r, row) # <<>>
    BY AppendProperties
  <1>3. Wrong = {}
    <2>1. SUFFICES ASSUME Wrong # {} PROVE FALSE
      OBVIOUS
    <2>2. PICK k \in Wrong : \A j \in Wrong : k <= j
      BY <2>1, NatHasLeast
    <2>3. PICK r \in Seq(LedgerRow) :
             Len(r) = k /\ Spent[Append(r, row)] # Spent[r] + SpentIn(row)
      BY <2>2
    <2>4. /\ Head(Append(r, row)) = IF r = <<>> THEN row ELSE Head(r)
          /\ Tail(Append(r, row)) = IF r = <<>> THEN <<>> ELSE Append(Tail(r), row)
      BY <2>3, HeadTailAppend, Zenon
    <2>5. Spent[<<>>] = 0 /\ SpentIn(row) \in Int
      BY <1>1, SpentInIsInt, EmptySeq
    <2>6. r # <<>>
      <3> SUFFICES ASSUME r = <<>> PROVE FALSE
        OBVIOUS
      <3>1. Spent[Append(r, row)] = 0 + SpentIn(row)
        BY <1>1, <1>2, <2>4, <2>5
      <3> QED
        BY <2>3, <2>5, <3>1
    <2>7. /\ Tail(r) \in Seq(LedgerRow) /\ Len(Tail(r)) = k - 1 /\ k \in Nat /\ k > 0
          /\ SpentIn(Head(r)) \in Int
      BY <2>3, <2>6, TailIsShorter, SpentInIsInt
    <2>8. k - 1 \notin Wrong
      BY <2>2, <2>7
    <2>9. Spent[Append(Tail(r), row)] = Spent[Tail(r)] + SpentIn(row)
      <3>1. k - 1 \in Nat
        BY <2>7
      <3> SUFFICES ASSUME Spent[Append(Tail(r), row)] # Spent[Tail(r)] + SpentIn(row)
                   PROVE  k - 1 \in Wrong
        BY <2>8
      <3> QED
        BY <2>7, <3>1
    <2>10. Spent[Append(r, row)] = Spent[Append(Tail(r), row)] + SpentIn(Head(r))
      BY <1>1, <1>2, <2>4, <2>6
    <2>11. Spent[r] = Spent[Tail(r)] + SpentIn(Head(r)) /\ Spent[Tail(r)] \in Int
      BY <1>1, <2>6, <2>7
    <2> QED
      BY <2>3, <2>5, <2>7, <2>9, <2>10, <2>11
  <1> QED
    BY <1>3, LenProperties

\* boundaryFor keeps the order of days.
LEMMA MonthsInOrder ==
    ASSUME NEW d \in Days, NEW e \in Days, d <= e
    PROVE  Boundary("monthly", d) <= Boundary("monthly", e)
  <1>1. d \in Nat /\ e \in Nat /\ MonthDays \in Nat /\ MonthDays > 0
    BY BillingStoreAssumption DEF BillingStoreAssumption, Days
  <1> DEFINE a == d \div MonthDays
             b == e \div MonthDays
  <1>2. /\ a \in Int /\ d = MonthDays * a + (d % MonthDays)
        /\ d % MonthDays \in 0 .. MonthDays - 1
    BY <1>1
  <1>3. /\ b \in Int /\ e = MonthDays * b + (e % MonthDays)
        /\ e % MonthDays \in 0 .. MonthDays - 1
    BY <1>1
  <1> HIDE DEF a, b
  <1>4. a <= b
    <2> SUFFICES ASSUME b + 1 <= a PROVE FALSE
      BY <1>2, <1>3
    <2>1. MonthDays * (b + 1) <= MonthDays * a
      BY <1>1, <1>2, <1>3
    <2>2. MonthDays * (b + 1) = MonthDays * b + MonthDays
      BY <1>1, <1>3
    <2> QED
      BY <1>1, <1>2, <1>3, <2>1, <2>2
  <1>5. MonthDays * a <= MonthDays * b
    BY <1>1, <1>2, <1>3, <1>4
  <1> QED
    BY <1>1, <1>2, <1>3, <1>5 DEF Boundary

----------------------------------------------------------------------------
(* Usage *)

\* Only what goes down counts as spent: a hold, or the debit of a settlement.
SpendsGoDown == \A c \in Clients :
    Active(c) /\ tx[c].spend = TRUE => tx[c].op # "read" /\ tx[c].delta <= 0

\* Of a tenant's windows: the month is that of the day, and each counts no
\* more than a longer one.
Nested(w) ==
    /\ w["monthly"].start = Boundary("monthly", w["daily"].start)
    /\ w["daily"].used <= w["monthly"].used
    /\ w["monthly"].used <= w["total"].used

UsageInv ==
    /\ SpendsGoDown
    /\ \A t \in Tenants : ~Exists(t) => ledger[t] = <<>>
    /\ \A t \in Tenants : Nested(window[t])
    /\ \A t \in Tenants : window[t]["total"].used = Spent[ledger[t]]

\* Each window is rolled by itself, but all of them by one clock.
LEMMA AccumulatedNested ==
    ASSUME NEW x \in Transaction, window \in [Tenants -> [Kinds -> Window]],
           Nested(window[x.tenant])
    PROVE  /\ Nested(Accumulated(x))
           /\ Accumulated(x)["total"].used = window[x.tenant]["total"].used + Usage(x)
  <1> DEFINE w == window[x.tenant]
             a == Accumulated(x)
             R(kind) == Rolled(kind, w[kind], x.day)
  <1>1. x.day \in Days /\ x.tenant \in Tenants /\ Usage(x) \in Nat
    BY UsageIsNat DEF Transaction
  <1>2. \A kind \in Kinds : w[kind] \in Window /\ R(kind) \in Window
    BY <1>1, RolledIsLater
  <1>3. \A kind \in Kinds :
           a[kind].start = R(kind).start /\ a[kind].used = R(kind).used + Usage(x)
    <2> SUFFICES ASSUME NEW kind \in Kinds
                 PROVE  a[kind].start = R(kind).start /\ a[kind].used = R(kind).used + Usage(x)
      OBVIOUS
    <2>1. a[kind] = [R(kind) EXCEPT !.used = @ + Usage(x)]
      BY DEF Accumulated
    <2>2. R(kind) \in Window
      BY <1>2
    <2> HIDE DEF a, R
    <2> QED
      BY <2>1, <2>2 DEF Window
  <1> DEFINE d == w["daily"]
             m == w["monthly"]
             n == w["total"]
             b == Boundary("monthly", x.day)
  <1>4. /\ d.start \in Days /\ d.used \in Nat /\ m.start \in Days /\ m.used \in Nat
        /\ n.used \in Nat /\ x.day \in Nat /\ d.start \in Nat /\ b \in Int
    BY <1>1, <1>2, BoundaryIsADay DEF Window, Kinds, Days
  <1>5. m.start = Boundary("monthly", d.start) /\ d.used <= m.used /\ m.used <= n.used
    BY DEF Nested
  <1>6. /\ d.start < x.day => R("daily").start = x.day /\ R("daily").used = 0
        /\ ~(d.start < x.day) => R("daily").start = d.start /\ R("daily").used = d.used
    BY DEF Rolled, Stale, Boundary
  <1>7. /\ m.start < b => R("monthly").start = b /\ R("monthly").used = 0
        /\ ~(m.start < b) => R("monthly").start = m.start /\ R("monthly").used = m.used
    BY DEF Rolled, Stale
  <1>8. R("total").used = n.used
    BY DEF Rolled, Stale
  <1>9. d.start < x.day => m.start <= b
    BY <1>1, <1>4, <1>5, MonthsInOrder
  <1>10. ~(d.start < x.day) => b <= m.start
    BY <1>1, <1>4, <1>5, MonthsInOrder
  <1>11. m.start \in Int
    BY <1>4 DEF Days
  <1>12. /\ R("monthly").start = Boundary("monthly", R("daily").start)
         /\ R("daily").used <= R("monthly").used /\ R("monthly").used <= R("total").used
         /\ R("daily").used \in Nat /\ R("monthly").used \in Nat /\ R("total").used \in Nat
    <2> HIDE DEF R, d, m, n
    <2>1. CASE d.start < x.day
      BY <1>4, <1>5, <1>6, <1>7, <1>8, <1>9, <1>11, <2>1
    <2>2. CASE ~(d.start < x.day)
      BY <1>4, <1>5, <1>6, <1>7, <1>8, <1>10, <1>11, <2>2
    <2> QED
      BY <2>1, <2>2
  <1>13. /\ a["daily"].start = R("daily").start /\ a["daily"].used = R("daily").used + Usage(x)
         /\ a["monthly"].start = R("monthly").start
         /\ a["monthly"].used = R("monthly").used + Usage(x)
         /\ a["total"].used = R("total").used + Usage(x)
    BY <1>3 DEF Kinds
  <1> HIDE DEF a, R, d, m
  <1> QED
    BY <1>1, <1>8, <1>12, <1>13 DEF Nested, a

LEMMA BeginKeepsSpends ==
    ASSUME TypeOK, SpendsGoDown, NEW c \in Clients,
           NEW op, NEW at, NEW t, NEW delta, NEW spend, NEW id, NEW day,
           Begin(c, op, at, t, delta, spend, id, day),
           spend = TRUE => op # "read" /\ delta <= 0
    PROVE  SpendsGoDown'
  <1> DEFINE v == [op |-> op, at |-> at, tenant |-> t, delta |-> delta,
                   spend |-> spend, id |-> id, day |-> day, attempt |-> 1,
                   prev |-> 0, version |-> 0, locked |-> 0]
  <1>1. tx' = [tx EXCEPT ![c] = v]
    BY DEF Begin
  <1>2. v.op = op /\ v.delta = delta /\ v.spend = spend
    OBVIOUS
  <1> HIDE DEF v
  <1>3. tx'[c] = v /\ \A g \in Clients : g # c => tx'[g] = tx[g]
    BY <1>1 DEF TypeOK
  <1> QED
    BY <1>2, <1>3 DEF SpendsGoDown, Active

LEMMA StartKeepsSpends ==
    ASSUME TypeOK, SpendsGoDown, NEW c \in Clients, Start(c)
    PROVE  SpendsGoDown'
  <1>1. ASSUME NEW t \in Tenants, NEW d \in Holds,
               Begin(c, "move", "row", t, -d, TRUE, NoRecharge, today)
        PROVE  SpendsGoDown'
    <2>1. -d <= 0
      BY BillingStoreAssumption DEF BillingStoreAssumption
    <2> DEFINE delta == -d
    <2>2. delta <= 0 /\ Begin(c, "move", "row", t, delta, TRUE, NoRecharge, today)
      BY <1>1, <2>1
    <2> HIDE DEF delta
    <2> QED
      BY <2>2, BeginKeepsSpends
  <1>2. ASSUME NEW t \in Tenants, NEW d \in Refunds,
               Begin(c, "move", "row", t, d, FALSE, NoRecharge, today)
        PROVE  SpendsGoDown'
    BY <1>2, BeginKeepsSpends
  <1>3. ASSUME NEW t \in Tenants, BeginRecharge(c, t)
        PROVE  SpendsGoDown'
    BY <1>3, BeginKeepsSpends DEF BeginRecharge
  <1>4. ASSUME NEW t \in Tenants, BeginRead(c, t)
        PROVE  SpendsGoDown'
    BY <1>4, BeginKeepsSpends DEF BeginRead
  <1> QED
    BY <1>1, <1>2, <1>3, <1>4 DEF Start, BeginMove

\* The steps that end a transaction or leave its terms alone.
LEMMA TermsKeptKeepsSpends ==
    ASSUME SpendsGoDown, NEW c \in Clients, \A g \in Clients : g # c => tx'[g] = tx[g],
           \/ tx'[c] = Idle
           \/ /\ Active(c) /\ tx'[c].op = tx[c].op
              /\ tx'[c].delta = tx[c].delta /\ tx'[c].spend = tx[c].spend
    PROVE  SpendsGoDown'
  BY DEF SpendsGoDown, Active

LEMMA SpendsGoDownStep == Inv /\ SpendsGoDown /\ [Next]_vars => SpendsGoDown'
  <1> SUFFICES ASSUME Inv, SpendsGoDown, [Next]_vars PROVE SpendsGoDown'
    OBVIOUS
  <1> TypeOK
    BY DEF Inv
  <1>1. CASE \E c \in Clients : Start(c)
    BY <1>1, StartKeepsSpends
  <1>2. CASE \E c \in Clients : LockWindow(c)
    BY <1>2, LockWindowEffect, TermsKeptKeepsSpends
  <1>3. CASE \E c \in Clients : Commit(c) \/ Fail(c)
    BY <1>3, EndEffect, TermsKeptKeepsSpends DEF Commit, Fail
  <1>4. CASE \E c \in Clients : LookUp(c) \/ LockRow(c) \/ UpdateRow(c) \/ ReadBalance(c)
                                   \/ InsertRecharge(c)
    BY <1>4, StatementKeepsWindows, TermsKeptKeepsSpends
  <1>5. CASE UNCHANGED tx
    BY <1>5 DEF SpendsGoDown, Active
  <1> QED
    BY <1>1, <1>2, <1>3, <1>4, <1>5 DEF Next, Step, CreateTenant, Midnight, vars

LEMMA CommitKeepsUsage ==
    ASSUME Inv, UsageInv, NEW c \in Clients, Commit(c), NEW t \in Tenants
    PROVE  /\ ~Exists(t)' => ledger'[t] = <<>>
           /\ Nested(window'[t])
           /\ window'[t]["total"].used = Spent[ledger'[t]]
  <1> DEFINE x == tx[c]
  <1>1. Active(c) /\ x \in Transaction /\ x.tenant \in Tenants /\ Exists(x.tenant)
    <2>1. Active(c) /\ x \in Transaction /\ x.at = "commit"
      BY ActiveType DEF Commit, Inv, Steps
    <2> QED
      BY <2>1 DEF Inv, Locking, Shape, Fresh, Transaction
  <1>2. /\ window \in [Tenants -> [Kinds -> Window]] /\ ledger \in [Tenants -> Seq(LedgerRow)]
        /\ window' = [window EXCEPT ![x.tenant] = Accumulated(x)]
    BY DEF Commit, Inv, TypeOK
  <1>3. CASE t # x.tenant
    <2>1. window'[t] = window[t] /\ ledger'[t] = ledger[t] /\ (Exists(t)' <=> Exists(t))
      BY <1>1, <1>2, <1>3 DEF Commit, Post, Exists, Inv, TypeOK
    <2> QED
      BY <2>1 DEF UsageInv
  <1>4. CASE t = x.tenant
    <2>1. /\ Nested(window[t]) /\ window[t]["total"].used = Spent[ledger[t]]
          /\ Spent[ledger[t]] \in Int /\ ledger[t] \in Seq(LedgerRow)
      BY <1>2, SpentType DEF UsageInv
    <2>2. window'[t] = Accumulated(x)
      BY <1>2, <1>4
    <2>3. /\ Nested(window'[t])
          /\ window'[t]["total"].used = Spent[ledger[t]] + Usage(x)
      BY <1>1, <1>2, <1>4, <2>1, <2>2, AccumulatedNested
    <2>4. CASE x.op = "read"
      <3>1. x.spend # TRUE /\ UNCHANGED <<account, ledger>>
        BY <1>1, <2>4 DEF UsageInv, SpendsGoDown, Commit
      <3>2. Usage(x) = 0
        BY <1>1, <3>1 DEF Usage, Transaction
      <3> QED
        BY <1>1, <1>4, <2>1, <2>3, <3>1, <3>2 DEF Exists
    <2>5. CASE x.op # "read"
      <3> DEFINE row == [amount |-> x.delta, prev |-> x.prev, new |-> x.prev + x.delta,
                         spend |-> x.spend]
      <3>1. HoldsRow(c, x.tenant) /\ x.prev + x.delta \in Nat /\ x.prev \in Nat /\ x.delta \in Int
        <4>1. HoldsRow(c, x.tenant)
          BY <1>1, <2>5 DEF HoldsRow, Commit
        <4> QED
          BY <1>1, <4>1 DEF Inv, Locking, Fresh, Transaction
      <3>2. row \in LedgerRow /\ row.amount = x.delta /\ row.spend = x.spend
        BY <1>1, <3>1 DEF LedgerRow, Transaction
      <3>3. ledger'[t] = Append(ledger[t], row)
        BY <1>1, <1>2, <1>4, <2>5 DEF Commit, Post
      <3>4. account'[t] # NoTenant
        <4>1. account'[t] = [balance |-> x.prev + x.delta, version |-> account[t].version + 1]
          BY <1>1, <1>4, <2>5 DEF Commit, Post, Inv, TypeOK
        <4>2. account[t].version \in Nat
          BY <1>1, <1>4 DEF Exists, Inv, TypeOK
        <4> QED
          BY <3>1, <4>1, <4>2, BillingStoreAssumption DEF BillingStoreAssumption
      <3> HIDE DEF row
      <3>5. Spent[ledger'[t]] = Spent[ledger[t]] + SpentIn(row)
        BY <2>1, <3>2, <3>3, SpentAppend
      <3>6. SpentIn(row) = Usage(x)
        <4>1. CASE x.spend = TRUE
          <5>1. x.delta <= 0
            BY <1>1, <4>1 DEF UsageInv, SpendsGoDown
          <5>2. SpentIn(row) = -x.delta
            BY <3>2, <4>1 DEF SpentIn
          <5>3. Usage(x) = IF x.delta < 0 THEN -x.delta ELSE x.delta
            BY <4>1 DEF Usage
          <5> QED
            BY <3>1, <5>1, <5>2, <5>3
        <4>2. CASE x.spend # TRUE
          <5>1. x.spend = FALSE
            BY <1>1, <4>2 DEF Transaction
          <5> QED
            BY <3>2, <5>1 DEF SpentIn, Usage
        <4> QED
          BY <4>1, <4>2
      <3> QED
        BY <2>3, <3>4, <3>5, <3>6 DEF Exists
    <2> QED
      BY <2>4, <2>5
  <1> QED
    BY <1>3, <1>4

LEMMA CreateTenantKeepsUsage ==
    ASSUME Inv, UsageInv, NEW u \in Tenants, CreateTenant(u), NEW t \in Tenants
    PROVE  /\ ~Exists(t)' => ledger'[t] = <<>>
           /\ Nested(window'[t])
           /\ window'[t]["total"].used = Spent[ledger'[t]]
  <1>1. CASE t # u
    <2>1. window'[t] = window[t] /\ ledger'[t] = ledger[t] /\ (Exists(t)' <=> Exists(t))
      BY <1>1 DEF CreateTenant, Exists, Inv, TypeOK
    <2> QED
      BY <2>1 DEF UsageInv
  <1>2. CASE t = u
    <2>1. PICK day \in ClientDays \cup {today} :
             window' = [window EXCEPT ![u] =
                          [kind \in Kinds |-> [start |-> Boundary(kind, day), used |-> 0]]]
      BY DEF CreateTenant
    <2>2. /\ window'[t]["daily"] = [start |-> Boundary("daily", day), used |-> 0]
          /\ window'[t]["monthly"] = [start |-> Boundary("monthly", day), used |-> 0]
          /\ window'[t]["total"] = [start |-> Boundary("total", day), used |-> 0]
      BY <1>2, <2>1 DEF Inv, TypeOK, Kinds
    <2>3. Boundary("daily", day) = day
      BY DEF Boundary
    <2>4. Nested(window'[t]) /\ window'[t]["total"].used = 0
      BY <2>2, <2>3 DEF Nested
    <2>5. ledger'[t] = <<>>
      BY <1>2 DEF CreateTenant, UsageInv
    <2>6. Spent[<<>>] = 0
      BY SpentSums, EmptySeq DEF Sums
    <2> QED
      BY <2>4, <2>5, <2>6
  <1> QED
    BY <1>1, <1>2

LEMMA UsageInvStep == Inv /\ UsageInv /\ [Next]_vars => UsageInv'
  <1> SUFFICES ASSUME Inv, UsageInv, [Next]_vars PROVE UsageInv'
    OBVIOUS
  <1>1. SpendsGoDown'
    BY SpendsGoDownStep DEF UsageInv
  <1>2. CASE \E c \in Clients : Commit(c)
    BY <1>1, <1>2, CommitKeepsUsage DEF UsageInv, Nested
  <1>3. CASE \E u \in Tenants : CreateTenant(u)
    BY <1>1, <1>3, CreateTenantKeepsUsage DEF UsageInv, Nested
  <1>4. CASE UNCHANGED stored
    BY <1>1, <1>4 DEF stored, UsageInv, Exists, Nested
  <1>5. \/ \E c \in Clients : Commit(c)
        \/ \E u \in Tenants : CreateTenant(u)
        \/ UNCHANGED stored
    <2>1. CASE \E c \in Clients : Start(c)
      BY <2>1, StartEffect DEF Inv
    <2>2. CASE \E c \in Clients : Step(c)
      BY <2>2 DEF Step, LookUp, LockRow, UpdateRow, LockWindow, ReadBalance, InsertRecharge
    <2>3. CASE (\E c \in Clients : Fail(c)) \/ Midnight \/ UNCHANGED vars
      BY <2>3 DEF Fail, Midnight, vars, stored
    <2> QED
      BY <2>1, <2>2, <2>3 DEF Next
  <1> QED
    BY <1>2, <1>3, <1>4, <1>5

\* The total window of a tenant counts what its ledger says was spent, and no
\* window counts more than a longer one, whatever clocks the clients bring.
THEOREM UsageCountsSpending == Spec => []UsageIsSpending
  <1>1. Init => UsageInv
    <2> SUFFICES ASSUME Init PROVE UsageInv
      OBVIOUS
    <2>1. SpendsGoDown
      BY DEF Init, SpendsGoDown, Active
    <2>2. \A t \in Tenants, kind \in Kinds : window[t][kind] = [start |-> 0, used |-> 0]
      BY DEF Init
    <2>3. Boundary("monthly", 0) = 0
      <3>1. 0 \in Days
        BY BillingStoreAssumption DEF BillingStoreAssumption, Days
      <3> QED
        BY <3>1, BoundaryIsADay DEF Days
    <2>4. Spent[<<>>] = 0
      BY SpentSums, EmptySeq DEF Sums
    <2> QED
      BY <2>1, <2>2, <2>3, <2>4 DEF Init, UsageInv, Nested, Kinds
  <1>2. UsageInv => UsageIsSpending
    BY DEF UsageInv, UsageIsSpending, Nested
  <1> QED
    BY <1>1, <1>2, UsageInvStep, Invariance, PTL DEF Spec

----------------------------------------------------------------------------
(* What the store inherits from the account it implements *)

\* The rows of a ledger follow one another without a gap, from an empty
\* account to balance b.
History(rows, b) ==
    /\ b = IF rows = <<>> THEN 0 ELSE rows[Len(rows)].new
    /\ \A i \in 1 .. Len(rows) :
          /\ rows[i].prev = IF i = 1 THEN 0 ELSE rows[i - 1].new
          /\ rows[i].new = rows[i].prev + rows[i].amount

LEMMA HistoryGrows ==
    ASSUME NEW rows \in Seq(LedgerRow), NEW b, History(rows, b),
           NEW row \in LedgerRow, row.prev = b, row.new = b + row.amount
    PROVE  History(Append(rows, row), row.new)
  <1> DEFINE all == Append(rows, row)
             n == Len(rows)
  <1>1. /\ n \in Nat /\ Len(all) = n + 1 /\ all # <<>> /\ all[n + 1] = row
        /\ \A i \in 1 .. n : all[i] = rows[i]
        /\ rows = <<>> <=> n = 0
    OBVIOUS
  <1> HIDE DEF all, n
  <1>2. row.prev = IF n = 0 THEN 0 ELSE rows[n].new
    BY <1>1 DEF History, n
  <1>3. ASSUME NEW i \in 1 .. n
        PROVE  /\ all[i].prev = IF i = 1 THEN 0 ELSE all[i - 1].new
               /\ all[i].new = all[i].prev + all[i].amount
    <2>1. i # 1 => i - 1 \in 1 .. n
      BY <1>1
    <2> QED
      BY <1>1, <2>1 DEF History, n
  <1>4. /\ all[n + 1].prev = IF n + 1 = 1 THEN 0 ELSE all[(n + 1) - 1].new
        /\ all[n + 1].new = all[n + 1].prev + all[n + 1].amount
    <2>1. n # 0 => all[n] = rows[n] /\ (n + 1) - 1 = n /\ n + 1 # 1
      BY <1>1
    <2> QED
      BY <1>1, <1>2, <2>1
  <1>5. \A i \in 1 .. n + 1 : i \in 1 .. n \/ i = n + 1
    BY <1>1
  <1>6. row.new = IF all = <<>> THEN 0 ELSE all[Len(all)].new
    BY <1>1
  <1> QED
    BY <1>1, <1>3, <1>4, <1>5, <1>6 DEF History, all

\* Every tenant's ledger is the history of its balance.
LedgerIsHistory == \A t \in Tenants : History(ledger[t], Balance(t))

LEMMA HistoryStep == Inv /\ LedgerIsHistory /\ [Next]_vars => LedgerIsHistory'
  <1> SUFFICES ASSUME Inv, LedgerIsHistory, [Next]_vars, NEW t \in Tenants
               PROVE  History(ledger'[t], Balance(t)')
    BY DEF LedgerIsHistory
  <1>1. History(ledger[t], Balance(t))
    BY DEF LedgerIsHistory
  <1>2. CASE UNCHANGED Account!vars
    <2>1. ledger' = ledger
          /\ [u \in Tenants |-> Balance(u)]' = [u \in Tenants |-> Balance(u)]
      BY <1>2 DEF Account!vars
    <2>2. [u \in Tenants |-> Balance(u)']  = [u \in Tenants |-> Balance(u)]
      BY <2>1
    <2>3. Balance(t)' = Balance(t)
      BY <2>2
    <2> QED
      BY <1>1, <2>1, <2>3
  <1>3. CASE Account!Next
    <2>1. PICK u \in Tenants, d \in Int, spend \in BOOLEAN : Account!Post(u, d, spend)
      <3>1. /\ \A h \in Holds : -h \in Int
            /\ Refunds \subseteq Int /\ Credits \subseteq Int
        BY BillingStoreAssumption DEF BillingStoreAssumption
      <3>2. {-h : h \in Holds} \cup Refunds \subseteq Int
        BY <3>1
      <3> QED
        BY <1>3, <3>1, <3>2 DEF Account!Next, Account!Move, Account!Recharge
    <2> DEFINE row == [amount |-> d, prev |-> Balance(u), new |-> Balance(u) + d,
                       spend |-> spend]
    <2>2. Balance(u) \in Nat /\ Balance(u) + d \in Nat
      <3>1. Balance(u) \in Nat
        BY BillingStoreAssumption DEF BillingStoreAssumption, Inv, TypeOK, Balance, Exists
      <3> QED
        BY <2>1, <3>1 DEF Account!Post
    <2>3. /\ row \in LedgerRow /\ row.prev = Balance(u) /\ row.amount = d
          /\ row.new = Balance(u) + row.amount
      BY <2>2 DEF LedgerRow
    <2>4. /\ ledger' = [ledger EXCEPT ![u] = Append(@, row)]
          /\ [v \in Tenants |-> Balance(v)'] =
                 [v \in Tenants |-> IF v = u THEN row.new ELSE Balance(v)]
      BY <2>1 DEF Account!Post
    <2> HIDE DEF row
    <2>5. Balance(t)' = IF t = u THEN row.new ELSE Balance(t)
      BY <2>4
    <2>6. ledger \in [Tenants -> Seq(LedgerRow)]
      BY DEF Inv, TypeOK
    <2>7. CASE t = u
      <3>1. History(Append(ledger[t], row), row.new)
        BY <1>1, <2>3, <2>6, <2>7, HistoryGrows
      <3> QED
        BY <2>4, <2>5, <2>6, <2>7, <3>1
    <2>8. CASE t # u
      BY <1>1, <2>4, <2>5, <2>6, <2>8
    <2> QED
      BY <2>7, <2>8
  <1> QED
    BY <1>2, <1>3, AccountStep

\* Whatever statements interleave and roll back, the ledger rows of a tenant
\* follow one another without a gap, from an empty account to the balance the
\* store holds: inherited from the account by the refinement
\* (applyBalanceDelta: prev_balance_cents, new_balance_cents).
THEOREM LedgerHasNoGap == Spec => []LedgerIsHistory
  <1>1. Init => LedgerIsHistory
    <2> SUFFICES ASSUME Init, NEW t \in Tenants PROVE History(ledger[t], Balance(t))
      BY DEF LedgerIsHistory
    <2>1. ledger[t] = <<>> /\ Balance(t) = 0
      BY DEF Init, Balance, Exists
    <2>2. 1 .. Len(ledger[t]) = {}
      BY <2>1
    <2> QED
      BY <2>1, <2>2 DEF History
  <1> QED
    BY <1>1, HistoryStep, Invariance, PTL DEF Spec

\* No two captured recharges have one id.
OneCreditPerId == \A p, q \in recharges : p.id = q.id => p = q

\* A recharge id is credited at most once, for one tenant and one amount,
\* although two captures of it may both have passed the look-up (createRecharge).
THEOREM RechargedOnce == Spec => []OneCreditPerId
  <1>1. Init => OneCreditPerId
    BY DEF Init, OneCreditPerId
  <1>2. Inv /\ OneCreditPerId /\ [Next]_vars => OneCreditPerId'
    <2> SUFFICES ASSUME Inv, OneCreditPerId, [Next]_vars PROVE OneCreditPerId'
      OBVIOUS
    <2>1. ASSUME recharges' = recharges PROVE OneCreditPerId'
      BY <2>1 DEF OneCreditPerId
    <2>2. ASSUME NEW c \in Clients, Commit(c), tx[c].op = "recharge"
          PROVE  OneCreditPerId'
      <3>1. Active(c) /\ tx[c].at = "commit"
        BY <2>2, ActiveType DEF Commit, Inv, Steps
      <3>2. HoldsKey(c, tx[c].id)
        BY <3>1 DEF HoldsKey
      <3>3. \A q \in recharges : q.id # tx[c].id
        BY <3>2 DEF Inv, Locking
      <3> DEFINE row == [id |-> tx[c].id, tenant |-> tx[c].tenant, amount |-> tx[c].delta]
      <3>4. recharges' = recharges \cup {row} /\ row.id = tx[c].id
        BY <2>2 DEF Commit
      <3> HIDE DEF row
      <3> QED
        BY <3>3, <3>4 DEF OneCreditPerId
    <2>3. ASSUME NEW c \in Clients, Commit(c), tx[c].op # "recharge"
          PROVE  recharges' = recharges
      BY <2>3 DEF Commit
    <2>4. ASSUME NEW c \in Clients, Start(c) \/ Fail(c) PROVE recharges' = recharges
      BY <2>4 DEF Start, BeginMove, BeginRecharge, BeginRead, Begin, Fail, stored
    <2>5. ASSUME NEW c \in Clients, Step(c), ~Commit(c) PROVE recharges' = recharges
      BY <2>5 DEF Step, LookUp, LockRow, UpdateRow, LockWindow, ReadBalance,
                  InsertRecharge, stored
    <2>6. ASSUME \/ Midnight \/ UNCHANGED vars \/ \E t \in Tenants : CreateTenant(t)
          PROVE  recharges' = recharges
      BY <2>6 DEF Midnight, CreateTenant, stored, vars
    <2> QED
      BY <2>1, <2>2, <2>3, <2>4, <2>5, <2>6 DEF Next
  <1> QED
    BY <1>1, <1>2, Invariance, PTL DEF Spec
=============================================================================
