------------------------- MODULE CallBillingProofs -------------------------
(***************************************************************************)
(* Theorems about CallBilling, for every value of its constants.           *)
(***************************************************************************)
EXTENDS CallBilling, TLAPS

LEMMA StartCases ==
    ASSUME NEW h \in Handlers, Start(h)
    PROVE  \E r \in Calls :
              \/ \E c \in Callers, p \in Prices : IssueWithoutHold(h, r, c, p)
              \/ \E c \in Callers, p \in Prices : IssueStart(h, r, c, p)
              \/ \E u \in Prices : Report(h, r, "complete", "COMPLETED", u)
              \/ Report(h, r, "fail", "FAILED", 0)
              \/ \E a \in Attempts : Reconcile(h, r, a)
              \/ Expire(h, r)
              \/ Close(h, r)
              \/ Ack(h, r)
              \/ \E c \in Callers : DeliveryMeta(h, r, c)
  BY DEF Start, Complete, Fail

\* Entering an await with well-typed values keeps the activations well typed.
LEMMA EnterType ==
    ASSUME act \in [Handlers -> Activation \cup {Idle}],
           NEW h \in Handlers, NEW at \in Awaits, NEW op \in Ops, NEW r \in Calls,
           NEW tenant \in Callers \cup {NoCaller}, NEW amount \in Nat, NEW usage \in Nat,
           NEW tag \in Tags, NEW ver \in 0..MaxVersion,
           Enter(h, at, op, r, tenant, amount, usage, tag, ver)
    PROVE  act' \in [Handlers -> Activation \cup {Idle}]
  BY DEF Enter, Activation

LEMMA ProceedType ==
    ASSUME act \in [Handlers -> Activation \cup {Idle}],
           NEW h \in Handlers, act[h] # Idle, NEW at \in Awaits, Proceed(h, at)
    PROVE  act' \in [Handlers -> Activation \cup {Idle}]
  <1>1. act[h] \in Activation
    OBVIOUS
  <1>2. [act[h] EXCEPT !.at = at] \in Activation
    BY <1>1 DEF Activation
  <1> QED
    BY <1>2 DEF Proceed

LEMMA LeaveType ==
    ASSUME act \in [Handlers -> Activation \cup {Idle}], NEW h \in Handlers, Leave(h)
    PROVE  act' \in [Handlers -> Activation \cup {Idle}]
  BY DEF Leave

\* Replacing one call's request object by a well-typed one.
LEMMA AmendType ==
    ASSUME req \in [Calls -> Request], NEW r \in Calls, NEW request \in Request,
           Amend(r, request)
    PROVE  req' \in [Calls -> Request]
  BY DEF Amend

\* A refund captured from the billing record is well typed.
LEMMA AwaitType ==
    ASSUME act \in [Handlers -> Activation \cup {Idle}], req \in [Calls -> Request],
           NEW h \in Handlers, NEW op \in Ops, NEW r \in Calls,
           NEW usage \in Nat, NEW tag \in Tags, MaxVersion \in Nat,
           usage <= req[r].billing.amount,
           AwaitRefund(h, op, r, usage, tag)
    PROVE  act' \in [Handlers -> Activation \cup {Idle}]
  <1>1. /\ req[r].billing.amount - usage \in Nat
        /\ req[r].billing.tenant \in Callers \cup {NoCaller}
    BY DEF Request, Billing
  <1> QED
    BY <1>1, EnterType DEF AwaitRefund, Awaits

----------------------------------------------------------------------------
(* Type correctness *)

LEMMA InitTypeOK == Init => TypeOK
  BY CallBillingAssumption DEF CallBillingAssumption,
     Init, TypeOK, NewRequest, NoBilling, Request, Billing, Executions, Live, Snapshot

LEMMA StartTypeOK ==
    ASSUME TypeOK, NEW h \in Handlers, Start(h)
    PROVE  TypeOK'
  <1> PICK r \in Calls :
              \/ \E c \in Callers, p \in Prices : IssueWithoutHold(h, r, c, p)
              \/ \E c \in Callers, p \in Prices : IssueStart(h, r, c, p)
              \/ \E u \in Prices : Report(h, r, "complete", "COMPLETED", u)
              \/ Report(h, r, "fail", "FAILED", 0)
              \/ \E a \in Attempts : Reconcile(h, r, a)
              \/ Expire(h, r)
              \/ Close(h, r)
              \/ Ack(h, r)
              \/ \E c \in Callers : DeliveryMeta(h, r, c)
    BY StartCases
  <1>a. /\ req \in [Calls -> Request] /\ req[r] \in Request
        /\ act \in [Handlers -> Activation \cup {Idle}]
    BY DEF TypeOK
  <1>b. /\ MaxVersion \in Nat /\ 0 \in 0..MaxVersion /\ Prices \subseteq Nat
        /\ BoundVersion(r) \in 0..MaxVersion
    BY CallBillingAssumption
       DEF CallBillingAssumption, TypeOK, BoundVersion, Request
  <1>c. /\ req[r].billing.amount \in Nat
        /\ req[r].billing.tenant \in Callers \cup {NoCaller}
        /\ req[r].seen \subseteq Tags
        /\ req[r].exec \in Executions
    BY <1>a DEF Request, Billing
  \* It is enough that the two variables a start changes stay well typed.
  <1>d. ASSUME req' \in [Calls -> Request], act' \in [Handlers -> Activation \cup {Idle}],
               UNCHANGED <<version, saved, balance, paid, tokens>>
        PROVE  TypeOK'
    BY <1>d DEF TypeOK
  <1>e. ASSUME NEW op \in Ops, NEW tag \in Tags, AppendOnly(h, op, r, tag)
        PROVE  req' \in [Calls -> Request] /\ act' \in [Handlers -> Activation \cup {Idle}]
    <2>1. ExecAfter(op, req[r].exec) \in Executions /\ req[r].seen \cup {tag} \in SUBSET Tags
      BY <1>c DEF ExecAfter, Executions
    <2>2. [req[r] EXCEPT !.seen = @ \cup {tag}, !.exec = ExecAfter(op, @)] \in Request
      BY <1>a, <2>1 DEF Request
    <2>3. req' \in [Calls -> Request]
      BY <1>a, <1>e, <2>2, AmendType DEF AppendOnly
    <2> QED
      BY <1>a, <1>b, <1>e, <2>3 DEF AppendOnly, Enter, Activation, Awaits
  <1>f. ASSUME NEW op \in Ops, NEW tag \in Tags, NEW u \in Nat, u <= req[r].billing.amount,
               AwaitRefund(h, op, r, u, tag)
        PROVE  act' \in [Handlers -> Activation \cup {Idle}]
    BY <1>a, <1>b, <1>f, AwaitType
  <1>1. CASE \E c \in Callers, p \in Prices : IssueWithoutHold(h, r, c, p)
    <2> PICK c \in Callers, p \in Prices : IssueWithoutHold(h, r, c, p)
      BY <1>1
    <2>1. [req[r] EXCEPT !.bound = BoundVersion(r), !.caller = c, !.exec = "submitted"] \in Request
      BY <1>a, <1>b DEF Request, Executions
    <2>2. req' \in [Calls -> Request]
      BY <1>a, <2>1, AmendType DEF IssueWithoutHold
    <2>3. act' \in [Handlers -> Activation \cup {Idle}]
      BY <1>a, <1>b DEF IssueWithoutHold, Enter, Activation, Awaits, Ops, Tags
    <2> QED
      BY <1>d, <2>2, <2>3 DEF IssueWithoutHold
  <1>2. CASE \E c \in Callers, p \in Prices : IssueStart(h, r, c, p)
    <2> PICK c \in Callers, p \in Prices : IssueStart(h, r, c, p)
      BY <1>2
    <2>1. [req[r] EXCEPT !.bound = BoundVersion(r)] \in Request
      BY <1>a, <1>b DEF Request
    <2>2. req' \in [Calls -> Request]
      BY <1>a, <2>1, AmendType DEF IssueStart
    <2>3. act' \in [Handlers -> Activation \cup {Idle}]
      BY <1>a, <1>b DEF IssueStart, Enter, Activation, Awaits, Ops, Tags
    <2> QED
      BY <1>d, <2>2, <2>3 DEF IssueStart
  <1>3. CASE \/ \E u \in Prices : Report(h, r, "complete", "COMPLETED", u)
             \/ Report(h, r, "fail", "FAILED", 0)
    <2> PICK op \in {"complete", "fail"}, tag \in {"COMPLETED", "FAILED"}, u \in Nat :
               Report(h, r, op, tag, u)
      BY <1>3, <1>b
    <2>1. op \in Ops /\ tag \in Tags
      BY DEF Ops, Tags
    <2> QED
      BY <1>a, <1>d, <1>e, <1>f, <2>1 DEF Report
  <1>4. CASE \E a \in Attempts : Reconcile(h, r, a)
    <2> PICK a \in Attempts : Reconcile(h, r, a)
      BY <1>4
    <2>1. "reconcile" \in Ops /\ a \in Tags /\ 0 <= req[r].billing.amount
      BY <1>c DEF Ops, Tags
    <2> QED
      BY <1>a, <1>d, <1>e, <1>f, <2>1 DEF Reconcile
  <1>5. CASE Expire(h, r)
    <2>1. "expire" \in Ops /\ "EXPIRED" \in Tags /\ 0 <= req[r].billing.amount
      BY <1>c DEF Ops, Tags
    <2> QED
      BY <1>5, <1>a, <1>d, <1>f, <2>1 DEF Expire
  <1>6. CASE Close(h, r)
    <2>1. "close" \in Ops /\ "CANCELED" \in Tags /\ 0 <= req[r].billing.amount
      BY <1>c DEF Ops, Tags
    <2>2. [req[r] EXCEPT !.exec = "canceled", !.seen = @ \cup {"CANCELED"}] \in Request
      BY <1>a, <1>c, <2>1 DEF Request, Executions
    <2>3. req' \in [Calls -> Request]
      BY <1>6, <1>a, <2>2, AmendType DEF Close
    <2>4. act' \in [Handlers -> Activation \cup {Idle}]
      <3>1. CASE AwaitRefund(h, "close", r, 0, "CANCELED")
        BY <3>1, <1>f, <2>1
      <3>2. CASE Enter(h, "save", "close", r, NoCaller, 0, 0, "CANCELED", 0)
        BY <3>2, <1>a, <1>b, <2>1 DEF Enter, Activation, Awaits
      <3> QED
        BY <1>6, <3>1, <3>2 DEF Close
    <2> QED
      BY <1>6, <1>d, <2>3, <2>4 DEF Close
  <1>7. CASE Ack(h, r)
    <2>1. [req[r] EXCEPT !.seen = @ \cup {"ACKED"}, !.exec = "executing"] \in Request
      BY <1>a, <1>c DEF Request, Executions, Tags
    <2>2. req' \in [Calls -> Request]
      BY <1>7, <1>a, <2>1, AmendType DEF Ack
    <2>3. act' \in [Handlers -> Activation \cup {Idle}]
      BY <1>7, <1>a, <1>b DEF Ack, Enter, Activation, Awaits, Ops, Tags
    <2> QED
      BY <1>7, <1>d, <2>2, <2>3 DEF Ack
  <1>8. CASE \E c \in Callers : DeliveryMeta(h, r, c)
    <2> PICK c \in Callers : DeliveryMeta(h, r, c)
      BY <1>8
    <2>1. [req[r] EXCEPT !.caller = c, !.exec = "submitted"] \in Request
      BY <1>a DEF Request, Executions
    <2>2. req' \in [Calls -> Request]
      BY <1>a, <2>1, AmendType DEF DeliveryMeta
    <2>3. act' \in [Handlers -> Activation \cup {Idle}]
      BY <1>a, <1>b DEF DeliveryMeta, Enter, Activation, Awaits, Ops, Tags
    <2> QED
      BY <1>d, <2>2, <2>3 DEF DeliveryMeta
  <1> QED
    BY <1>1, <1>2, <1>3, <1>4, <1>5, <1>6, <1>7, <1>8

\* The activation of a handler that has entered an operation.
LEMMA Entered ==
    ASSUME TypeOK, NEW h \in Handlers, act[h] # Idle
    PROVE  /\ act[h] \in Activation
           /\ act[h].op \in Ops /\ act[h].call \in Calls
           /\ act[h].tenant \in Callers \cup {NoCaller}
           /\ act[h].amount \in Nat /\ act[h].usage \in Nat
           /\ act[h].tag \in Tags /\ act[h].version \in 0..MaxVersion
  <1>1. act[h] \in Activation
    BY DEF TypeOK
  <1> QED
    BY <1>1 DEF Activation

\* Moving money keeps the ledger typed as long as no balance goes negative.
LEMMA MoveType ==
    ASSUME TypeOK, NEW tenant \in Callers \cup {NoCaller}, NEW r \in Calls,
           NEW cents \in Int, tenant \in Callers => balance[tenant] + cents >= 0,
           Move(tenant, r, cents)
    PROVE  balance' \in [Callers -> Nat] /\ paid' \in [Calls -> [Callers -> Int]]
  <1>a. balance \in [Callers -> Nat] /\ paid \in [Calls -> [Callers -> Int]]
    BY DEF TypeOK
  <1>1. balance' \in [Callers -> Nat]
    <2>1. ASSUME NEW c \in Callers
          PROVE  (IF c = tenant THEN balance[tenant] + cents ELSE balance[c]) \in Nat
      BY <1>a
    <2>2. balance' = [c \in Callers |-> IF c = tenant THEN balance[tenant] + cents ELSE balance[c]]
      BY <1>a DEF Move
    <2> QED
      BY <2>1, <2>2
  <1>2. [paid[r] EXCEPT ![tenant] = @ - cents] \in [Callers -> Int]
    <2>1. paid[r] \in [Callers -> Int]
      BY <1>a
    <2>2. ASSUME NEW c \in Callers
          PROVE  [paid[r] EXCEPT ![tenant] = @ - cents][c] \in Int
      BY <2>1
    <2> QED
      BY <2>1, <2>2
  <1>3. paid' = [paid EXCEPT ![r] = [paid[r] EXCEPT ![tenant] = @ - cents]]
    BY <1>a DEF Move
  <1> QED
    BY <1>a, <1>1, <1>2, <1>3

LEMMA ContinueTypeOK ==
    ASSUME TypeOK, NEW h \in Handlers, Continue(h)
    PROVE  TypeOK'
  <1>a. act[h] # Idle
    BY DEF Continue, CheckBalance, StoreHold, Mint, StoreRefund, StoreDebit, Resume, Save, Idle
  <1> DEFINE r == act[h].call
  <1>b. /\ r \in Calls /\ act[h].op \in Ops
        /\ act[h].tenant \in Callers \cup {NoCaller}
        /\ act[h].amount \in Nat /\ act[h].usage \in Nat
        /\ act[h].tag \in Tags
        /\ act[h].version \in 0..MaxVersion
    BY <1>a, Entered
  <1>c. /\ req \in [Calls -> Request] /\ req[r] \in Request
        /\ act \in [Handlers -> Activation \cup {Idle}]
        /\ balance \in [Callers -> Nat]
    BY <1>b DEF TypeOK
  <1>d. /\ req[r].billing \in Billing /\ req[r].charged \in [Callers -> Nat]
        /\ req[r].seen \subseteq Tags /\ req[r].exec \in Executions
    BY <1>c DEF Request
  <1>e. ASSUME NEW at \in Awaits, Proceed(h, at) \/ Leave(h)
        PROVE  act' \in [Handlers -> Activation \cup {Idle}]
    BY <1>a, <1>c, <1>e, ProceedType, LeaveType
  <1> HIDE DEF r
  <1>1. CASE CheckBalance(h)
    <2>1. act' \in [Handlers -> Activation \cup {Idle}]
      BY <1>1, <1>e DEF CheckBalance, Awaits
    <2> QED
      BY <1>1, <2>1 DEF CheckBalance, TypeOK
  <1>2. CASE StoreHold(h)
    <2>1. act' \in [Handlers -> Activation \cup {Idle}]
      BY <1>2, <1>e DEF StoreHold, Awaits
    <2>2. CASE UNCHANGED <<balance, paid>>
      BY <1>2, <2>1, <2>2 DEF StoreHold, TypeOK
    <2>3. CASE /\ balance[act[h].tenant] >= act[h].amount
               /\ Move(act[h].tenant, act[h].call, -act[h].amount)
      <3>1. balance' \in [Callers -> Nat] /\ paid' \in [Calls -> [Callers -> Int]]
        BY <2>3, <1>b, <1>c, MoveType DEF r
      <3> QED
        BY <1>2, <2>1, <3>1 DEF StoreHold, TypeOK
    <2> QED
      BY <1>2, <2>2, <2>3 DEF StoreHold
  <1>3. CASE Mint(h)
    <2>1. act' \in [Handlers -> Activation \cup {Idle}]
      BY <1>3, <1>e DEF Mint, Awaits
    <2>2. [state |-> "held", tenant |-> act[h].tenant, amount |-> act[h].amount,
           lapsed |-> FALSE] \in Billing
      BY <1>b DEF Billing
    <2>3. [req[r] EXCEPT !.billing = [state |-> "held", tenant |-> act[h].tenant,
                                      amount |-> act[h].amount, lapsed |-> FALSE],
                         !.caller = act[h].tenant, !.exec = "submitted"] \in Request
      BY <1>b, <1>c, <2>2 DEF Request, Executions
    <2>4. req' \in [Calls -> Request]
      BY <1>3, <1>b, <1>c, <2>3, AmendType DEF Mint, r
    <2> QED
      BY <1>3, <2>1, <2>4 DEF Mint, TypeOK
  <1>4. CASE StoreRefund(h)
    <2>1. act' \in [Handlers -> Activation \cup {Idle}]
      BY <1>4, <1>e DEF StoreRefund, Awaits
    <2>2. balance' \in [Callers -> Nat] /\ paid' \in [Calls -> [Callers -> Int]]
      BY <1>4, <1>b, <1>c, MoveType DEF StoreRefund, r
    <2> QED
      BY <1>4, <2>1, <2>2 DEF StoreRefund, TypeOK
  <1>5. CASE StoreDebit(h)
    <2>1. act' \in [Handlers -> Activation \cup {Idle}]
      BY <1>5, <1>e DEF StoreDebit, Awaits
    <2> QED
      BY <1>5, <2>1 DEF StoreDebit, TypeOK
  <1>6. CASE Resume(h)
    <2>1. act' \in [Handlers -> Activation \cup {Idle}]
      BY <1>6, <1>e DEF Resume, Awaits
    <2>2. [req[r].billing EXCEPT !.state = Outcome(act[h].op)] \in Billing
      BY <1>d DEF Billing, Outcome
    <2>3. [req[r].charged EXCEPT ![act[h].tenant] = @ + act[h].usage] \in [Callers -> Nat]
      <3>1. ASSUME NEW c \in Callers
            PROVE  [req[r].charged EXCEPT ![act[h].tenant] = @ + act[h].usage][c] \in Nat
        BY <1>b, <1>d
      <3> QED
        BY <1>d, <3>1
    <2>4. ExecAfter(act[h].op, req[r].exec) \in Executions
      BY <1>d DEF ExecAfter, Executions
    <2>5. [req[r] EXCEPT
              !.billing = [req[r].billing EXCEPT !.state = Outcome(act[h].op)],
              !.charged = [req[r].charged EXCEPT ![act[h].tenant] = @ + act[h].usage],
              !.seen = @ \cup {act[h].tag},
              !.exec = ExecAfter(act[h].op, @)] \in Request
      <3>1. req[r].seen \cup {act[h].tag} \in SUBSET Tags
        BY <1>b, <1>d
      <3>2. ASSUME NEW q \in Request, NEW b \in Billing, NEW n \in [Callers -> Nat],
                   NEW s \in SUBSET Tags, NEW e \in Executions
            PROVE  [q EXCEPT !.billing = b, !.charged = n, !.seen = s, !.exec = e] \in Request
        BY DEF Request
      <3> QED
        BY <1>c, <2>2, <2>3, <2>4, <3>1, <3>2, Zenon
    <2>6. req' \in [Calls -> Request]
      BY <1>6, <1>b, <1>c, <2>5, AmendType DEF Resume, r
    <2> QED
      BY <1>6, <2>1, <2>6 DEF Resume, TypeOK
  <1>7. CASE Save(h)
    <2>1. act' \in [Handlers -> Activation \cup {Idle}]
      BY <1>7, <1>e DEF Save, Awaits
    <2>2. saved' \in Snapshot
      BY <1>7 DEF Save, TypeOK, Live, Snapshot
    <2>3. tokens' \subseteq Token
      BY <1>7, <1>b DEF Save, TypeOK, Token, r
    <2> QED
      BY <1>7, <2>1, <2>2, <2>3 DEF Save, TypeOK
  <1> QED
    BY <1>1, <1>2, <1>3, <1>4, <1>5, <1>6, <1>7 DEF Continue

LEMMA StepTypeOK == TypeOK /\ [Next]_vars => TypeOK'
  <1> SUFFICES ASSUME TypeOK, [Next]_vars PROVE TypeOK'
    OBVIOUS
  <1>1. CASE \E h \in Handlers : Start(h)
    BY <1>1, StartTypeOK
  <1>2. CASE \E h \in Handlers : Continue(h)
    BY <1>2, ContinueTypeOK
  <1>3. CASE \E h \in Handlers : StoreFails(h)
    <2> PICK h \in Handlers : StoreFails(h)
      BY <1>3
    <2>1. act[h] # Idle
      BY CallBillingAssumption DEF CallBillingAssumption, StoreFails, Idle
    <2>2. act' \in [Handlers -> Activation \cup {Idle}]
      BY <2>1, ProceedType, LeaveType DEF StoreFails, TypeOK, Awaits
    <2> QED
      BY <2>2 DEF StoreFails, TypeOK
  <1>4. CASE \E r \in Calls : Lapse(r)
    <2> PICK r \in Calls : Lapse(r)
      BY <1>4
    <2>1. req[r] \in Request /\ req[r].billing \in Billing
      BY DEF TypeOK, Request
    <2>2. [req[r].billing EXCEPT !.lapsed = TRUE] \in Billing
      BY <2>1 DEF Billing
    <2>3. [req[r] EXCEPT !.billing = [@ EXCEPT !.lapsed = TRUE]] \in Request
      BY <2>1, <2>2 DEF Request
    <2>4. req' \in [Calls -> Request]
      BY <2>3, AmendType DEF Lapse, TypeOK
    <2> QED
      BY <2>4 DEF Lapse, TypeOK
  <1>5. CASE Publish
    BY <1>5, CallBillingAssumption DEF CallBillingAssumption, Publish, TypeOK
  <1>6. CASE OtherSave
    BY <1>6 DEF OtherSave, TypeOK, Live, Snapshot
  <1>7. CASE Crash
    BY <1>7 DEF Crash, TypeOK, Snapshot
  <1>8. CASE UNCHANGED vars
    BY <1>8 DEF vars, TypeOK
  <1> QED
    BY <1>1, <1>2, <1>3, <1>4, <1>5, <1>6, <1>7, <1>8 DEF Next

\* Every reachable state is well typed; in particular no interleaving of
\* handlers, no store fault and no crash ever takes a balance below zero.
THEOREM TypeCorrect == Spec => []TypeOK
  BY InitTypeOK, StepTypeOK, PTL DEF Spec

----------------------------------------------------------------------------
(* Conservation of the callers' money *)

\* A step that leaves what the call says about money, and the ledger, alone.
SameMoney(r) ==
    /\ req'[r].billing.state = req[r].billing.state
    /\ req'[r].billing.tenant = req[r].billing.tenant
    /\ req'[r].billing.amount = req[r].billing.amount
    /\ req'[r].charged = req[r].charged
    /\ paid'[r] = paid[r]

LEMMA SameOwed ==
    ASSUME NEW r \in Calls, SameMoney(r)
    PROVE  /\ IsHeld(r)' = IsHeld(r)
           /\ \A c : Owed(r, c)' = Owed(r, c)
  BY DEF SameMoney, IsHeld, Owed

\* Handler h is no longer awaiting the store, and whatever it changed about
\* money on its call is now accounted for.
LEMMA Quiesce ==
    ASSUME TypeOK, Accounting, NEW h \in Handlers, NEW r \in Calls,
           Busy(h) => act[h].call = r,
           \A g \in Handlers : g # h => act'[g] = act[g],
           ~Busy(h)',
           \A q \in Calls : (Busy(h) /\ q = r) \/ SameMoney(q),
           Busy(h) => /\ \A c \in Callers : paid'[r][c] = Owed(r, c)'
                      /\ IsHeld(r)' => req'[r].billing.tenant \in Callers
    PROVE  Accounting'
  <1>1. ASSUME NEW g \in Handlers, Busy(g)'
        PROVE  g # h /\ act'[g] = act[g] /\ Busy(g)
    BY <1>1 DEF Busy
  <1>2. (\A f, g \in Handlers : Busy(f) /\ Busy(g) /\ act[f].call = act[g].call => f = g)'
    BY <1>1 DEF Accounting
  <1>3. ASSUME NEW g \in Handlers, Busy(g)'
        PROVE  Sound(g)'
    <2>1. g # h /\ act'[g] = act[g] /\ Busy(g) /\ act[g] # Idle
      BY <1>1, <1>3 DEF Busy, Idle
    <2>2. act[g].call \in Calls
      BY <2>1, Entered
    <2>3. SameMoney(act[g].call)
      BY <2>1, <2>2 DEF Accounting
    <2>4. Sound(g)
      BY DEF Accounting
    <2> QED
      BY <2>1, <2>2, <2>3, <2>4, SameOwed DEF Sound, Unrecorded, Busy, SameMoney
  <1>4. \A g \in Handlers : Sound(g)'
    BY <1>3 DEF Sound
  <1>5. ASSUME NEW q \in Calls, IsHeld(q)'
        PROVE  req'[q].billing.tenant \in Callers
    BY <1>5, SameOwed DEF Accounting, SameMoney
  <1>6. ASSUME NEW q \in Calls, ~MoneyInFlight(q)', NEW c \in Callers
        PROVE  paid'[q][c] = Owed(q, c)'
    <2>1. CASE Busy(h) /\ q = r
      BY <2>1
    <2>2. CASE SameMoney(q) /\ ~(Busy(h) /\ q = r)
      <3>1. ~MoneyInFlight(q)
        BY <1>6, <2>2 DEF MoneyInFlight, Busy
      <3> QED
        BY <2>2, <3>1, SameOwed DEF Accounting, Conserved, SameMoney
    <2> QED
      BY <2>1, <2>2
  <1> QED
    BY <1>2, <1>4, <1>5, <1>6 DEF Accounting, Conserved

\* Handler h is awaiting the store on a call no other handler awaits it for.
LEMMA Engage ==
    ASSUME TypeOK, Accounting, NEW h \in Handlers, NEW r \in Calls,
           \A g \in Handlers : g # h => act'[g] = act[g],
           act'[h].call = r, Busy(h) => act[h].call = r,
           \A g \in Handlers : g # h /\ Busy(g) => act[g].call # r,
           \A q \in Calls : q # r => SameMoney(q),
           Busy(h)', Sound(h)',
           IsHeld(r)' => req'[r].billing.tenant \in Callers
    PROVE  Accounting'
  <1>1. ASSUME NEW g \in Handlers, Busy(g)', g # h
        PROVE  act'[g] = act[g] /\ Busy(g) /\ act[g].call # r
    BY <1>1 DEF Busy
  <1>2. (\A f, g \in Handlers : Busy(f) /\ Busy(g) /\ act[f].call = act[g].call => f = g)'
    BY <1>1 DEF Accounting
  <1>3. ASSUME NEW g \in Handlers, Busy(g)', g # h
        PROVE  Sound(g)'
    <2>1. act'[g] = act[g] /\ Busy(g) /\ act[g] # Idle /\ act[g].call # r
      BY <1>1, <1>3 DEF Busy, Idle
    <2>2. act[g].call \in Calls
      BY <2>1, Entered
    <2>3. SameMoney(act[g].call)
      BY <2>1, <2>2
    <2>4. Sound(g)
      BY DEF Accounting
    <2> QED
      BY <2>1, <2>2, <2>3, <2>4, SameOwed DEF Sound, Unrecorded, Busy, SameMoney
  <1>4. \A g \in Handlers : Sound(g)'
    BY <1>3 DEF Sound
  <1>5. ASSUME NEW q \in Calls, IsHeld(q)'
        PROVE  req'[q].billing.tenant \in Callers
    BY <1>5, SameOwed DEF Accounting, SameMoney
  <1>6. ASSUME NEW q \in Calls, ~MoneyInFlight(q)', NEW c \in Callers
        PROVE  paid'[q][c] = Owed(q, c)'
    <2>1. q # r
      BY <1>6 DEF MoneyInFlight
    <2>2. ~MoneyInFlight(q)
      BY <1>6, <2>1 DEF MoneyInFlight, Busy
    <2> QED
      BY <2>1, <2>2, SameOwed DEF Accounting, Conserved, SameMoney
  <1> QED
    BY <1>2, <1>4, <1>5, <1>6 DEF Accounting, Conserved

\* When an operation that moves money may start, no other one is in flight.
LEMMA NoneInFlight ==
    ASSUME TakesTurns, TypeOK, Accounting, NEW h \in Handlers, NEW r \in Calls,
           NEW op \in Ops, MayStart(h, op, r),
           \/ op = "issue" /\ ~IsHeld(r)
           \/ op \in Releases /\ IsHeld(r)
    PROVE  ~MoneyInFlight(r)
  <1> SUFFICES ASSUME NEW g \in Handlers, Busy(g), act[g].call = r PROVE FALSE
    BY DEF MoneyInFlight
  <1>1. {act[g].op, op} \in Overlap
    BY DEF MayStart
  <1>2. Sound(g)
    BY DEF Accounting
  <1>3. CASE act[g].op = "issue"
    BY <1>1, <1>2, <1>3 DEF Sound, TakesTurns
  <1>4. CASE act[g].op # "issue"
    BY <1>1, <1>2, <1>4 DEF Sound, TakesTurns
  <1> QED
    BY <1>3, <1>4

LEMMA ReleaseStart ==
    ASSUME TakesTurns, TypeOK, Accounting, NEW h \in Handlers, NEW r \in Calls,
           NEW op \in Releases, NEW usage \in Nat, NEW tag \in Tags,
           MayStart(h, op, r), IsHeld(r),
           usage <= req[r].billing.amount, op # "complete" => usage = 0,
           AwaitRefund(h, op, r, usage, tag),
           \A q \in Calls : SameMoney(q)
    PROVE  Accounting'
  <1>1. ~MoneyInFlight(r) /\ act[h] = Idle
    BY NoneInFlight DEF MayStart, Releases, Ops
  <1>2. act \in [Handlers -> Activation \cup {Idle}]
    BY DEF TypeOK
  <1>3. PICK at \in {"refund", "debit"} :
            act' = [act EXCEPT ![h] =
                      [at |-> at, op |-> op, call |-> r, tenant |-> req[r].billing.tenant,
                       amount |-> req[r].billing.amount - usage, usage |-> usage,
                       tag |-> tag, version |-> 0]]
                  /\ (at = "debit" => op = "complete" /\ req[r].billing.amount - usage = 0)
    BY DEF AwaitRefund, Enter
  <1>4. /\ act'[h] = [at |-> at, op |-> op, call |-> r, tenant |-> req[r].billing.tenant,
                      amount |-> req[r].billing.amount - usage, usage |-> usage,
                      tag |-> tag, version |-> 0]
        /\ \A g \in Handlers : g # h => act'[g] = act[g]
    BY <1>2, <1>3
  <1>5. req[r].billing.amount \in Nat /\ req[r].billing.tenant \in Callers
    BY DEF TypeOK, Request, Billing, Accounting
  <1>6. Sound(h)'
    <2>1. \A c \in Callers : paid'[r][c] = Owed(r, c)'
      BY <1>1, SameOwed DEF Accounting, Conserved, SameMoney
    <2>2. \A c \in Callers : Unrecorded(h, c)' = 0
      BY <1>3, <1>4, <1>5 DEF Unrecorded
    <2>3. \A c \in Callers : Owed(r, c)' \in Int
      <3>1. ASSUME NEW c \in Callers PROVE Owed(r, c) \in Int
        BY <1>5 DEF Owed, TypeOK, Request
      <3> QED
        BY <3>1, SameOwed
    <2>4. IsHeld(r)'
      BY SameOwed
    <2>5. req'[r].billing.tenant = req[r].billing.tenant /\ req'[r].billing.amount = req[r].billing.amount
      BY DEF SameMoney
    <2> QED
      BY <1>4, <1>5, <2>1, <2>2, <2>3, <2>4, <2>5 DEF Sound, Releases
  <1> QED
    BY <1>1, <1>4, <1>5, <1>6, Engage DEF Busy, Idle, MoneyInFlight, SameMoney

\* A handler that neither was nor is awaiting the store changes no money.
LEMMA NoMoneyStep ==
    ASSUME TypeOK, Accounting, NEW h \in Handlers, NEW r \in Calls,
           \A g \in Handlers : g # h => act'[g] = act[g],
           ~Busy(h), ~Busy(h)',
           \A q \in Calls : SameMoney(q)
    PROVE  Accounting'
  BY Quiesce

\* An amendment that keeps billing and charged keeps all the money.
LEMMA AmendSame ==
    ASSUME TypeOK, NEW r \in Calls, NEW request, Amend(r, request),
           request.billing.state = req[r].billing.state,
           request.billing.tenant = req[r].billing.tenant,
           request.billing.amount = req[r].billing.amount,
           request.charged = req[r].charged,
           UNCHANGED paid
    PROVE  \A q \in Calls : SameMoney(q)
  <1>1. \A q \in Calls : req'[q] = IF q = r THEN request ELSE req[q]
    BY DEF Amend, TypeOK
  <1> QED
    BY <1>1 DEF SameMoney

\* Entering the save await directly, with the money untouched.
LEMMA EnterSave ==
    ASSUME TypeOK, Accounting, NEW h \in Handlers, NEW r \in Calls, act[h] = Idle,
           NEW op, NEW q, NEW tenant, NEW tag, NEW ver,
           Enter(h, "save", op, q, tenant, 0, 0, tag, ver),
           \A s \in Calls : SameMoney(s)
    PROVE  Accounting'
  <1>1. /\ act'[h].at = "save"
        /\ \A g \in Handlers : g # h => act'[g] = act[g]
    BY DEF Enter, TypeOK
  <1> QED
    BY <1>1, NoMoneyStep DEF Busy, Idle

LEMMA StartAccounting ==
    ASSUME TakesTurns, TypeOK, Accounting, NEW h \in Handlers, Start(h)
    PROVE  Accounting'
  <1> PICK r \in Calls :
              \/ \E c \in Callers, p \in Prices : IssueWithoutHold(h, r, c, p)
              \/ \E c \in Callers, p \in Prices : IssueStart(h, r, c, p)
              \/ \E u \in Prices : Report(h, r, "complete", "COMPLETED", u)
              \/ Report(h, r, "fail", "FAILED", 0)
              \/ \E a \in Attempts : Reconcile(h, r, a)
              \/ Expire(h, r)
              \/ Close(h, r)
              \/ Ack(h, r)
              \/ \E c \in Callers : DeliveryMeta(h, r, c)
    BY StartCases
  <1>a. req[r] \in Request /\ req[r].billing.amount \in Nat
    BY DEF TypeOK, Request, Billing
  <1>b. Prices \subseteq Nat
    BY CallBillingAssumption DEF CallBillingAssumption
  <1>c. ASSUME UNCHANGED <<req, paid>> PROVE \A q \in Calls : SameMoney(q)
    BY <1>c DEF SameMoney
  <1>d. ASSUME NEW op, NEW tag, AppendOnly(h, op, r, tag), act[h] = Idle, UNCHANGED paid
        PROVE  Accounting'
    <2>1. \A q \in Calls : SameMoney(q)
      BY <1>a, <1>d, AmendSame DEF AppendOnly, Request
    <2> QED
      BY <1>d, <2>1, EnterSave DEF AppendOnly
  <1>1. CASE \E c \in Callers, p \in Prices : IssueWithoutHold(h, r, c, p)
    <2> PICK c \in Callers, p \in Prices : IssueWithoutHold(h, r, c, p)
      BY <1>1
    <2>1. \A q \in Calls : SameMoney(q)
      BY <1>a, AmendSame DEF IssueWithoutHold, Request
    <2> QED
      BY <2>1, EnterSave DEF IssueWithoutHold, MayStart
  <1>2. CASE \E c \in Callers, p \in Prices : IssueStart(h, r, c, p)
    <2> PICK c \in Callers, p \in Prices : IssueStart(h, r, c, p)
      BY <1>2
    <2>1. \A q \in Calls : SameMoney(q)
      BY <1>a, AmendSame DEF IssueStart, Request
    <2>2. ~MoneyInFlight(r) /\ act[h] = Idle
      BY NoneInFlight DEF IssueStart, MayStart, Ops
    <2>3. /\ act'[h] = [at |-> "balance", op |-> "issue", call |-> r, tenant |-> c,
                        amount |-> p, usage |-> 0, tag |-> "TASK_TOKEN_ISSUED",
                        version |-> BoundVersion(r)]
          /\ \A g \in Handlers : g # h => act'[g] = act[g]
      BY DEF IssueStart, Enter, TypeOK
    <2>4. Sound(h)'
      <3>1. \A d \in Callers : paid'[r][d] = Owed(r, d)'
        BY <2>1, <2>2, SameOwed DEF Accounting, Conserved, SameMoney
      <3>2. \A d \in Callers : Unrecorded(h, d)' = 0
        BY <2>3 DEF Unrecorded
      <3>3. \A d \in Callers : Owed(r, d)' \in Int
        <4>1. ASSUME NEW d \in Callers PROVE Owed(r, d) \in Int
          BY <1>a DEF Owed, TypeOK, Request
        <4> QED
          BY <4>1, <2>1, SameOwed
      <3>4. ~IsHeld(r)'
        BY <2>1, SameOwed DEF IssueStart
      <3> QED
        BY <2>3, <3>1, <3>2, <3>3, <3>4 DEF Sound
    <2>5. ~IsHeld(r)'
      BY <2>1, SameOwed DEF IssueStart
    <2> QED
      BY <2>1, <2>2, <2>3, <2>4, <2>5, Engage DEF Busy, Idle, MoneyInFlight
  <1>3. CASE \/ \E u \in Prices : Report(h, r, "complete", "COMPLETED", u)
             \/ Report(h, r, "fail", "FAILED", 0)
    <2> PICK op \in {"complete", "fail"}, tag \in {"COMPLETED", "FAILED"}, u \in Nat :
               Report(h, r, op, tag, u) /\ (op = "fail" => u = 0)
      BY <1>3, <1>b
    <2>1. op \in Releases /\ tag \in Tags
      BY DEF Releases, Tags
    <2>2. CASE IsHeld(r)
      BY <1>c, <2>1, <2>2, ReleaseStart DEF Report
    <2>3. CASE ~IsHeld(r)
      BY <1>d, <2>3 DEF Report, MayStart
    <2> QED
      BY <2>2, <2>3
  <1>4. CASE \E a \in Attempts : Reconcile(h, r, a)
    <2> PICK a \in Attempts : Reconcile(h, r, a)
      BY <1>4
    <2>1. "reconcile" \in Releases /\ a \in Tags /\ 0 <= req[r].billing.amount
      BY <1>a DEF Releases, Tags
    <2>2. CASE IsHeld(r) /\ ~HasTerminalEvent(r)
      BY <1>c, <2>1, <2>2, ReleaseStart DEF Reconcile
    <2>3. CASE ~(IsHeld(r) /\ ~HasTerminalEvent(r))
      BY <1>d, <2>3 DEF Reconcile, MayStart
    <2> QED
      BY <2>2, <2>3
  <1>5. CASE Expire(h, r)
    <2>1. "expire" \in Releases /\ "EXPIRED" \in Tags /\ 0 <= req[r].billing.amount
      BY <1>a DEF Releases, Tags
    <2> QED
      BY <1>5, <1>c, <2>1, ReleaseStart DEF Expire
  <1>6. CASE Close(h, r)
    <2>1. "close" \in Releases /\ "CANCELED" \in Tags /\ 0 <= req[r].billing.amount
      BY <1>a DEF Releases, Tags
    <2>2. \A q \in Calls : SameMoney(q)
      BY <1>6, <1>a, AmendSame DEF Close, Request
    <2>3. CASE IsHeld(r)
      BY <1>6, <2>1, <2>2, <2>3, ReleaseStart DEF Close
    <2>4. CASE ~IsHeld(r)
      BY <1>6, <2>2, <2>4, EnterSave DEF Close, MayStart
    <2> QED
      BY <2>3, <2>4
  <1>7. CASE Ack(h, r)
    <2>1. \A q \in Calls : SameMoney(q)
      BY <1>7, <1>a, AmendSame DEF Ack, Request
    <2> QED
      BY <1>7, <2>1, EnterSave DEF Ack, MayStart
  <1>8. CASE \E c \in Callers : DeliveryMeta(h, r, c)
    <2> PICK c \in Callers : DeliveryMeta(h, r, c)
      BY <1>8
    <2>1. \A q \in Calls : SameMoney(q)
      BY <1>a, AmendSame DEF DeliveryMeta, Request
    <2> QED
      BY <2>1, EnterSave DEF DeliveryMeta, MayStart
  <1> QED
    BY <1>1, <1>2, <1>3, <1>4, <1>5, <1>6, <1>7, <1>8

\* A handler moving to its next await, or leaving.
LEMMA StepOf ==
    ASSUME TypeOK, NEW h \in Handlers
    PROVE  /\ \A at : Proceed(h, at) => /\ act'[h] = [act[h] EXCEPT !.at = at]
                                        /\ \A g \in Handlers : g # h => act'[g] = act[g]
           /\ Leave(h) => /\ act'[h] = Idle
                          /\ \A g \in Handlers : g # h => act'[g] = act[g]
  BY DEF TypeOK, Proceed, Leave

LEMMA OwedType ==
    ASSUME TypeOK, NEW r \in Calls, NEW c \in Callers
    PROVE  Owed(r, c) \in Int /\ paid[r][c] \in Int
  <1>1. req[r] \in Request /\ req[r].billing.amount \in Nat /\ req[r].charged \in [Callers -> Nat]
    BY DEF TypeOK, Request, Billing
  <1>2. paid[r][c] \in Int
    BY DEF TypeOK
  <1> QED
    BY <1>1, <1>2 DEF Owed

\* What a transaction of the store does to the ledger of one call.
LEMMA MoveSame ==
    ASSUME TypeOK, NEW tenant \in Callers, NEW r \in Calls, NEW cents \in Int,
           Move(tenant, r, cents), UNCHANGED req
    PROVE  /\ \A q \in Calls : q # r => SameMoney(q)
           /\ \A c \in Callers : paid'[r][c] = paid[r][c] - (IF c = tenant THEN cents ELSE 0)
           /\ \A c : Owed(r, c)' = Owed(r, c)
           /\ IsHeld(r)' = IsHeld(r)
  <1>1. paid \in [Calls -> [Callers -> Int]]
    BY DEF TypeOK
  <1>2. paid' = [paid EXCEPT ![r] = [paid[r] EXCEPT ![tenant] = @ - cents]]
    BY <1>1 DEF Move
  <1>3. \A q \in Calls : q # r => paid'[q] = paid[q]
    BY <1>1, <1>2
  <1>4. paid'[r] = [paid[r] EXCEPT ![tenant] = @ - cents] /\ paid[r] \in [Callers -> Int]
    BY <1>1, <1>2
  <1>5. \A c \in Callers : paid'[r][c] = paid[r][c] - (IF c = tenant THEN cents ELSE 0)
    BY <1>4
  <1> QED
    BY <1>3, <1>5 DEF SameMoney, Owed, IsHeld

LEMMA ContinueAccounting ==
    ASSUME TakesTurns, TypeOK, Accounting, NEW h \in Handlers, Continue(h)
    PROVE  Accounting'
  <1>a. act[h] # Idle
    BY DEF Continue, CheckBalance, StoreHold, Mint, StoreRefund, StoreDebit, Resume, Save, Idle
  <1> PICK r \in Calls : r = act[h].call
    BY <1>a, Entered
  <1>b. /\ r \in Calls /\ act[h].op \in Ops /\ act[h] \in Activation
        /\ act[h].amount \in Nat /\ act[h].usage \in Nat
    BY <1>a, Entered
  <1>c. req[r] \in Request /\ req[r].charged \in [Callers -> Nat]
    BY <1>b DEF TypeOK, Request
  <1>d. Sound(h)
    BY DEF Accounting
  <1>e. \A g \in Handlers : g # h /\ Busy(g) /\ Busy(h) => act[g].call # r
    BY DEF Accounting
  <1>f. IsHeld(r) => req[r].billing.tenant \in Callers
    BY <1>b DEF Accounting
  <1>g. \A c \in Callers : Owed(r, c) \in Int /\ paid[r][c] \in Int
    BY <1>b, OwedType
  <1>h. ASSUME UNCHANGED <<req, paid>> PROVE \A q \in Calls : SameMoney(q)
    BY <1>h DEF SameMoney
  <1> DEFINE at(a) == [act[h] EXCEPT !.at = a]
  <1>i. \A a : /\ at(a).at = a /\ at(a).op = act[h].op /\ at(a).call = r
               /\ at(a).tenant = act[h].tenant /\ at(a).amount = act[h].amount
               /\ at(a).usage = act[h].usage /\ at(a).tag = act[h].tag
    BY <1>b DEF Activation
  <1> HIDE DEF at
  \* Leaving with nothing moved.
  <1>j. ASSUME Leave(h), Busy(h), act[h].at \notin {"held", "debit", "moved"},
               UNCHANGED <<req, paid>>
        PROVE  Accounting'
    <2>1. act'[h] = Idle /\ \A g \in Handlers : g # h => act'[g] = act[g]
      BY <1>j, StepOf
    <2>2. \A c \in Callers : paid[r][c] = Owed(r, c)
      BY <1>d, <1>g, <1>j DEF Sound, Unrecorded
    <2>3. \A c \in Callers : paid'[r][c] = Owed(r, c)'
      BY <2>2, <1>b, <1>h, <1>j, SameOwed
    <2>4. IsHeld(r)' => req'[r].billing.tenant \in Callers
      BY <1>b, <1>f, <1>h, <1>j, SameOwed
    <2> QED
      BY <1>b, <1>h, <1>j, <2>1, <2>3, <2>4, Quiesce DEF Busy, Idle
  <1>1. CASE CheckBalance(h)
    <2>1. Busy(h) /\ act[h].at = "balance" /\ UNCHANGED <<req, paid>>
      BY <1>1 DEF CheckBalance, Busy
    <2>2. CASE Leave(h)
      BY <1>j, <2>1, <2>2
    <2>3. CASE Proceed(h, "hold")
      <3>1. act'[h] = at("hold") /\ \A g \in Handlers : g # h => act'[g] = act[g]
        BY <2>3, StepOf DEF at
      <3>2. Sound(h)'
        BY <1>b, <1>d, <1>i, <2>1, <3>1 DEF Sound, Unrecorded, Busy, Owed, IsHeld
      <3> QED
        BY <1>b, <1>e, <1>f, <1>h, <1>i, <2>1, <3>1, <3>2, Engage, SameOwed DEF Busy
    <2> QED
      BY <1>1, <2>2, <2>3 DEF CheckBalance
  <1>2. CASE StoreHold(h)
    <2>1. Busy(h) /\ act[h].at = "hold" /\ UNCHANGED req
      BY <1>2 DEF StoreHold, Busy
    <2>2. CASE Leave(h) /\ UNCHANGED <<balance, paid>>
      BY <1>j, <2>1, <2>2
    <2>3. CASE Move(act[h].tenant, act[h].call, -act[h].amount) /\ Proceed(h, "held")
      <3>1. act'[h] = at("held") /\ \A g \in Handlers : g # h => act'[g] = act[g]
        BY <2>3, StepOf DEF at
      <3>2. act[h].op = "issue" /\ act[h].tenant \in Callers /\ ~IsHeld(r)
        BY <1>d, <2>1 DEF Sound
      <3>3. /\ \A q \in Calls : q # r => SameMoney(q)
            /\ \A c \in Callers : paid'[r][c] = paid[r][c] - (IF c = act[h].tenant THEN -act[h].amount ELSE 0)
            /\ \A c : Owed(r, c)' = Owed(r, c)
            /\ IsHeld(r)' = IsHeld(r)
        BY <1>b, <2>1, <2>3, <3>2, MoveSame
      <3>4. \A c \in Callers : paid[r][c] = Owed(r, c)
        BY <1>d, <1>g, <2>1 DEF Sound, Unrecorded
      <3>5. ASSUME NEW c \in Callers
            PROVE  paid'[r][c] = Owed(r, c) + (IF act[h].tenant # c THEN 0 ELSE act[h].amount)
        BY <1>b, <1>g, <3>3, <3>4
      <3>6. Sound(h)'
        BY <1>i, <3>1, <3>2, <3>3, <3>5 DEF Sound, Unrecorded
      <3> QED
        BY <1>b, <1>e, <1>i, <2>1, <3>1, <3>2, <3>3, <3>6, Engage DEF Busy
    <2> QED
      BY <1>2, <2>2, <2>3 DEF StoreHold
  <1>3. CASE Mint(h)
    <2>1. Busy(h) /\ act[h].at = "held" /\ UNCHANGED paid
      BY <1>3 DEF Mint, Busy
    <2>2. act'[h] = at("save") /\ \A g \in Handlers : g # h => act'[g] = act[g]
      BY <1>3, StepOf DEF at, Mint
    <2>3. act[h].op = "issue" /\ act[h].tenant \in Callers /\ ~IsHeld(r)
      BY <1>d, <2>1 DEF Sound
    <2>4. /\ req'[r].billing = [state |-> "held", tenant |-> act[h].tenant,
                                amount |-> act[h].amount, lapsed |-> FALSE]
          /\ req'[r].charged = req[r].charged
          /\ \A q \in Calls : q # r => req'[q] = req[q]
      BY <1>3, <1>b, <1>c DEF Mint, Amend, TypeOK, Request
    <2>5. \A q \in Calls : q # r => SameMoney(q)
      BY <2>1, <2>4 DEF SameMoney
    <2>6. ASSUME NEW c \in Callers PROVE paid'[r][c] = Owed(r, c)'
      <3>1. paid[r][c] = Owed(r, c) + Unrecorded(h, c)
        BY <1>d, <2>1 DEF Sound
      <3>2. Owed(r, c) = req[r].charged[c]
        BY <1>c, <2>3 DEF Owed
      <3>3. Owed(r, c)' = req[r].charged[c] + (IF act[h].tenant = c THEN act[h].amount ELSE 0)
        BY <2>4 DEF Owed, IsHeld
      <3> QED
        BY <1>b, <1>c, <2>1, <3>1, <3>2, <3>3 DEF Unrecorded
    <2> QED
      BY <1>b, <1>i, <2>1, <2>2, <2>3, <2>4, <2>5, <2>6, Quiesce DEF Busy
  <1>4. CASE StoreRefund(h)
    <2>1. /\ Busy(h) /\ act[h].at = "refund" /\ UNCHANGED req
          /\ Move(act[h].tenant, r, act[h].amount)
      BY <1>4 DEF StoreRefund, Busy
    <2>2. PICK a \in {"debit", "moved"} : Proceed(h, a)
      BY <1>4 DEF StoreRefund
    <2>3. act'[h] = at(a) /\ \A g \in Handlers : g # h => act'[g] = act[g]
      BY <2>2, StepOf DEF at
    <2>4. /\ act[h].op \in Releases /\ act[h].op # "issue"
          /\ act[h].tenant \in Callers /\ IsHeld(r)
          /\ req[r].billing.tenant = act[h].tenant
          /\ req[r].billing.amount = act[h].amount + act[h].usage
          /\ act[h].op # "complete" => act[h].usage = 0
      BY <1>d, <2>1 DEF Sound, Releases
    <2>5. /\ \A q \in Calls : q # r => SameMoney(q)
          /\ \A c \in Callers : paid'[r][c] = paid[r][c] - (IF c = act[h].tenant THEN act[h].amount ELSE 0)
          /\ \A c : Owed(r, c)' = Owed(r, c)
          /\ IsHeld(r)' = IsHeld(r)
      <3>1. act[h].amount \in Int
        BY <1>b
      <3> QED
        BY <2>1, <2>4, <3>1, MoveSame, Zenon
    <2>6. \A c \in Callers : paid[r][c] = Owed(r, c)
      BY <1>d, <1>g, <2>1 DEF Sound, Unrecorded
    <2>7. ASSUME NEW c \in Callers
          PROVE  paid'[r][c] = Owed(r, c) + (IF act[h].tenant # c THEN 0 ELSE -act[h].amount)
      BY <1>b, <1>g, <2>5, <2>6
    <2>8. Sound(h)'
      <3>1. /\ act'[h].at = a /\ act'[h].op = act[h].op /\ act'[h].call = r
            /\ act'[h].tenant = act[h].tenant /\ act'[h].amount = act[h].amount
            /\ act'[h].usage = act[h].usage
        BY <1>i, <2>3
      <3>2. \A c \in Callers : paid'[r][c] = Owed(r, c)' + Unrecorded(h, c)'
        BY <2>2, <2>5, <2>7, <3>1 DEF Unrecorded
      <3> QED
        BY <2>1, <2>2, <2>4, <2>5, <3>1, <3>2 DEF Sound
    <2> QED
      BY <1>b, <1>e, <1>i, <2>1, <2>3, <2>2, <2>4, <2>5, <2>8, Engage DEF Busy
  <1>5. CASE StoreDebit(h)
    <2>1. Busy(h) /\ act[h].at = "debit" /\ UNCHANGED <<req, paid>>
      BY <1>5 DEF StoreDebit, Busy
    <2>2. act'[h] = at("moved") /\ \A g \in Handlers : g # h => act'[g] = act[g]
      BY <1>5, StepOf DEF at, StoreDebit
    <2>3. Sound(h)'
      BY <1>b, <1>d, <1>i, <2>1, <2>2 DEF Sound, Unrecorded, Busy, Owed, IsHeld
    <2> QED
      BY <1>b, <1>e, <1>f, <1>h, <1>i, <2>1, <2>2, <2>3, Engage, SameOwed DEF Busy
  <1>6. CASE Resume(h)
    <2>1. Busy(h) /\ act[h].at = "moved" /\ UNCHANGED paid
      BY <1>6 DEF Resume, Busy
    <2>2. act'[h] = at("save") /\ \A g \in Handlers : g # h => act'[g] = act[g]
      BY <1>6, StepOf DEF at, Resume
    <2>3. /\ act[h].tenant \in Callers /\ IsHeld(r)
          /\ req[r].billing.tenant = act[h].tenant
          /\ req[r].billing.amount = act[h].amount + act[h].usage
      BY <1>d, <2>1 DEF Sound
    <2>4. /\ req'[r].billing = [req[r].billing EXCEPT !.state = Outcome(act[h].op)]
          /\ req'[r].charged = [req[r].charged EXCEPT ![act[h].tenant] = @ + act[h].usage]
          /\ \A q \in Calls : q # r => req'[q] = req[q]
      BY <1>6, <1>b, <1>c DEF Resume, Amend, TypeOK, Request
    <2>5. \A q \in Calls : q # r => SameMoney(q)
      BY <2>1, <2>4 DEF SameMoney
    <2>6. ~IsHeld(r)'
      BY <1>c, <2>4 DEF IsHeld, Outcome, Request, Billing
    <2>7. ASSUME NEW c \in Callers PROVE paid'[r][c] = Owed(r, c)'
      <3>1. paid[r][c] = Owed(r, c) + Unrecorded(h, c)
        BY <1>d, <2>1 DEF Sound
      <3>2. Owed(r, c) = req[r].charged[c]
                            + (IF act[h].tenant = c THEN act[h].amount + act[h].usage ELSE 0)
        BY <2>3 DEF Owed
      <3>3. Owed(r, c)' = req'[r].charged[c]
        BY <1>b, <1>c, <2>4, <2>6 DEF Owed
      <3>4. req'[r].charged[c] = req[r].charged[c] + (IF act[h].tenant = c THEN act[h].usage ELSE 0)
        BY <1>b, <1>c, <2>4
      <3> QED
        BY <1>b, <1>c, <2>1, <3>1, <3>2, <3>3, <3>4 DEF Unrecorded
    <2> QED
      BY <1>b, <1>i, <2>1, <2>2, <2>5, <2>6, <2>7, Quiesce DEF Busy
  <1>7. CASE Save(h)
    <2>1. ~Busy(h) /\ UNCHANGED <<req, paid>>
      BY <1>7 DEF Save, Busy
    <2>2. act'[h] = Idle /\ \A g \in Handlers : g # h => act'[g] = act[g]
      BY <1>7, StepOf DEF Save
    <2> QED
      BY <1>b, <1>h, <2>1, <2>2, NoMoneyStep DEF Busy, Idle
  <1> QED
    BY <1>1, <1>2, <1>3, <1>4, <1>5, <1>6, <1>7 DEF Continue

\* A step in which no handler moves and no money either.
LEMMA StillStep ==
    ASSUME TypeOK, Accounting, UNCHANGED act, \A q \in Calls : SameMoney(q)
    PROVE  Accounting'
  <1>1. \A g \in Handlers : Busy(g)' = Busy(g)
    BY DEF Busy, Unrecorded
  <1>2. ASSUME NEW g \in Handlers, Busy(g) PROVE Sound(g)'
    <2>1. act[g] # Idle
      BY <1>2 DEF Busy, Idle
    <2> PICK r \in Calls : r = act[g].call
      BY <2>1, Entered
    <2>2. SameMoney(r) /\ Sound(g)
      BY DEF Accounting
    <2> QED
      BY <1>2, <2>2, SameOwed DEF Sound, Unrecorded, Busy, SameMoney
  <1>3. \A g \in Handlers : Sound(g)'
    BY <1>1, <1>2 DEF Sound
  <1>4. ASSUME NEW q \in Calls, IsHeld(q)' PROVE req'[q].billing.tenant \in Callers
    BY <1>4, SameOwed DEF Accounting, SameMoney
  <1>5. ASSUME NEW q \in Calls, ~MoneyInFlight(q)', NEW c \in Callers
        PROVE  paid'[q][c] = Owed(q, c)'
    BY <1>1, <1>5, SameOwed DEF Accounting, Conserved, SameMoney, MoneyInFlight
  <1> QED
    BY <1>1, <1>3, <1>4, <1>5 DEF Accounting, Conserved

LEMMA StepAccounting ==
    ASSUME TakesTurns
    PROVE  TypeOK /\ Accounting /\ [Next]_vars => Accounting'
  <1> SUFFICES ASSUME TypeOK, Accounting, [Next]_vars PROVE Accounting'
    OBVIOUS
  <1>a. ASSUME UNCHANGED <<req, paid>> PROVE \A q \in Calls : SameMoney(q)
    BY <1>a DEF SameMoney
  <1>1. CASE \E h \in Handlers : Start(h)
    BY <1>1, StartAccounting
  <1>2. CASE \E h \in Handlers : Continue(h)
    BY <1>2, ContinueAccounting
  <1>3. CASE \E h \in Handlers : StoreFails(h)
    <2> PICK h \in Handlers : StoreFails(h)
      BY <1>3
    <2>1. act[h].at \in {"balance", "hold", "refund", "save"}
      BY CallBillingAssumption DEF CallBillingAssumption, TakesTurns, StoreFails
    <2>2. act[h] # Idle
      BY <2>1 DEF Idle
    <2> PICK r \in Calls : r = act[h].call
      BY <2>2, Entered
    <2>3. act[h] \in Activation /\ \A q \in Calls : SameMoney(q)
      BY <1>a, <2>2, Entered DEF StoreFails
    <2>4. ~Busy(h)' /\ \A g \in Handlers : g # h => act'[g] = act[g]
      <3>1. CASE Proceed(h, "save")
        <4>1. /\ act'[h] = [act[h] EXCEPT !.at = "save"]
              /\ \A g \in Handlers : g # h => act'[g] = act[g]
          BY <3>1, StepOf
        <4> QED
          BY <2>3, <4>1 DEF Busy, Activation
      <3>2. CASE Leave(h)
        BY <3>2, StepOf DEF Busy, Idle
      <3> QED
        BY <3>1, <3>2 DEF StoreFails
    <2>5. ASSUME Busy(h) PROVE \A c \in Callers : paid'[r][c] = Owed(r, c)'
      <3>1. \A c \in Callers : paid[r][c] = Owed(r, c) + Unrecorded(h, c)
        BY <2>5 DEF Accounting, Sound
      <3>2. \A c \in Callers : Unrecorded(h, c) = 0
        BY <2>1 DEF Unrecorded
      <3> QED
        BY <2>3, <3>1, <3>2, OwedType, SameOwed DEF SameMoney
    <2>6. IsHeld(r)' => req'[r].billing.tenant \in Callers
      BY <2>3, SameOwed DEF Accounting, SameMoney
    <2> QED
      BY <2>3, <2>4, <2>5, <2>6, Quiesce
  <1>4. CASE \E r \in Calls : Lapse(r)
    <2> PICK r \in Calls : Lapse(r)
      BY <1>4
    <2>1. req[r] \in Request /\ req[r].billing \in Billing
      BY DEF TypeOK, Request
    <2>2. \A q \in Calls : SameMoney(q)
      BY <2>1, AmendSame DEF Lapse, Request, Billing
    <2> QED
      BY <2>2, StillStep DEF Lapse
  <1>5. CASE Publish \/ OtherSave \/ UNCHANGED vars
    BY <1>5, <1>a, StillStep DEF Publish, OtherSave, vars
  <1>6. CASE Crash
    BY <1>6 DEF Crash, TakesTurns
  <1> QED
    BY <1>1, <1>2, <1>3, <1>4, <1>5, <1>6 DEF Next

LEMMA InitAccounting == Init => Accounting
  BY DEF Init, Accounting, Conserved, Sound, Busy, Idle, Owed, IsHeld, MoneyInFlight,
         NewRequest, NoBilling

\* Where operations on one call take turns at its money, a handler that awaits
\* the store is the only one of its call, and what it read before the await
\* still holds when the store has answered.
THEOREM WhatWasReadStillHolds ==
    ASSUME TakesTurns
    PROVE  Spec => []Accounting
  BY TypeCorrect, InitAccounting, StepAccounting, PTL DEF Spec

\* Where operations on one call take turns at its money, the ledger has taken
\* from every caller exactly what the request objects account for, whatever
\* the hotlines cost, however many handlers, calls and callers there are, and
\* whichever store calls fail before money moves.
THEOREM ConservationOfMoney ==
    ASSUME TakesTurns
    PROVE  Spec => []Conserved
  <1>1. Accounting => Conserved
    BY DEF Accounting
  <1> QED
    BY <1>1, TypeCorrect, InitAccounting, StepAccounting, PTL DEF Spec

\* Under the same turns, no sequence of reports, closes and expiries, whatever
\* store call fails before money moves, gives back more than was taken.
THEOREM NoOverRefund ==
    ASSUME TakesTurns
    PROVE  Spec => []NeverOverRefunded
  <1>1. TypeOK /\ Accounting => NeverOverRefunded
    <2> SUFFICES ASSUME TypeOK, Accounting, NEW r \in Calls, NEW c \in Callers
                 PROVE  paid[r][c] >= req[r].charged[c]
      BY DEF NeverOverRefunded
    <2>1. /\ req[r].charged[c] \in Nat /\ req[r].billing.amount \in Nat
          /\ paid[r][c] \in Int
      BY DEF TypeOK, Request, Billing
    <2>2. CASE ~MoneyInFlight(r)
      BY <2>1, <2>2 DEF Accounting, Conserved, Owed
    <2>3. CASE MoneyInFlight(r)
      <3> PICK h \in Handlers : Busy(h) /\ act[h].call = r
        BY <2>3 DEF MoneyInFlight
      <3>1. act[h].amount \in Nat /\ act[h].usage \in Nat
        BY Entered DEF Busy, Idle
      <3>2. Sound(h)
        BY DEF Accounting
      <3> QED
        BY <2>1, <3>1, <3>2 DEF Sound, Unrecorded, Owed
    <2> QED
      BY <2>2, <2>3
  <1> QED
    BY <1>1, TypeCorrect, InitAccounting, StepAccounting, PTL DEF Spec

----------------------------------------------------------------------------
(* The contract a call is bound to *)

\* A step that binds a call to nothing else than what it was bound to.
KeepsBinding ==
    \A r \in Calls :
        /\ req[r].bound # 0 => req'[r].bound = req[r].bound
        /\ req[r].caller # NoCaller => req'[r].caller # NoCaller

LEMMA KeepingStep ==
    ASSUME TypeOK, Bindings, KeepsBinding, UNCHANGED <<saved, tokens>>, NEW h \in Handlers,
           \A g \in Handlers : g # h => act'[g] = act[g],
           Carries(h)'
    PROVE  Bindings'
  <1>1. ASSUME NEW g \in Handlers PROVE Carries(g)'
    <2>1. CASE g # h /\ Issuing(g)
      <3> PICK r \in Calls : r = act[g].call
        BY <2>1, Entered DEF Issuing
      <3> QED
        BY <2>1 DEF Bindings, KeepsBinding, Carries, Issuing
    <2>2. CASE g # h /\ ~Issuing(g)
      BY <2>2 DEF Bindings, Carries, Issuing
    <2> QED
      BY <2>1, <2>2
  <1>2. \A r \in Calls : /\ (saved.req[r].bound # 0 => req[r].bound = saved.req[r].bound)'
                         /\ (saved.req[r].caller # NoCaller => req[r].caller # NoCaller)'
    BY DEF Bindings, KeepsBinding
  <1>3. AnsweredIsSaved'
    BY DEF Bindings, AnsweredIsSaved
  <1> QED
    BY <1>1, <1>2, <1>3 DEF Bindings, Carries

LEMMA AmendKeeps ==
    ASSUME TypeOK, NEW r \in Calls, NEW request, Amend(r, request),
           req[r].bound # 0 => request.bound = req[r].bound,
           req[r].caller # NoCaller => request.caller # NoCaller
    PROVE  KeepsBinding /\ req'[r] = request
  <1>1. \A q \in Calls : req'[q] = IF q = r THEN request ELSE req[q]
    BY DEF Amend, TypeOK
  <1> QED
    BY <1>1 DEF KeepsBinding

LEMMA StartBindings ==
    ASSUME TypeOK, Bindings, NEW h \in Handlers, Start(h)
    PROVE  Bindings'
  <1> PICK r \in Calls :
              \/ \E c \in Callers, p \in Prices : IssueWithoutHold(h, r, c, p)
              \/ \E c \in Callers, p \in Prices : IssueStart(h, r, c, p)
              \/ \E u \in Prices : Report(h, r, "complete", "COMPLETED", u)
              \/ Report(h, r, "fail", "FAILED", 0)
              \/ \E a \in Attempts : Reconcile(h, r, a)
              \/ Expire(h, r)
              \/ Close(h, r)
              \/ Ack(h, r)
              \/ \E c \in Callers : DeliveryMeta(h, r, c)
    BY StartCases
  <1>a. req[r] \in Request /\ NoCaller \notin Callers
    BY CallBillingAssumption DEF CallBillingAssumption, TypeOK
  <1>b. BoundVersion(r) # 0 /\ (req[r].bound # 0 => BoundVersion(r) = req[r].bound)
    BY CallBillingAssumption DEF CallBillingAssumption, BoundVersion, TypeOK
  <1>c. ASSUME UNCHANGED req PROVE KeepsBinding
    BY <1>c DEF KeepsBinding
  <1>g. act \in [Handlers -> Activation \cup {Idle}]
    BY DEF TypeOK
  \* Operations other than the issue of a token carry no binding.
  <1>d. ASSUME NEW at \in {"refund", "debit", "save"}, NEW op, op # "issue", NEW tenant, NEW amount, NEW usage, NEW tag,
               Enter(h, at, op, r, tenant, amount, usage, tag, 0),
               KeepsBinding, UNCHANGED <<saved, tokens>>
        PROVE  Bindings'
    <2>1. /\ act'[h].op # "issue" /\ act'[h].at \notin {"balance", "hold", "held"}
          /\ \A g \in Handlers : g # h => act'[g] = act[g]
      BY <1>d, <1>g DEF Enter
    <2> QED
      BY <1>d, <2>1, KeepingStep DEF Carries, Issuing
  <1>e. ASSUME NEW op, op # "issue", NEW usage, NEW tag, AwaitRefund(h, op, r, usage, tag),
               KeepsBinding, UNCHANGED <<saved, tokens>>
        PROVE  Bindings'
    BY <1>d, <1>e DEF AwaitRefund
  <1>f. ASSUME NEW op, op # "issue", NEW tag, AppendOnly(h, op, r, tag), UNCHANGED <<saved, tokens>>
        PROVE  Bindings'
    <2>1. KeepsBinding
      BY <1>a, <1>f, AmendKeeps DEF AppendOnly, Request
    <2> QED
      BY <1>d, <1>f, <2>1 DEF AppendOnly
  <1>1. CASE \E c \in Callers, p \in Prices : IssueWithoutHold(h, r, c, p)
    <2> PICK c \in Callers, p \in Prices : IssueWithoutHold(h, r, c, p)
      BY <1>1
    <2>1. /\ KeepsBinding
          /\ req'[r] = [req[r] EXCEPT !.bound = BoundVersion(r), !.caller = c, !.exec = "submitted"]
      BY <1>a, <1>b, AmendKeeps DEF IssueWithoutHold, Request
    <2>2. /\ act'[h].op = "issue" /\ act'[h].version = BoundVersion(r) /\ act'[h].call = r
          /\ act'[h] # Idle /\ act'[h].tenant = c /\ act'[h].at = "save"
          /\ \A g \in Handlers : g # h => act'[g] = act[g]
      BY <1>g DEF Idle, IssueWithoutHold, Enter
    <2>3. req'[r].bound = BoundVersion(r) /\ req'[r].caller # NoCaller
      BY <1>a, <2>1 DEF Request
    <2>4. Carries(h)'
      BY <1>b, <2>2, <2>3 DEF Carries, Issuing
    <2> QED
      BY <2>1, <2>2, <2>4, KeepingStep DEF IssueWithoutHold
  <1>2. CASE \E c \in Callers, p \in Prices : IssueStart(h, r, c, p)
    <2> PICK c \in Callers, p \in Prices : IssueStart(h, r, c, p)
      BY <1>2
    <2>1. KeepsBinding /\ req'[r] = [req[r] EXCEPT !.bound = BoundVersion(r)]
      BY <1>a, <1>b, AmendKeeps DEF IssueStart, Request
    <2>2. /\ act'[h].op = "issue" /\ act'[h].version = BoundVersion(r) /\ act'[h].call = r
          /\ act'[h].at = "balance"
          /\ act'[h] # Idle /\ act'[h].tenant = c
          /\ \A g \in Handlers : g # h => act'[g] = act[g]
      BY <1>g DEF Idle, IssueStart, Enter
    <2>3. req'[r].bound = BoundVersion(r)
      BY <1>a, <2>1 DEF Request
    <2>4. Carries(h)'
      BY <1>b, <2>2, <2>3 DEF Carries, Issuing
    <2> QED
      BY <2>1, <2>2, <2>4, KeepingStep DEF IssueStart
  <1>3. CASE \/ \E u \in Prices : Report(h, r, "complete", "COMPLETED", u)
             \/ Report(h, r, "fail", "FAILED", 0)
    <2> PICK op \in {"complete", "fail"}, tag \in {"COMPLETED", "FAILED"}, u \in Prices \cup {0} :
               Report(h, r, op, tag, u)
      BY <1>3
    <2> QED
      BY <1>c, <1>e, <1>f DEF Report
  <1>4. CASE \E a \in Attempts : Reconcile(h, r, a)
    <2> PICK a \in Attempts : Reconcile(h, r, a)
      BY <1>4
    <2> QED
      BY <1>c, <1>e, <1>f DEF Reconcile
  <1>5. CASE Expire(h, r)
    BY <1>5, <1>c, <1>e DEF Expire
  <1>6. CASE Close(h, r)
    <2>1. KeepsBinding
      BY <1>6, <1>a, AmendKeeps DEF Close, Request
    <2> QED
      BY <1>6, <1>d, <1>e, <2>1 DEF Close
  <1>7. CASE Ack(h, r)
    <2>1. KeepsBinding
      BY <1>7, <1>a, AmendKeeps DEF Ack, Request
    <2> QED
      BY <1>7, <1>d, <2>1 DEF Ack
  <1>8. CASE \E c \in Callers : DeliveryMeta(h, r, c)
    <2> PICK c \in Callers : DeliveryMeta(h, r, c)
      BY <1>8
    <2>1. KeepsBinding
      BY <1>a, AmendKeeps DEF DeliveryMeta, Request
    <2> QED
      BY <1>d, <2>1 DEF DeliveryMeta
  <1> QED
    BY <1>1, <1>2, <1>3, <1>4, <1>5, <1>6, <1>7, <1>8

LEMMA LeaveBindings ==
    ASSUME TypeOK, Bindings, NEW h \in Handlers, Leave(h), KeepsBinding,
           UNCHANGED <<saved, tokens>>
    PROVE  Bindings'
  <1>1. act'[h] = Idle /\ \A g \in Handlers : g # h => act'[g] = act[g]
    BY StepOf
  <1>2. Carries(h)'
    BY <1>1 DEF Carries, Issuing, Idle
  <1> QED
    BY <1>1, <1>2, KeepingStep

\* The step of an activation that keeps its operation and version.
LEMMA ProceedBindings ==
    ASSUME TypeOK, Bindings, NEW h \in Handlers, act[h] # Idle, KeepsBinding,
           UNCHANGED <<saved, tokens>>,
           NEW at \in {"hold", "held", "debit", "moved", "save"}, Proceed(h, at),
           Issuing(h) => at \in {"hold", "held", "save"},
           at \in {"hold", "held"} => Issuing(h),
           at = "save" /\ Issuing(h) => req'[act[h].call].caller # NoCaller
    PROVE  Bindings'
  <1> PICK r \in Calls : r = act[h].call
    BY Entered
  <1>1. act'[h] = [act[h] EXCEPT !.at = at] /\ \A g \in Handlers : g # h => act'[g] = act[g]
    BY StepOf
  <1>2. act[h] \in Activation
    BY Entered
  <1>3. /\ act'[h].at = at /\ act'[h].op = act[h].op /\ act'[h].call = r
        /\ act'[h].version = act[h].version /\ act'[h].tenant = act[h].tenant
    BY <1>1, <1>2 DEF Activation
  <1>4. Issuing(h) => /\ act[h].version # 0 /\ act[h].version = req[r].bound
                      /\ act[h].tenant \in Callers
    BY DEF Bindings, Carries
  <1>5. act'[h] # Idle
    BY <1>1, <1>2, <1>3 DEF Idle, Activation
  <1>6. Issuing(h)' <=> Issuing(h)
    BY <1>3, <1>5 DEF Issuing
  <1>7. req[r].bound # 0 => req'[r].bound = req[r].bound
    BY DEF KeepsBinding
  <1>8. Carries(h)'
    BY <1>3, <1>4, <1>6, <1>7 DEF Carries
  <1> QED
    BY <1>1, <1>8, KeepingStep

LEMMA ContinueBindings ==
    ASSUME TypeOK, Bindings, NEW h \in Handlers, Continue(h)
    PROVE  Bindings'
  <1>a. act[h] # Idle
    BY DEF Continue, CheckBalance, StoreHold, Mint, StoreRefund, StoreDebit, Resume, Save, Idle
  <1> PICK r \in Calls : r = act[h].call
    BY <1>a, Entered
  <1>b. /\ req[r] \in Request /\ NoCaller \notin Callers
        /\ act[h].tenant \in Callers \cup {NoCaller}
        /\ act \in [Handlers -> Activation \cup {Idle}] /\ act[h] \in Activation
    BY <1>a, Entered, CallBillingAssumption DEF CallBillingAssumption, TypeOK
  <1>c. ASSUME UNCHANGED req PROVE KeepsBinding
    BY <1>c DEF KeepsBinding
  <1>1. CASE CheckBalance(h) \/ StoreHold(h)
    <2>1. Issuing(h) /\ KeepsBinding
      BY <1>1, <1>c DEF CheckBalance, StoreHold, Bindings, Carries
    <2>2. Leave(h) \/ Proceed(h, "hold") \/ Proceed(h, "held")
      BY <1>1 DEF CheckBalance, StoreHold
    <2>3. UNCHANGED <<saved, tokens>>
      BY <1>1 DEF CheckBalance, StoreHold
    <2> QED
      BY <1>a, <2>1, <2>2, <2>3, ProceedBindings, LeaveBindings
  <1>2. CASE StoreRefund(h) \/ StoreDebit(h)
    <2>1. Proceed(h, "debit") \/ Proceed(h, "moved")
      BY <1>2 DEF StoreRefund, StoreDebit
    <2>2. KeepsBinding /\ UNCHANGED <<saved, tokens>> /\ ~Issuing(h)
      BY <1>2, <1>c DEF StoreRefund, StoreDebit, Bindings, Carries
    <2> QED
      BY <1>a, <2>1, <2>2, ProceedBindings, LeaveBindings
  <1>3. CASE Mint(h)
    <2>1. Issuing(h) /\ act[h].tenant \in Callers
      BY <1>3 DEF Mint, Bindings, Carries
    <2>2. KeepsBinding /\ req'[r].caller = act[h].tenant
      <3>1. /\ req'[r].bound = req[r].bound /\ req'[r].caller = act[h].tenant
            /\ \A q \in Calls : q # r => req'[q] = req[q]
        BY <1>3, <1>b DEF Mint, Amend, TypeOK, Request
      <3> QED
        BY <1>b, <2>1, <3>1 DEF KeepsBinding
    <2>3. req'[act[h].call].caller # NoCaller
      BY <1>b, <2>1, <2>2
    <2>4. Proceed(h, "save") /\ UNCHANGED <<saved, tokens>>
      BY <1>3 DEF Mint
    <2> QED
      BY <1>a, <2>2, <2>3, <2>4, ProceedBindings, LeaveBindings
  <1>4. CASE Resume(h)
    <2>1. KeepsBinding /\ req'[r].caller = req[r].caller
      <3>1. /\ req'[r].bound = req[r].bound /\ req'[r].caller = req[r].caller
            /\ \A q \in Calls : q # r => req'[q] = req[q]
        BY <1>4, <1>b DEF Resume, Amend, TypeOK, Request
      <3> QED
        BY <3>1 DEF KeepsBinding
    <2>2. Proceed(h, "save") /\ UNCHANGED <<saved, tokens>> /\ act[h].at = "moved"
      BY <1>4 DEF Resume
    <2>3. ~Issuing(h)
      BY <2>2 DEF Bindings, Carries
    <2> QED
      BY <1>a, <1>b, <2>1, <2>2, <2>3, ProceedBindings, LeaveBindings
  <1>5. CASE Save(h)
    <2>1. act'[h] = Idle /\ \A g \in Handlers : g # h => act'[g] = act[g]
      BY <1>5, StepOf DEF Save
    <2>2. \A g \in Handlers : Carries(g)'
      BY <1>5, <2>1 DEF Save, Bindings, Carries, Issuing, Idle
    <2>3. saved' = [req |-> req, version |-> version] /\ UNCHANGED req
      BY <1>5 DEF Save, Live
    <2>4. \A t \in tokens : /\ t.version # 0 /\ t.call \in Calls
                           /\ req[t.call].bound = t.version
                           /\ req[t.call].caller # NoCaller
      BY DEF Bindings, AnsweredIsSaved, TypeOK, Token
    <2>5. Issuing(h) => /\ act[h].version # 0
                        /\ act[h].version = req[act[h].call].bound
                        /\ req[act[h].call].caller # NoCaller
      BY <1>5 DEF Save, Bindings, Carries
    <2>6. ASSUME NEW t \in tokens'
          PROVE  t.version # 0 /\ req[t.call].bound = t.version /\ req[t.call].caller # NoCaller
      BY <1>5, <1>a, <2>4, <2>5 DEF Save, Issuing
    <2> QED
      BY <2>2, <2>3, <2>6 DEF Bindings, AnsweredIsSaved
  <1> QED
    BY <1>1, <1>2, <1>3, <1>4, <1>5 DEF Continue

LEMMA StepBindings == TypeOK /\ Bindings /\ [Next]_vars => Bindings'
  <1> SUFFICES ASSUME TypeOK, Bindings, [Next]_vars PROVE Bindings'
    OBVIOUS
  <1>a. ASSUME UNCHANGED <<req, act, tokens>>, saved' \in {saved, Live} PROVE Bindings'
    <2>1. \A h \in Handlers : Carries(h)'
      BY <1>a DEF Bindings, Carries, Issuing
    <2>2. \A t \in tokens : t.version # 0 /\ t.call \in Calls
      BY DEF Bindings, TypeOK, Token
    <2> QED
      BY <1>a, <2>1, <2>2 DEF Bindings, AnsweredIsSaved, Live
  <1>1. CASE \E h \in Handlers : Start(h)
    BY <1>1, StartBindings
  <1>2. CASE \E h \in Handlers : Continue(h)
    BY <1>2, ContinueBindings
  <1>3. CASE \E h \in Handlers : StoreFails(h)
    <2> PICK h \in Handlers : StoreFails(h)
      BY <1>3
    <2>1. act[h] # Idle
      BY CallBillingAssumption DEF CallBillingAssumption, StoreFails, Idle
    <2>2. KeepsBinding /\ UNCHANGED <<saved, tokens>>
      BY DEF StoreFails, KeepsBinding
    <2>3. CASE Leave(h)
      BY <2>2, <2>3, LeaveBindings
    <2>4. CASE act[h].op = "close" /\ Proceed(h, "save")
      <3>1. ~Issuing(h)
        BY <2>4 DEF Issuing
      <3> QED
        BY <2>1, <2>2, <2>4, <3>1, ProceedBindings
    <2> QED
      BY <2>3, <2>4 DEF StoreFails
  <1>4. CASE \E r \in Calls : Lapse(r)
    <2> PICK r \in Calls : Lapse(r)
      BY <1>4
    <2>1. /\ \A q \in Calls : req'[q].bound = req[q].bound /\ req'[q].caller = req[q].caller
          /\ UNCHANGED <<saved, act, tokens>>
      BY DEF Lapse, Amend, TypeOK, Request
    <2>2. ASSUME NEW h \in Handlers PROVE Carries(h)'
      <3>1. CASE Issuing(h)
        <4>1. act[h].call \in Calls
          BY <3>1, Entered DEF Issuing
        <4> QED
          BY <2>1, <3>1, <4>1 DEF Bindings, Carries, Issuing
      <3>2. CASE ~Issuing(h)
        BY <2>1, <3>2 DEF Bindings, Carries, Issuing
      <3> QED
        BY <3>1, <3>2
    <2> QED
      BY <2>1, <2>2 DEF Bindings, AnsweredIsSaved
  <1>5. CASE Publish \/ OtherSave \/ UNCHANGED vars
    BY <1>5, <1>a DEF Publish, OtherSave, vars
  <1>6. CASE Crash
    <2>1. \A h \in Handlers : Carries(h)'
      BY <1>6 DEF Crash, Carries, Issuing, Idle
    <2> QED
      BY <1>6, <2>1 DEF Crash, Bindings, AnsweredIsSaved
  <1> QED
    BY <1>1, <1>2, <1>3, <1>4, <1>5, <1>6 DEF Next

LEMMA InitBindings == Init => Bindings
  BY DEF Init, Bindings, AnsweredIsSaved, Carries, Issuing, Idle, Live, NewRequest

\* Memory is never behind what is saved of a call's binding, what is saved is
\* never behind what a token names, and an issue in flight carries it.
THEOREM BindingsHold == Spec => []Bindings
  BY TypeCorrect, InitBindings, StepBindings, PTL DEF Spec

\* Whatever overlaps, fails, crashes and is republished, all the tokens
\* answered for one call name one contract version ...
THEOREM ContractIsPinned == Spec => []VersionPinned
  <1>1. Bindings => VersionPinned
    BY DEF Bindings, AnsweredIsSaved, VersionPinned
  <1> QED
    BY <1>1, TypeCorrect, InitBindings, StepBindings, PTL DEF Spec

\* ... and a restart would find the call each of them names bound to it.
THEOREM TokensSurvive == Spec => []AnsweredIsSaved
  <1>1. Bindings => AnsweredIsSaved
    BY DEF Bindings
  <1> QED
    BY <1>1, TypeCorrect, InitBindings, StepBindings, PTL DEF Spec

----------------------------------------------------------------------------
(* What a step does to the control of a call: who owns it, whether funds    *)
(* are held on it, what its execution state is.                             *)

\* The step is one of handler h, on call r alone.
OnlyOf(h, r) ==
    /\ \A q \in Calls : q # r => req'[q] = req[q]
    /\ \A g \in Handlers : g # h => act'[g] = act[g]

\* The owner of call r and the state of its billing stay as they are.
SameCaller(r) == req'[r].caller = req[r].caller
SameState(r) == req'[r].billing.state = req[r].billing.state

StartsIssue(h, r) ==
    /\ act'[h].op = "issue" /\ act'[h].tenant \in Callers /\ MayOwn(r, act'[h].tenant)
    /\ SameState(r)
    /\ \/ /\ act'[h].at = "save"
          /\ req'[r].caller = act'[h].tenant /\ req'[r].exec = "submitted"
       \/ /\ act'[h].at = "balance"
          /\ SameCaller(r) /\ req'[r].exec = req[r].exec

StartsMeta(h, r) ==
    /\ act'[h].op = "meta" /\ act'[h].at = "save"
    /\ SameState(r) /\ req'[r].exec = "submitted"
    /\ \E c \in Callers : MayOwn(r, c) /\ req'[r].caller = c

\* A release that awaits the store; only a close has changed the call before.
StartsRelease(h, r) ==
    /\ IsHeld(r) /\ act'[h].op \in Releases
    /\ act'[h].at = "refund" \/ (act'[h].at = "debit" /\ act'[h].op = "complete")
    /\ act'[h].op = "complete" => act'[h].tag = "COMPLETED"
    /\ SameCaller(r) /\ SameState(r)
    /\ req'[r].exec # req[r].exec => act'[h].op = "close"

\* An operation with nothing to release.  It may end or acknowledge the call.
StartsRecord(h, r) ==
    /\ act'[h].op \in Releases \cup {"ack"} /\ act'[h].at = "save"
    /\ SameCaller(r) /\ SameState(r)
    /\ req'[r].exec = "canceled" => req[r].exec = "canceled" \/ ~IsHeld(r)

LEMMA StartControl ==
    ASSUME TypeOK, NEW h \in Handlers, Start(h)
    PROVE  /\ act[h] = Idle /\ act'[h] # Idle /\ act'[h].call \in Calls
           /\ UNCHANGED <<saved, tokens>>
           /\ \E r \in Calls :
                 /\ OnlyOf(h, r) /\ act'[h].call = r /\ MayStart(h, act'[h].op, r)
                 /\ \/ StartsIssue(h, r) \/ StartsMeta(h, r)
                    \/ StartsRelease(h, r) \/ StartsRecord(h, r)
  <1> PICK r \in Calls :
              \/ \E c \in Callers, p \in Prices : IssueWithoutHold(h, r, c, p)
              \/ \E c \in Callers, p \in Prices : IssueStart(h, r, c, p)
              \/ \E u \in Prices : Report(h, r, "complete", "COMPLETED", u)
              \/ Report(h, r, "fail", "FAILED", 0)
              \/ \E a \in Attempts : Reconcile(h, r, a)
              \/ Expire(h, r)
              \/ Close(h, r)
              \/ Ack(h, r)
              \/ \E c \in Callers : DeliveryMeta(h, r, c)
    BY StartCases
  <1>a. /\ req \in [Calls -> Request] /\ req[r] \in Request
        /\ act \in [Handlers -> Activation \cup {Idle}]
    BY DEF TypeOK
  <1>b. ASSUME NEW at, NEW op, NEW tenant, NEW amount, NEW usage, NEW tag, NEW ver,
               at \in Awaits, Enter(h, at, op, r, tenant, amount, usage, tag, ver)
        PROVE  /\ act'[h] # Idle /\ act'[h].at = at /\ act'[h].op = op /\ act'[h].call = r
               /\ act'[h].tenant = tenant /\ act'[h].tag = tag
               /\ \A g \in Handlers : g # h => act'[g] = act[g]
    BY <1>a, <1>b DEF Enter, Idle, Awaits
  <1>c. ASSUME NEW request, Amend(r, request)
        PROVE  req'[r] = request /\ \A q \in Calls : q # r => req'[q] = req[q]
    BY <1>a, <1>c DEF Amend
  <1>d. ASSUME NEW op \in Releases \ {"close"}, NEW tag, AppendOnly(h, op, r, tag), MayStart(h, op, r)
        PROVE  OnlyOf(h, r) /\ act'[h].call = r /\ act'[h] # Idle /\ MayStart(h, act'[h].op, r)
               /\ StartsRecord(h, r)
    <2>1. /\ act'[h] # Idle /\ act'[h].at = "save" /\ act'[h].op = op /\ act'[h].call = r
          /\ \A g \in Handlers : g # h => act'[g] = act[g]
      BY <1>b, <1>d DEF AppendOnly, Awaits
    <2>2. /\ req'[r] = [req[r] EXCEPT !.seen = @ \cup {tag}, !.exec = ExecAfter(op, @)]
          /\ \A q \in Calls : q # r => req'[q] = req[q]
      BY <1>c, <1>d DEF AppendOnly
    <2>3. /\ req'[r].caller = req[r].caller /\ req'[r].billing = req[r].billing
          /\ req'[r].exec = ExecAfter(op, req[r].exec)
      BY <1>a, <2>2 DEF Request
    <2>4. req'[r].exec = "canceled" => req[r].exec = "canceled"
      BY <2>3 DEF ExecAfter
    <2> QED
      BY <1>d, <2>1, <2>2, <2>3, <2>4 DEF OnlyOf, StartsRecord, SameCaller, SameState
  <1>e. ASSUME NEW op \in Releases, NEW usage, NEW tag, AwaitRefund(h, op, r, usage, tag),
               MayStart(h, op, r), IsHeld(r), op = "complete" => tag = "COMPLETED",
               \A q \in Calls : q # r => req'[q] = req[q], SameCaller(r), SameState(r),
               req'[r].exec # req[r].exec => op = "close"
        PROVE  OnlyOf(h, r) /\ act'[h].call = r /\ act'[h] # Idle /\ MayStart(h, act'[h].op, r)
               /\ StartsRelease(h, r)
    <2>1. PICK at \in {"refund", "debit"} :
               /\ at = "debit" => op = "complete"
               /\ Enter(h, at, op, r, req[r].billing.tenant, req[r].billing.amount - usage, usage, tag, 0)
      BY <1>e DEF AwaitRefund
    <2>2. /\ act'[h] # Idle /\ act'[h].at = at /\ act'[h].op = op /\ act'[h].call = r
          /\ act'[h].tag = tag /\ \A g \in Handlers : g # h => act'[g] = act[g]
      BY <1>b, <2>1 DEF Awaits
    <2> QED
      BY <1>e, <2>1, <2>2 DEF OnlyOf, StartsRelease
  <1>f. MayStart(h, act'[h].op, r) => act[h] = Idle
    BY DEF MayStart
  <1>g. UNCHANGED <<saved, tokens>>
    BY DEF IssueWithoutHold, IssueStart, Report, Reconcile, Expire, Close, Ack, DeliveryMeta
  <1>1. CASE \E c \in Callers, p \in Prices : IssueWithoutHold(h, r, c, p)
    <2> PICK c \in Callers, p \in Prices : IssueWithoutHold(h, r, c, p)
      BY <1>1
    <2>1. /\ act'[h] # Idle /\ act'[h].at = "save" /\ act'[h].op = "issue" /\ act'[h].call = r
          /\ act'[h].tenant = c /\ \A g \in Handlers : g # h => act'[g] = act[g]
      <3>1. Enter(h, "save", "issue", r, c, 0, 0, "TASK_TOKEN_ISSUED", BoundVersion(r))
        BY DEF IssueWithoutHold
      <3> QED
        BY <1>b, <3>1 DEF Awaits
    <2>2. /\ req'[r] = [req[r] EXCEPT !.bound = BoundVersion(r), !.caller = c, !.exec = "submitted"]
          /\ \A q \in Calls : q # r => req'[q] = req[q]
      BY <1>c DEF IssueWithoutHold
    <2>3. req'[r].caller = c /\ req'[r].billing = req[r].billing /\ req'[r].exec = "submitted"
      BY <1>a, <2>2 DEF Request
    <2>4. MayOwn(r, c) /\ MayStart(h, "issue", r)
      BY DEF IssueWithoutHold
    <2> QED
      BY <1>f, <1>g, <2>1, <2>2, <2>3, <2>4 DEF OnlyOf, StartsIssue, SameState
  <1>2. CASE \E c \in Callers, p \in Prices : IssueStart(h, r, c, p)
    <2> PICK c \in Callers, p \in Prices : IssueStart(h, r, c, p)
      BY <1>2
    <2>1. /\ act'[h] # Idle /\ act'[h].at = "balance" /\ act'[h].op = "issue" /\ act'[h].call = r
          /\ act'[h].tenant = c /\ \A g \in Handlers : g # h => act'[g] = act[g]
      BY <1>b DEF IssueStart, Awaits
    <2>2. /\ req'[r] = [req[r] EXCEPT !.bound = BoundVersion(r)]
          /\ \A q \in Calls : q # r => req'[q] = req[q]
      BY <1>c DEF IssueStart
    <2>3. req'[r].caller = req[r].caller /\ req'[r].billing = req[r].billing
          /\ req'[r].exec = req[r].exec
      BY <1>a, <2>2 DEF Request
    <2>4. MayOwn(r, c) /\ MayStart(h, "issue", r)
      BY DEF IssueStart
    <2> QED
      BY <1>f, <1>g, <2>1, <2>2, <2>3, <2>4 DEF OnlyOf, StartsIssue, SameState, SameCaller
  <1>3. CASE \/ \E u \in Prices : Report(h, r, "complete", "COMPLETED", u)
             \/ Report(h, r, "fail", "FAILED", 0)
    <2>1. PICK op \in {"complete", "fail"}, tag \in {"COMPLETED", "FAILED"}, u \in Prices \cup {0} :
               Report(h, r, op, tag, u) /\ (op = "complete" => tag = "COMPLETED")
      BY <1>3
    <2>2. op \in Releases \ {"close"} /\ MayStart(h, op, r)
      BY <2>1 DEF Releases, Report
    <2>3. CASE IsHeld(r)
      <3>1. UNCHANGED req /\ AwaitRefund(h, op, r, u, tag)
        BY <2>1, <2>3 DEF Report
      <3> QED
        BY <1>e, <1>f, <1>g, <2>1, <2>2, <2>3, <3>1 DEF SameCaller, SameState
    <2>4. CASE ~IsHeld(r)
      BY <1>d, <1>f, <1>g, <2>1, <2>2, <2>4 DEF Report
    <2> QED
      BY <2>3, <2>4
  <1>4. CASE \E a \in Attempts : Reconcile(h, r, a)
    <2> PICK a \in Attempts : Reconcile(h, r, a)
      BY <1>4
    <2>1. "reconcile" \in Releases \ {"close"} /\ MayStart(h, "reconcile", r)
      BY DEF Releases, Reconcile
    <2>2. CASE IsHeld(r) /\ UNCHANGED req /\ AwaitRefund(h, "reconcile", r, 0, a)
      BY <1>e, <1>f, <1>g, <2>1, <2>2 DEF SameCaller, SameState
    <2>3. CASE AppendOnly(h, "reconcile", r, a)
      BY <1>d, <1>f, <1>g, <2>1, <2>3
    <2> QED
      BY <2>2, <2>3 DEF Reconcile
  <1>5. CASE Expire(h, r)
    <2>1. "expire" \in Releases \ {"close"} /\ MayStart(h, "expire", r)
      BY <1>5 DEF Releases, Expire
    <2>2. IsHeld(r) /\ UNCHANGED req /\ AwaitRefund(h, "expire", r, 0, "EXPIRED")
      BY <1>5 DEF Expire
    <2> QED
      BY <1>e, <1>f, <1>g, <2>1, <2>2 DEF SameCaller, SameState
  <1>6. CASE Close(h, r)
    <2>1. "close" \in Releases /\ MayStart(h, "close", r)
      BY <1>6 DEF Releases, Close
    <2>2. /\ req'[r] = [req[r] EXCEPT !.exec = "canceled", !.seen = @ \cup {"CANCELED"}]
          /\ \A q \in Calls : q # r => req'[q] = req[q]
      BY <1>6, <1>c DEF Close
    <2>3. req'[r].caller = req[r].caller /\ req'[r].billing = req[r].billing
      BY <1>a, <2>2 DEF Request
    <2>4. CASE IsHeld(r)
      <3>1. AwaitRefund(h, "close", r, 0, "CANCELED")
        BY <1>6, <2>4 DEF Close
      <3> QED
        BY <1>e, <1>f, <1>g, <2>1, <2>2, <2>3, <2>4, <3>1 DEF SameCaller, SameState
    <2>5. CASE ~IsHeld(r)
      <3>1. Enter(h, "save", "close", r, NoCaller, 0, 0, "CANCELED", 0)
        BY <1>6, <2>5 DEF Close
      <3>2. /\ act'[h] # Idle /\ act'[h].at = "save" /\ act'[h].op = "close" /\ act'[h].call = r
            /\ \A g \in Handlers : g # h => act'[g] = act[g]
        BY <1>b, <3>1 DEF Awaits
      <3> QED
        BY <1>f, <1>g, <2>1, <2>2, <2>3, <2>5, <3>2 DEF OnlyOf, StartsRecord, SameCaller, SameState
    <2> QED
      BY <2>4, <2>5
  <1>7. CASE Ack(h, r)
    <2>1. /\ act'[h] # Idle /\ act'[h].at = "save" /\ act'[h].op = "ack" /\ act'[h].call = r
          /\ \A g \in Handlers : g # h => act'[g] = act[g]
      BY <1>7, <1>b DEF Ack, Awaits
    <2>2. /\ req'[r] = [req[r] EXCEPT !.seen = @ \cup {"ACKED"}, !.exec = "executing"]
          /\ \A q \in Calls : q # r => req'[q] = req[q]
      BY <1>7, <1>c DEF Ack
    <2>3. req'[r].caller = req[r].caller /\ req'[r].billing = req[r].billing
          /\ req'[r].exec = "executing"
      BY <1>a, <2>2 DEF Request
    <2>4. MayStart(h, "ack", r)
      BY <1>7 DEF Ack
    <2> QED
      BY <1>f, <1>g, <2>1, <2>2, <2>3, <2>4 DEF OnlyOf, StartsRecord, SameCaller, SameState
  <1>8. CASE \E c \in Callers : DeliveryMeta(h, r, c)
    <2> PICK c \in Callers : DeliveryMeta(h, r, c)
      BY <1>8
    <2>1. /\ act'[h] # Idle /\ act'[h].at = "save" /\ act'[h].op = "meta" /\ act'[h].call = r
          /\ \A g \in Handlers : g # h => act'[g] = act[g]
      <3>1. Enter(h, "save", "meta", r, c, 0, 0, "DELIVERY_META_ISSUED", 0)
        BY DEF DeliveryMeta
      <3> QED
        BY <1>b, <3>1 DEF Awaits
    <2>2. /\ req'[r] = [req[r] EXCEPT !.caller = c, !.exec = "submitted"]
          /\ \A q \in Calls : q # r => req'[q] = req[q]
      BY <1>c DEF DeliveryMeta
    <2>3. req'[r].caller = c /\ req'[r].billing = req[r].billing /\ req'[r].exec = "submitted"
      BY <1>a, <2>2 DEF Request
    <2>4. MayOwn(r, c) /\ MayStart(h, "meta", r)
      BY DEF DeliveryMeta
    <2> QED
      BY <1>f, <1>g, <2>1, <2>2, <2>3, <2>4 DEF OnlyOf, StartsMeta, SameState
  <1> QED
    BY <1>1, <1>2, <1>3, <1>4, <1>5, <1>6, <1>7, <1>8

\* What an activation keeps while it goes on.
SameTask(h) ==
    /\ act'[h] # Idle /\ act'[h].op = act[h].op /\ act'[h].call = act[h].call
    /\ act'[h].tenant = act[h].tenant /\ act'[h].tag = act[h].tag

\* A step from one await of handler h to the next, or to its end.
Moves(h, from, to) == act[h].at = from /\ SameTask(h) /\ act'[h].at = to

Mints(h, r) ==
    /\ Moves(h, "held", "save")
    /\ req'[r].billing.state = "held" /\ req'[r].caller = act[h].tenant
    /\ req'[r].exec = "submitted"

Records(h, r) ==
    /\ Moves(h, "moved", "save")
    /\ req'[r].billing.state = Outcome(act[h].op) /\ SameCaller(r)
    /\ req'[r].exec = ExecAfter(act[h].op, req[r].exec)
    /\ req'[r].seen = req[r].seen \cup {act[h].tag}

\* A step that changes no request object and answers no token.
Awaiting(h) ==
    /\ UNCHANGED <<req, saved, tokens>>
    /\ \/ act'[h] = Idle /\ act[h].at \in {"balance", "hold"}
       \/ Moves(h, "balance", "hold") \/ Moves(h, "hold", "held") \/ Moves(h, "debit", "moved")
       \/ Moves(h, "refund", IF act[h].op = "complete" THEN "debit" ELSE "moved")

LEMMA SameTaskOf ==
    ASSUME TypeOK, NEW h \in Handlers, act[h] # Idle, NEW at \in Awaits, Proceed(h, at)
    PROVE  /\ SameTask(h) /\ act'[h].at = at
           /\ \A g \in Handlers : g # h => act'[g] = act[g]
  <1>1. act[h] \in Activation
    BY Entered
  <1>2. act'[h] = [act[h] EXCEPT !.at = at] /\ \A g \in Handlers : g # h => act'[g] = act[g]
    BY StepOf
  <1>3. /\ act'[h].at = at /\ act'[h].op = act[h].op /\ act'[h].call = act[h].call
        /\ act'[h].tenant = act[h].tenant /\ act'[h].tag = act[h].tag
    BY <1>1, <1>2 DEF Activation
  <1> QED
    BY <1>2, <1>3 DEF SameTask, Idle, Awaits

LEMMA ContinueControl ==
    ASSUME TypeOK, NEW h \in Handlers, Continue(h)
    PROVE  /\ act[h] # Idle /\ act[h].call \in Calls
           /\ OnlyOf(h, act[h].call)
           /\ \/ Awaiting(h)
              \/ Mints(h, act[h].call) /\ UNCHANGED <<saved, tokens>>
              \/ Records(h, act[h].call) /\ UNCHANGED <<saved, tokens>>
              \/ Save(h) /\ act'[h] = Idle
  <1>a. act[h] # Idle
    BY DEF Continue, CheckBalance, StoreHold, Mint, StoreRefund, StoreDebit, Resume, Save, Idle
  <1> DEFINE r == act[h].call
  <1>b. /\ r \in Calls /\ req \in [Calls -> Request] /\ req[r] \in Request
        /\ req[r].billing \in Billing
    BY <1>a, Entered DEF TypeOK, Request
  <1>c. ASSUME NEW request, Amend(r, request)
        PROVE  req'[r] = request /\ \A q \in Calls : q # r => req'[q] = req[q]
    BY <1>b, <1>c DEF Amend
  <1> HIDE DEF r
  <1>1. CASE CheckBalance(h)
    <2>1. Proceed(h, "hold") \/ Leave(h)
      BY <1>1 DEF CheckBalance
    <2>2. CASE Proceed(h, "hold")
      <3>1. SameTask(h) /\ act'[h].at = "hold" /\ \A g \in Handlers : g # h => act'[g] = act[g]
        BY <1>a, <2>2, SameTaskOf DEF Awaits
      <3> QED
        BY <1>1, <1>a, <1>b, <3>1 DEF r, CheckBalance, OnlyOf, Awaiting, Moves
    <2>3. CASE Leave(h)
      <3>1. act'[h] = Idle /\ \A g \in Handlers : g # h => act'[g] = act[g]
        BY <2>3, StepOf
      <3> QED
        BY <1>1, <1>a, <1>b, <3>1 DEF r, CheckBalance, OnlyOf, Awaiting
    <2> QED
      BY <2>1, <2>2, <2>3
  <1>2. CASE StoreHold(h)
    <2>1. Proceed(h, "held") \/ Leave(h)
      BY <1>2 DEF StoreHold
    <2>2. CASE Proceed(h, "held")
      <3>1. SameTask(h) /\ act'[h].at = "held" /\ \A g \in Handlers : g # h => act'[g] = act[g]
        BY <1>a, <2>2, SameTaskOf DEF Awaits
      <3> QED
        BY <1>2, <1>a, <1>b, <3>1 DEF r, StoreHold, OnlyOf, Awaiting, Moves
    <2>3. CASE Leave(h)
      <3>1. act'[h] = Idle /\ \A g \in Handlers : g # h => act'[g] = act[g]
        BY <2>3, StepOf
      <3> QED
        BY <1>2, <1>a, <1>b, <3>1 DEF r, StoreHold, OnlyOf, Awaiting
    <2> QED
      BY <2>1, <2>2, <2>3
  <1>3. CASE Mint(h)
    <2>1. SameTask(h) /\ act'[h].at = "save" /\ \A g \in Handlers : g # h => act'[g] = act[g]
      BY <1>3, <1>a, SameTaskOf DEF Mint, Awaits
    <2>2. /\ req'[r] = [req[r] EXCEPT
                           !.billing = [state |-> "held", tenant |-> act[h].tenant,
                                        amount |-> act[h].amount, lapsed |-> FALSE],
                           !.caller = act[h].tenant,
                           !.exec = "submitted"]
          /\ \A q \in Calls : q # r => req'[q] = req[q]
      BY <1>3, <1>c DEF Mint, r
    <2>3. /\ req'[r].billing.state = "held" /\ req'[r].caller = act[h].tenant
          /\ req'[r].exec = "submitted"
      BY <1>b, <2>2 DEF Request
    <2> QED
      BY <1>3, <1>a, <1>b, <2>1, <2>2, <2>3 DEF r, Mint, OnlyOf, Mints, Moves
  <1>4. CASE StoreRefund(h)
    <2>1. /\ SameTask(h) /\ act'[h].at = (IF act[h].op = "complete" THEN "debit" ELSE "moved")
          /\ \A g \in Handlers : g # h => act'[g] = act[g]
      BY <1>4, <1>a, SameTaskOf DEF StoreRefund, Awaits
    <2> QED
      BY <1>4, <1>a, <1>b, <2>1 DEF r, StoreRefund, OnlyOf, Awaiting, Moves
  <1>5. CASE StoreDebit(h)
    <2>1. SameTask(h) /\ act'[h].at = "moved" /\ \A g \in Handlers : g # h => act'[g] = act[g]
      BY <1>5, <1>a, SameTaskOf DEF StoreDebit, Awaits
    <2> QED
      BY <1>5, <1>a, <1>b, <2>1 DEF r, StoreDebit, OnlyOf, Awaiting, Moves
  <1>6. CASE Resume(h)
    <2>1. SameTask(h) /\ act'[h].at = "save" /\ \A g \in Handlers : g # h => act'[g] = act[g]
      BY <1>6, <1>a, SameTaskOf DEF Resume, Awaits
    <2>2. /\ req'[r] = [req[r] EXCEPT
                    !.billing = [req[r].billing EXCEPT !.state = Outcome(act[h].op)],
                    !.charged = [req[r].charged EXCEPT ![act[h].tenant] = @ + act[h].usage],
                    !.seen = @ \cup {act[h].tag},
                    !.exec = ExecAfter(act[h].op, @)]
          /\ \A q \in Calls : q # r => req'[q] = req[q]
      BY <1>6, <1>c DEF Resume, r
    <2>3. /\ req'[r].billing = [req[r].billing EXCEPT !.state = Outcome(act[h].op)]
          /\ req'[r].caller = req[r].caller
          /\ req'[r].exec = ExecAfter(act[h].op, req[r].exec)
          /\ req'[r].seen = req[r].seen \cup {act[h].tag}
      BY <1>b, <2>2 DEF Request
    <2>4. req'[r].billing.state = Outcome(act[h].op)
      BY <1>b, <2>3 DEF Billing
    <2> QED
      BY <1>6, <1>a, <1>b, <2>1, <2>2, <2>3, <2>4
         DEF r, Resume, OnlyOf, Records, Moves, SameCaller
  <1>7. CASE Save(h)
    <2>1. act'[h] = Idle /\ \A g \in Handlers : g # h => act'[g] = act[g]
      BY <1>7, StepOf DEF Save
    <2> QED
      BY <1>7, <1>a, <1>b, <2>1 DEF r, Save, OnlyOf
  <1> QED
    BY <1>1, <1>2, <1>3, <1>4, <1>5, <1>6, <1>7 DEF Continue

LEMMA FailControl ==
    ASSUME TypeOK, NEW h \in Handlers, StoreFails(h)
    PROVE  /\ act[h] # Idle /\ act[h].at \in StoreFaults
           /\ UNCHANGED <<req, saved, tokens>>
           /\ \A g \in Handlers : g # h => act'[g] = act[g]
           /\ \/ act'[h] = Idle
              \/ Moves(h, "refund", "save") /\ act[h].op = "close"
  <1>1. act[h] # Idle /\ act[h].at \in StoreFaults
    BY CallBillingAssumption DEF CallBillingAssumption, StoreFails, Idle
  <1>2. CASE Leave(h)
    BY <1>1, <1>2, StepOf DEF StoreFails
  <1>3. CASE act[h].op = "close" /\ act[h].at = "refund" /\ Proceed(h, "save")
    <2>1. SameTask(h) /\ act'[h].at = "save" /\ \A g \in Handlers : g # h => act'[g] = act[g]
      BY <1>1, <1>3, SameTaskOf DEF Awaits
    <2> QED
      BY <1>1, <1>3, <2>1 DEF StoreFails, Moves
  <1> QED
    BY <1>2, <1>3 DEF StoreFails

\* The steps of the environment leave the control of every call as it is.
LEMMA StillControl ==
    ASSUME TypeOK, \/ \E r \in Calls : Lapse(r)
                   \/ Publish \/ OtherSave \/ UNCHANGED vars
    PROVE  /\ UNCHANGED <<act, tokens>> /\ saved' \in {saved, Live}
           /\ \A r \in Calls : /\ SameCaller(r) /\ SameState(r)
                               /\ req'[r].exec = req[r].exec /\ req'[r].seen = req[r].seen
  <1>1. CASE \E r \in Calls : Lapse(r)
    <2> PICK r \in Calls : Lapse(r)
      BY <1>1
    <2>1. req \in [Calls -> Request] /\ req[r] \in Request /\ req[r].billing \in Billing
      BY DEF TypeOK, Request
    <2>2. /\ req'[r] = [req[r] EXCEPT !.billing = [req[r].billing EXCEPT !.lapsed = TRUE]]
          /\ \A q \in Calls : q # r => req'[q] = req[q]
      BY <2>1 DEF Lapse, Amend
    <2>3. /\ req'[r].billing = [req[r].billing EXCEPT !.lapsed = TRUE]
          /\ req'[r].caller = req[r].caller /\ req'[r].exec = req[r].exec
          /\ req'[r].seen = req[r].seen
      BY <2>1, <2>2 DEF Request
    <2>4. req'[r].billing.state = req[r].billing.state
      BY <2>1, <2>3 DEF Billing
    <2>5. UNCHANGED <<act, tokens, saved>>
      BY DEF Lapse
    <2> QED
      BY <2>2, <2>3, <2>4, <2>5 DEF SameCaller, SameState
  <1>2. CASE Publish \/ OtherSave \/ UNCHANGED vars
    BY <1>2 DEF Publish, OtherSave, vars, SameCaller, SameState
  <1> QED
    BY <1>1, <1>2

----------------------------------------------------------------------------
(* One owner *)

\* The inductive strengthening of OneOwner: the request object of a call, live
\* and saved, names the caller every token was answered to, and so does every
\* issue in flight, as soon as there is a token or a minted one on its way.
Ownership ==
    /\ \A t \in tokens : /\ t.caller \in Callers
                         /\ req[t.call].caller = t.caller
                         /\ saved.req[t.call].caller = t.caller
    /\ \A h \in Handlers : Issuing(h) =>
          /\ act[h].at = "save" => req[act[h].call].caller = act[h].tenant
          /\ \A t \in tokens : t.call = act[h].call => t.caller = act[h].tenant
          /\ \A g \in Handlers :
                Issuing(g) /\ act[g].call = act[h].call => act[g].tenant = act[h].tenant

\* A step that changes no owner and brings no issue nearer to its token.
LEMMA KeepsOwnership ==
    ASSUME TypeOK, Ownership, UNCHANGED tokens, saved' \in {saved, Live},
           \A r \in Calls : SameCaller(r),
           \A g \in Handlers : act'[g] # act[g] =>
               \/ act'[g] = Idle \/ act'[g].op # "issue"
               \/ SameTask(g) /\ act[g] # Idle /\ act'[g].at # "save"
    PROVE  Ownership'
  <1>1. ASSUME NEW g \in Handlers, Issuing(g)'
        PROVE  /\ Issuing(g) /\ act'[g].call = act[g].call /\ act'[g].tenant = act[g].tenant
               /\ act'[g].at = "save" => act[g].at = "save"
               /\ act[g].call \in Calls
    <2>1. Issuing(g) /\ act'[g].call = act[g].call /\ act'[g].tenant = act[g].tenant
          /\ (act'[g].at = "save" => act[g].at = "save")
      BY <1>1 DEF Issuing, SameTask
    <2> QED
      BY <2>1, Entered DEF Issuing
  <1>2. \A t \in tokens : t.call \in Calls
    BY DEF TypeOK, Token
  <1> QED
    BY <1>1, <1>2 DEF Ownership, SameCaller, Live

LEMMA StartOwnership ==
    ASSUME TypeOK, Bindings, Ownership, {"issue"} \notin Overlap, NEW h \in Handlers, Start(h)
    PROVE  Ownership'
  <1>a. act[h] = Idle /\ act'[h] # Idle /\ UNCHANGED <<saved, tokens>>
    BY StartControl
  <1> PICK r \in Calls :
            /\ OnlyOf(h, r) /\ act'[h].call = r /\ MayStart(h, act'[h].op, r)
            /\ \/ StartsIssue(h, r) \/ StartsMeta(h, r)
               \/ StartsRelease(h, r) \/ StartsRecord(h, r)
    BY StartControl
  <1>b. NoCaller \notin Callers
    BY CallBillingAssumption DEF CallBillingAssumption
  <1>c. \A t \in tokens : t.call \in Calls
    BY DEF TypeOK, Token
  <1>d. ASSUME NEW g \in Handlers, Issuing(g)
        PROVE  act[g].call \in Calls /\ act[g].tenant \in Callers /\ g # h
               /\ act'[g] = act[g] /\ (act[g].at # "save" => Busy(g))
    <2>1. act[g].call \in Calls /\ act[g].at # "idle"
      BY <1>d, Entered DEF Issuing, Activation, Awaits
    <2> QED
      BY <1>d, <1>a, <2>1 DEF Issuing, Bindings, Carries, OnlyOf, Busy
  <1>e. ASSUME NEW g \in Handlers, Issuing(g)', g # h PROVE Issuing(g)
    BY <1>e DEF Issuing, OnlyOf
  \* Whoever may own the call is named by its tokens and by those on their way.
  <1>f. ASSUME NEW c \in Callers, MayOwn(r, c)
        PROVE  /\ \A t \in tokens : t.call = r => t.caller = c
               /\ \A g \in Handlers : Issuing(g) /\ act[g].call = r /\ act[g].at = "save"
                                         => act[g].tenant = c
    BY <1>b, <1>d, <1>f DEF Ownership, MayOwn
  <1>1. CASE StartsIssue(h, r)
    <2> DEFINE c == act'[h].tenant
    <2>1. c \in Callers /\ MayOwn(r, c) /\ act'[h].op = "issue"
      BY <1>1 DEF StartsIssue
    <2>2. \A g \in Handlers : Issuing(g) /\ act[g].call = r => act[g].at = "save"
      <3> SUFFICES ASSUME NEW g \in Handlers, Issuing(g), act[g].call = r, act[g].at # "save"
                   PROVE  FALSE
        OBVIOUS
      <3>1. Busy(g) /\ act[g].op = "issue"
        BY <1>d DEF Issuing
      <3>2. {act[g].op, "issue"} \in Overlap
        BY <2>1, <3>1 DEF MayStart
      <3>3. {act[g].op, "issue"} = {"issue"}
        BY <3>1
      <3> QED
        BY <3>2, <3>3
    <2>3. /\ \A t \in tokens : t.call = r => t.caller = c
          /\ \A g \in Handlers : Issuing(g) /\ act[g].call = r => act[g].tenant = c
      BY <1>f, <2>1, <2>2
    <2>4. /\ req'[r].caller \in {req[r].caller, c}
          /\ act'[h].at = "save" => req'[r].caller = c
      BY <1>1 DEF StartsIssue, SameCaller
    <2>5. \A t \in tokens : req'[t.call].caller = t.caller
      BY <1>c, <2>3, <2>4 DEF Ownership, OnlyOf
    <2> HIDE DEF c
    <2>6. ASSUME NEW g \in Handlers, Issuing(g)'
          PROVE  /\ act'[g].at = "save" => req'[act'[g].call].caller = act'[g].tenant
                 /\ \A t \in tokens : t.call = act'[g].call => t.caller = act'[g].tenant
                 /\ act'[g].call = r => act'[g].tenant = c
      <3>1. CASE g = h
        BY <2>3, <2>4, <3>1 DEF c
      <3>2. CASE g # h
        <4>1. Issuing(g) /\ act'[g] = act[g] /\ act[g].call \in Calls
          BY <1>d, <1>e, <2>6, <3>2
        <4>2. act[g].at = "save" => req'[act[g].call].caller = act[g].tenant
          <5>1. CASE act[g].call = r
            BY <2>3, <2>4, <4>1, <5>1 DEF Ownership
          <5>2. CASE act[g].call # r
            BY <4>1, <5>2 DEF Ownership, OnlyOf
          <5> QED
            BY <5>1, <5>2
        <4> QED
          BY <2>3, <4>1, <4>2 DEF Ownership
      <3> QED
        BY <3>1, <3>2
    <2>7. ASSUME NEW f \in Handlers, NEW g \in Handlers, Issuing(f)', Issuing(g)',
                 act'[g].call = act'[f].call
          PROVE  act'[g].tenant = act'[f].tenant
      <3>1. CASE act'[f].call = r
        BY <2>6, <2>7, <3>1
      <3>2. CASE act'[f].call # r
        <4>1. f # h /\ g # h
          BY <2>7, <3>2
        <4> QED
          BY <1>d, <1>e, <2>7, <4>1 DEF Ownership
      <3> QED
        BY <3>1, <3>2
    <2> QED
      BY <1>a, <2>5, <2>6, <2>7 DEF Ownership
  <1>2. CASE StartsMeta(h, r)
    <2>1. PICK c \in Callers : MayOwn(r, c) /\ req'[r].caller = c
      BY <1>2 DEF StartsMeta
    <2>2. ASSUME NEW g \in Handlers, Issuing(g)' PROVE Issuing(g) /\ act'[g] = act[g]
      BY <1>2, <1>d, <1>e, <2>2 DEF StartsMeta, Issuing
    <2>3. \A t \in tokens : req'[t.call].caller = t.caller
      BY <1>c, <1>f, <2>1 DEF Ownership, OnlyOf
    <2>4. ASSUME NEW g \in Handlers, Issuing(g), act[g].at = "save"
          PROVE  req'[act[g].call].caller = act[g].tenant
      <3>1. CASE act[g].call = r
        BY <1>f, <2>1, <2>4, <3>1
      <3>2. CASE act[g].call # r
        BY <1>d, <2>4, <3>2 DEF Ownership, OnlyOf
      <3> QED
        BY <3>1, <3>2
    <2> QED
      BY <1>a, <2>2, <2>3, <2>4 DEF Ownership
  <1>3. CASE StartsRelease(h, r) \/ StartsRecord(h, r)
    <2>1. act'[h].op # "issue" /\ \A q \in Calls : SameCaller(q)
      BY <1>3 DEF StartsRelease, StartsRecord, Releases, OnlyOf, SameCaller
    <2> QED
      BY <1>a, <2>1, KeepsOwnership DEF OnlyOf
  <1> QED
    BY <1>1, <1>2, <1>3

LEMMA ContinueOwnership ==
    ASSUME TypeOK, Bindings, Ownership, NEW h \in Handlers, Continue(h)
    PROVE  Ownership'
  <1> DEFINE r == act[h].call
  <1>a. act[h] # Idle /\ r \in Calls /\ OnlyOf(h, r)
    BY ContinueControl
  <1>b. \A t \in tokens : t.call \in Calls
    BY DEF TypeOK, Token
  <1>c. ASSUME NEW g \in Handlers, Issuing(g) PROVE act[g].call \in Calls
    BY <1>c, Entered DEF Issuing
  <1> HIDE DEF r
  <1>1. CASE Awaiting(h)
    <2>1. \/ act'[h] = Idle
          \/ SameTask(h) /\ act'[h].at # "save"
      BY <1>1 DEF Awaiting, Moves
    <2> QED
      BY <1>1, <1>a, <2>1, KeepsOwnership DEF Awaiting, OnlyOf, SameCaller
  <1>2. CASE Mints(h, r) /\ UNCHANGED <<saved, tokens>>
    <2>1. /\ SameTask(h) /\ act[h].at = "held" /\ act'[h].at = "save"
          /\ req'[r].caller = act[h].tenant
      BY <1>2 DEF Mints, Moves
    <2>2. Issuing(h)
      BY <2>1 DEF Bindings, Carries
    <2>3. /\ \A t \in tokens : t.call = r => t.caller = act[h].tenant
          /\ \A g \in Handlers : Issuing(g) /\ act[g].call = r => act[g].tenant = act[h].tenant
      BY <2>2 DEF Ownership, r
    <2>4. ASSUME NEW g \in Handlers, Issuing(g)'
          PROVE  Issuing(g) /\ act'[g].call = act[g].call /\ act'[g].tenant = act[g].tenant
                 /\ (act'[g].at = "save" => g = h \/ act[g].at = "save")
      BY <1>a, <2>1, <2>2, <2>4 DEF OnlyOf, SameTask, Issuing
    <2>5. \A t \in tokens : req'[t.call].caller = t.caller
      BY <1>a, <1>b, <2>1, <2>3 DEF Ownership, OnlyOf
    <2>6. ASSUME NEW g \in Handlers, Issuing(g), g = h \/ act[g].at = "save"
          PROVE  req'[act[g].call].caller = act[g].tenant
      <3>1. CASE act[g].call = r
        BY <2>1, <2>3, <2>6, <3>1
      <3>2. CASE act[g].call # r
        BY <1>a, <1>c, <2>6, <3>2 DEF Ownership, OnlyOf, r
      <3> QED
        BY <3>1, <3>2
    <2> QED
      BY <1>2, <2>4, <2>5, <2>6 DEF Ownership
  <1>3. CASE Records(h, r) /\ UNCHANGED <<saved, tokens>>
    <2>1. act'[h].op # "issue"
      BY <1>3, <1>a DEF Records, Moves, SameTask, Bindings, Carries, Issuing
    <2>2. \A q \in Calls : SameCaller(q)
      BY <1>3, <1>a DEF Records, OnlyOf, SameCaller
    <2> QED
      BY <1>3, <1>a, <2>1, <2>2, KeepsOwnership DEF OnlyOf
  <1>4. CASE Save(h) /\ act'[h] = Idle
    <2>1. UNCHANGED req /\ saved'.req = req
      BY <1>4 DEF Save, Live
    <2>2. ASSUME NEW g \in Handlers, Issuing(g)'
          PROVE  Issuing(g) /\ act'[g] = act[g]
      BY <1>4, <1>a, <2>2 DEF OnlyOf, Issuing
    <2>3. CASE act[h].op = "issue"
      <3>1. Issuing(h) /\ act[h].at = "save"
        BY <1>4, <1>a, <2>3 DEF Save, Issuing
      <3>2. act[h].tenant \in Callers /\ req[r].caller = act[h].tenant
        BY <3>1 DEF Bindings, Carries, Ownership, r
      <3>3. ASSUME NEW t \in tokens', t \notin tokens
            PROVE  t.call = r /\ t.caller = act[h].tenant
        BY <1>4, <2>3, <3>3 DEF Save, r
      <3>4. \A t \in tokens' : t.caller \in Callers /\ req[t.call].caller = t.caller
        BY <3>2, <3>3 DEF Ownership
      <3>5. ASSUME NEW g \in Handlers, Issuing(g), NEW t \in tokens', t.call = act[g].call
            PROVE  t.caller = act[g].tenant
        BY <3>1, <3>3, <3>5 DEF Ownership, r
      <3> QED
        BY <2>1, <2>2, <3>4, <3>5 DEF Ownership
    <2>4. CASE act[h].op # "issue"
      <3>1. UNCHANGED tokens
        BY <1>4, <2>4 DEF Save
      <3> QED
        BY <2>1, <2>2, <3>1 DEF Ownership
    <2> QED
      BY <2>3, <2>4
  <1> QED
    BY <1>1, <1>2, <1>3, <1>4, ContinueControl DEF r

LEMMA StepOwnership ==
    ASSUME {"issue"} \notin Overlap
    PROVE  TypeOK /\ Bindings /\ Ownership /\ [Next]_vars => Ownership'
  <1> SUFFICES ASSUME TypeOK, Bindings, Ownership, [Next]_vars PROVE Ownership'
    OBVIOUS
  <1>1. CASE \E h \in Handlers : Start(h)
    BY <1>1, StartOwnership
  <1>2. CASE \E h \in Handlers : Continue(h)
    BY <1>2, ContinueOwnership
  <1>3. CASE \E h \in Handlers : StoreFails(h)
    <2> PICK h \in Handlers : StoreFails(h)
      BY <1>3
    <2>1. act'[h] = Idle \/ act'[h].op # "issue"
      BY FailControl DEF Moves, SameTask
    <2> QED
      BY <2>1, FailControl, KeepsOwnership DEF SameCaller
  <1>4. CASE (\E r \in Calls : Lapse(r)) \/ Publish \/ OtherSave \/ UNCHANGED vars
    BY <1>4, StillControl, KeepsOwnership
  <1>5. CASE Crash
    BY <1>5 DEF Crash, Ownership, Issuing, Idle
  <1> QED
    BY <1>1, <1>2, <1>3, <1>4, <1>5 DEF Next

LEMMA InitOwnership == Init => Ownership
  BY DEF Init, Ownership, Issuing, Idle

\* When two issues on one call do not overlap, all the tokens answered for a
\* call go to one caller, whatever else overlaps them (delivery metadata binds
\* a caller as well), whichever store call fails and wherever a crash falls.
THEOREM TokensHaveOneOwner ==
    ASSUME {"issue"} \notin Overlap
    PROVE  Spec => []OneOwner
  <1>1. Ownership => OneOwner
    BY DEF Ownership, OneOwner
  <1> QED
    BY <1>1, TypeCorrect, BindingsHold, InitOwnership, StepOwnership, PTL DEF Spec

----------------------------------------------------------------------------
(* Closed calls, settlements *)

\* Handler h is about to give back the hold of call r that an operator closed.
Refunding(h, r) ==
    act[h].at \in {"refund", "moved"} /\ act[h].op = "close" /\ act[h].call = r

\* The inductive strengthening of ClosedHoldsNothing: funds held on a closed
\* call are on their way back, and it is the close itself that returns them.
CloseRefunds ==
    \A r \in Calls :
        req[r].exec = "canceled" /\ IsHeld(r) => \E h \in Handlers : Refunding(h, r)

\* A step that changes the control of at most one call and the activation of
\* at most one handler keeps every other refund on its way.
LEMMA KeepsRefunds ==
    ASSUME TypeOK, CloseRefunds, NEW h \in Handlers,
           \A g \in Handlers : g # h => act'[g] = act[g],
           \A q \in Calls : Refunding(h, q) =>
               \/ Refunding(h, q)'
               \/ ~(req'[q].exec = "canceled" /\ IsHeld(q)'),
           \A q \in Calls : req'[q].exec = "canceled" /\ IsHeld(q)' =>
               (req[q].exec = "canceled" /\ IsHeld(q)) \/ Refunding(h, q)'
    PROVE  CloseRefunds'
  <1> SUFFICES ASSUME NEW q \in Calls, req'[q].exec = "canceled", IsHeld(q)'
               PROVE  \E g \in Handlers : Refunding(g, q)'
    BY DEF CloseRefunds
  <1>1. CASE Refunding(h, q)'
    BY <1>1
  <1>2. CASE req[q].exec = "canceled" /\ IsHeld(q)
    <2> PICK g \in Handlers : Refunding(g, q)
      BY <1>2 DEF CloseRefunds
    <2>1. CASE g = h
      BY <2>1
    <2>2. CASE g # h
      BY <2>2 DEF Refunding
    <2> QED
      BY <2>1, <2>2
  <1> QED
    BY <1>1, <1>2

LEMMA StartRefunds ==
    ASSUME TypeOK, CloseRefunds, NEW h \in Handlers, Start(h)
    PROVE  CloseRefunds'
  <1>a. act[h] = Idle
    BY StartControl
  <1> PICK r \in Calls :
            /\ OnlyOf(h, r) /\ act'[h].call = r
            /\ \/ StartsIssue(h, r) \/ StartsMeta(h, r)
               \/ StartsRelease(h, r) \/ StartsRecord(h, r)
    BY StartControl
  <1>1. \A q \in Calls : ~Refunding(h, q)
    BY <1>a DEF Refunding, Idle
  <1>2. /\ \A g \in Handlers : g # h => act'[g] = act[g]
        /\ \A q \in Calls : q # r => req'[q] = req[q]
    BY DEF OnlyOf
  <1>3. IsHeld(r)' <=> IsHeld(r)
    BY DEF StartsIssue, StartsMeta, StartsRelease, StartsRecord, SameState, IsHeld
  <1>4. CASE StartsRelease(h, r) /\ req'[r].exec # req[r].exec
    <2>1. Refunding(h, r)'
      BY <1>4 DEF StartsRelease, Refunding
    <2> QED
      BY <1>1, <1>2, <2>1, KeepsRefunds DEF IsHeld
  <1>5. CASE ~(StartsRelease(h, r) /\ req'[r].exec # req[r].exec)
    <2>1. req'[r].exec = "canceled" /\ IsHeld(r) => req[r].exec = "canceled"
      BY <1>5 DEF StartsIssue, StartsMeta, StartsRelease, StartsRecord
    <2> QED
      BY <1>1, <1>2, <1>3, <2>1, KeepsRefunds DEF IsHeld
  <1> QED
    BY <1>4, <1>5

LEMMA ContinueRefunds ==
    ASSUME TypeOK, CloseRefunds, NEW h \in Handlers, Continue(h)
    PROVE  CloseRefunds'
  <1> PICK r \in Calls : r = act[h].call
    BY ContinueControl
  <1>a. OnlyOf(h, r)
    BY ContinueControl
  <1>b. \A q \in Calls : Refunding(h, q) => q = r
    BY DEF Refunding
  <1>1. CASE Awaiting(h)
    <2>1. \A q \in Calls : Refunding(h, q) => Refunding(h, q)'
      BY <1>1 DEF Awaiting, Moves, SameTask, Refunding
    <2> QED
      BY <1>1, <1>a, <2>1, KeepsRefunds DEF Awaiting, OnlyOf, IsHeld
  <1>2. CASE Mints(h, r)
    <2>1. req'[r].exec # "canceled"
      BY <1>2 DEF Mints
    <2> QED
      BY <1>a, <1>b, <2>1, KeepsRefunds DEF OnlyOf, IsHeld
  <1>3. CASE Records(h, r)
    <2>1. ~IsHeld(r)'
      BY <1>3 DEF Records, Outcome, IsHeld
    <2> QED
      BY <1>a, <1>b, <2>1, KeepsRefunds DEF OnlyOf, IsHeld
  <1>4. CASE Save(h)
    <2>1. UNCHANGED req /\ \A q \in Calls : ~Refunding(h, q)
      BY <1>4 DEF Save, Refunding
    <2> QED
      BY <1>a, <2>1, KeepsRefunds DEF OnlyOf, IsHeld
  <1> QED
    BY <1>1, <1>2, <1>3, <1>4, ContinueControl

LEMMA StepRefunds ==
    ASSUME "refund" \notin StoreFaults, ~Crashes
    PROVE  TypeOK /\ CloseRefunds /\ [Next]_vars => CloseRefunds'
  <1> SUFFICES ASSUME TypeOK, CloseRefunds, [Next]_vars PROVE CloseRefunds'
    OBVIOUS
  <1>1. CASE \E h \in Handlers : Start(h)
    BY <1>1, StartRefunds
  <1>2. CASE \E h \in Handlers : Continue(h)
    BY <1>2, ContinueRefunds
  <1>3. CASE \E h \in Handlers : StoreFails(h)
    <2> PICK h \in Handlers : StoreFails(h)
      BY <1>3
    <2>1. /\ act[h].at \in StoreFaults /\ UNCHANGED req
          /\ \A g \in Handlers : g # h => act'[g] = act[g]
      BY FailControl
    <2>2. act[h].at \notin {"refund", "moved"}
      BY <2>1, CallBillingAssumption DEF CallBillingAssumption
    <2> QED
      BY <2>1, <2>2, KeepsRefunds DEF Refunding, IsHeld
  <1>4. CASE (\E r \in Calls : Lapse(r)) \/ Publish \/ OtherSave \/ UNCHANGED vars
    BY <1>4, StillControl DEF CloseRefunds, Refunding, IsHeld, SameState
  <1>5. CASE Crash
    BY <1>5 DEF Crash
  <1> QED
    BY <1>1, <1>2, <1>3, <1>4, <1>5 DEF Next

LEMMA InitRefunds == Init => CloseRefunds
  BY DEF Init, CloseRefunds, NewRequest

\* As long as the refund of a close answers and no crash comes between, a
\* closed call holds nothing, whatever was in flight when the operator closed
\* it and whatever overlaps it after.
THEOREM ClosedGivesBack ==
    ASSUME "refund" \notin StoreFaults, ~Crashes
    PROVE  Spec => []ClosedHoldsNothing
  <1>1. CloseRefunds => ClosedHoldsNothing
    BY DEF CloseRefunds, ClosedHoldsNothing, Refunding, MoneyInFlight, Busy
  <1> QED
    BY <1>1, TypeCorrect, InitRefunds, StepRefunds, PTL DEF Spec

\* Without a crash a call's billing state only changes when a hold is minted
\* or a release is recorded.
LEMMA StateChanges ==
    ASSUME TypeOK, [Next]_vars, ~Crashes, NEW r \in Calls, ~SameState(r)
    PROVE  \E h \in Handlers : act[h].call = r /\ (Mints(h, r) \/ Records(h, r))
  <1>1. CASE \E h \in Handlers : Start(h)
    BY <1>1, StartControl
       DEF OnlyOf, SameState, StartsIssue, StartsMeta, StartsRelease, StartsRecord
  <1>2. CASE \E h \in Handlers : Continue(h)
    <2> PICK h \in Handlers : Continue(h)
      BY <1>2
    <2>1. act[h].call = r
      BY ContinueControl DEF OnlyOf, SameState
    <2>2. req'[r] # req[r]
      BY DEF SameState
    <2>3. ~Awaiting(h) /\ ~Save(h)
      BY <2>2 DEF Awaiting, Save
    <2> QED
      BY <2>1, <2>3, ContinueControl
  <1>3. CASE \E h \in Handlers : StoreFails(h)
    BY <1>3 DEF StoreFails, SameState
  <1>4. CASE (\E q \in Calls : Lapse(q)) \/ Publish \/ OtherSave \/ UNCHANGED vars
    BY <1>4, StillControl
  <1>5. CASE Crash
    BY <1>5 DEF Crash
  <1> QED
    BY <1>1, <1>2, <1>3, <1>4, <1>5 DEF Next

\* Where operations on one call take turns, a settlement is final: a late
\* reconciliation, expiry or close never turns it into a refund; only the hold
\* of a new token follows it.
THEOREM SettlementIsFinal ==
    ASSUME TakesTurns
    PROVE  Spec => SettledStays
  <1>1. TypeOK /\ Accounting /\ [Next]_vars =>
            [\A r \in Calls :
                req[r].billing.state = "settled" /\ req'[r].billing.state # "settled"
                    => req'[r].billing.state = "held"]_vars
    <2> SUFFICES ASSUME TypeOK, Accounting, [Next]_vars, NEW r \in Calls,
                        req[r].billing.state = "settled", req'[r].billing.state # "settled"
                 PROVE  req'[r].billing.state = "held"
      OBVIOUS
    <2> PICK h \in Handlers : act[h].call = r /\ (Mints(h, r) \/ Records(h, r))
      BY StateChanges DEF SameState, TakesTurns
    <2>1. ~Records(h, r)
      <3> SUFFICES ASSUME Records(h, r) PROVE FALSE
        OBVIOUS
      <3>1. Busy(h) /\ act[h].at = "moved"
        BY DEF Records, Moves, Busy
      <3>2. IsHeld(r)
        BY <3>1 DEF Accounting, Sound
      <3> QED
        BY <3>2 DEF IsHeld
    <2> QED
      BY <2>1 DEF Mints
  <1> QED
    BY <1>1, TypeCorrect, WhatWasReadStillHolds, PTL DEF Spec, SettledStays

\* A delivery in flight is a COMPLETED report.
Tagged ==
    \A h \in Handlers :
        act[h].at \in {"refund", "debit", "moved"} /\ act[h].op = "complete"
            => act[h].tag = "COMPLETED"

LEMMA StepTagged == TypeOK /\ Tagged /\ [Next]_vars => Tagged'
  <1> SUFFICES ASSUME TypeOK, Tagged, [Next]_vars, NEW h \in Handlers,
                      act'[h].at \in {"refund", "debit", "moved"}, act'[h].op = "complete"
               PROVE  act'[h].tag = "COMPLETED"
    BY DEF Tagged
  <1>1. CASE \E g \in Handlers : Start(g)
    <2> PICK g \in Handlers : Start(g)
      BY <1>1
    <2>1. CASE g = h
      BY <2>1, StartControl DEF StartsIssue, StartsMeta, StartsRelease, StartsRecord
    <2>2. CASE g # h
      BY <2>2, StartControl DEF OnlyOf, Tagged
    <2> QED
      BY <2>1, <2>2
  <1>2. CASE \E g \in Handlers : Continue(g)
    <2> PICK g \in Handlers : Continue(g)
      BY <1>2
    <2>1. CASE g = h
      BY <2>1, ContinueControl
         DEF Awaiting, Mints, Records, Moves, SameTask, Tagged, Idle
    <2>2. CASE g # h
      BY <2>2, ContinueControl DEF OnlyOf, Tagged
    <2> QED
      BY <2>1, <2>2
  <1>3. CASE \E g \in Handlers : StoreFails(g)
    <2> PICK g \in Handlers : StoreFails(g)
      BY <1>3
    <2>1. act'[g] # act[g] => act'[g] = Idle \/ act'[g].at = "save"
      BY FailControl DEF Moves
    <2> QED
      BY <2>1, FailControl DEF Tagged, Idle
  <1>4. CASE (\E q \in Calls : Lapse(q)) \/ Publish \/ OtherSave \/ UNCHANGED vars
    BY <1>4, StillControl DEF Tagged
  <1>5. CASE Crash
    BY <1>5 DEF Crash, Idle
  <1> QED
    BY <1>1, <1>2, <1>3, <1>4, <1>5 DEF Next

\* Unless a crash brings an earlier state back, whatever overlaps and whatever
\* fails: a call becomes settled only when its COMPLETED is recorded.
THEOREM SettlesOnDelivery ==
    ASSUME ~Crashes
    PROVE  Spec => OnlyDeliverySettles
  <1>1. Init => Tagged
    BY DEF Init, Tagged, Idle
  <1>2. TypeOK /\ Tagged /\ [Next]_vars =>
            [\A r \in Calls :
                req[r].billing.state # "settled" /\ req'[r].billing.state = "settled"
                    => req'[r].exec = "delivered" /\ "COMPLETED" \in req'[r].seen]_vars
    <2> SUFFICES ASSUME TypeOK, Tagged, [Next]_vars, NEW r \in Calls,
                        req[r].billing.state # "settled", req'[r].billing.state = "settled"
                 PROVE  req'[r].exec = "delivered" /\ "COMPLETED" \in req'[r].seen
      OBVIOUS
    <2> PICK h \in Handlers : act[h].call = r /\ (Mints(h, r) \/ Records(h, r))
      BY StateChanges DEF SameState
    <2>1. Records(h, r)
      BY DEF Mints
    <2>2. act[h].op = "complete" /\ act[h].at = "moved"
      BY <2>1 DEF Records, Moves, Outcome
    <2> QED
      BY <2>1, <2>2 DEF Records, ExecAfter, Tagged
  <1> QED
    BY <1>1, <1>2, TypeCorrect, StepTagged, PTL DEF Spec, OnlyDeliverySettles

----------------------------------------------------------------------------
(* What findings show to fail elsewhere, where it holds *)

\* As long as the refund of a close answers and no crash comes between, the
\* operator's attention list shows every ended call whose funds are held and
\* not on their way: canceled, the state it leaves out, then holds none.
THEOREM AttentionListIsComplete ==
    ASSUME "refund" \notin StoreFaults, ~Crashes
    PROVE  Spec => []StrandedIsNoticed
  <1>1. TypeOK /\ ClosedHoldsNothing => StrandedIsNoticed
    <2> SUFFICES ASSUME TypeOK, ClosedHoldsNothing, NEW r \in Calls,
                        IsHeld(r), req[r].exec \in Terminal, ~MoneyInFlight(r)
                 PROVE  r \in StrandedHolds
      BY DEF StrandedIsNoticed
    <2>1. req[r].exec \in Executions /\ req[r].exec # "canceled"
      BY DEF TypeOK, Request, ClosedHoldsNothing
    <2> QED
      BY <2>1 DEF StrandedHolds, Terminal, Executions
  <1> QED
    BY <1>1, TypeCorrect, ClosedGivesBack, PTL

\* Funds held on a call, live or saved, and an issue on its way to hold some,
\* are the price of one call.
PricesHeld ==
    /\ \A r \in Calls :
          /\ IsHeld(r) => req[r].billing.amount \in Prices
          /\ saved.req[r].billing.state = "held" => saved.req[r].billing.amount \in Prices
    /\ \A h \in Handlers :
          act[h].at \in {"balance", "hold", "held"} => act[h].amount \in Prices

\* A handler's step that keeps its amount, or leaves those awaits, and brings
\* no other amount into billing keeps the prices.
LEMMA KeepsPrices ==
    ASSUME PricesHeld, NEW h \in Handlers,
           \A g \in Handlers : g # h => act'[g] = act[g],
           act'[h].at \in {"balance", "hold", "held"} => act'[h].amount \in Prices,
           \A q \in Calls : IsHeld(q)' =>
               \/ IsHeld(q) /\ req'[q].billing.amount = req[q].billing.amount
               \/ req'[q].billing.amount \in Prices,
           saved' \in {saved, Live}
    PROVE  PricesHeld'
  <1>1. \A q \in Calls : IsHeld(q)' => req'[q].billing.amount \in Prices
    BY DEF PricesHeld
  <1>2. \A q \in Calls :
            saved'.req[q].billing.state = "held" => saved'.req[q].billing.amount \in Prices
    BY DEF PricesHeld, Live, IsHeld
  <1>3. \A g \in Handlers :
            act'[g].at \in {"balance", "hold", "held"} => act'[g].amount \in Prices
    BY DEF PricesHeld
  <1> QED
    BY <1>1, <1>2, <1>3 DEF PricesHeld

LEMMA StartPrices ==
    ASSUME TypeOK, PricesHeld, NEW h \in Handlers, Start(h)
    PROVE  PricesHeld'
  <1> PICK r \in Calls :
              \/ \E c \in Callers, p \in Prices : IssueWithoutHold(h, r, c, p)
              \/ \E c \in Callers, p \in Prices : IssueStart(h, r, c, p)
              \/ \E u \in Prices : Report(h, r, "complete", "COMPLETED", u)
              \/ Report(h, r, "fail", "FAILED", 0)
              \/ \E a \in Attempts : Reconcile(h, r, a)
              \/ Expire(h, r)
              \/ Close(h, r)
              \/ Ack(h, r)
              \/ \E c \in Callers : DeliveryMeta(h, r, c)
    BY StartCases
  <1>a. /\ req \in [Calls -> Request] /\ req[r] \in Request
        /\ act \in [Handlers -> Activation \cup {Idle}]
    BY DEF TypeOK
  <1>b. ASSUME NEW at, NEW op, NEW tenant, NEW amount, NEW usage, NEW tag, NEW ver,
               Enter(h, at, op, r, tenant, amount, usage, tag, ver)
        PROVE  /\ act'[h].at = at /\ act'[h].amount = amount
               /\ \A g \in Handlers : g # h => act'[g] = act[g]
    BY <1>a, <1>b DEF Enter
  <1>c. ASSUME NEW request, Amend(r, request), request.billing = req[r].billing
        PROVE  \A q \in Calls : req'[q].billing = req[q].billing
    BY <1>a, <1>c DEF Amend
  <1>d. ASSUME \A q \in Calls : req'[q].billing = req[q].billing,
               \A g \in Handlers : g # h => act'[g] = act[g],
               act'[h].at \in {"balance", "hold", "held"} => act'[h].amount \in Prices,
               UNCHANGED saved
        PROVE  PricesHeld'
    BY <1>d, KeepsPrices DEF IsHeld
  <1>e. ASSUME NEW op, NEW usage, NEW tag, AwaitRefund(h, op, r, usage, tag),
               \A q \in Calls : req'[q].billing = req[q].billing, UNCHANGED saved
        PROVE  PricesHeld'
    <2>1. PICK at \in {"refund", "debit"} :
               Enter(h, at, op, r, req[r].billing.tenant, req[r].billing.amount - usage, usage, tag, 0)
      BY <1>e DEF AwaitRefund
    <2>2. act'[h].at = at /\ \A g \in Handlers : g # h => act'[g] = act[g]
      BY <1>b, <2>1
    <2> QED
      BY <1>d, <1>e, <2>2
  <1>f. ASSUME NEW op, NEW tag, AppendOnly(h, op, r, tag), UNCHANGED saved
        PROVE  PricesHeld'
    <2>1. act'[h].at = "save" /\ \A g \in Handlers : g # h => act'[g] = act[g]
      BY <1>b, <1>f DEF AppendOnly
    <2>2. [req[r] EXCEPT !.seen = @ \cup {tag}, !.exec = ExecAfter(op, @)].billing = req[r].billing
      BY <1>a DEF Request
    <2>3. \A q \in Calls : req'[q].billing = req[q].billing
      BY <1>c, <1>f, <2>2 DEF AppendOnly
    <2> QED
      BY <1>d, <1>f, <2>1, <2>3
  <1>1. CASE \E c \in Callers, p \in Prices : IssueWithoutHold(h, r, c, p)
    <2> PICK c \in Callers, p \in Prices : IssueWithoutHold(h, r, c, p)
      BY <1>1
    <2>1. act'[h].at = "save" /\ \A g \in Handlers : g # h => act'[g] = act[g]
      <3>1. Enter(h, "save", "issue", r, c, 0, 0, "TASK_TOKEN_ISSUED", BoundVersion(r))
        BY DEF IssueWithoutHold
      <3> QED
        BY <1>b, <3>1
    <2>2. [req[r] EXCEPT !.bound = BoundVersion(r), !.caller = c, !.exec = "submitted"].billing
              = req[r].billing
      BY <1>a DEF Request
    <2>3. \A q \in Calls : req'[q].billing = req[q].billing
      BY <1>c, <2>2 DEF IssueWithoutHold
    <2> QED
      BY <1>d, <2>1, <2>3 DEF IssueWithoutHold
  <1>2. CASE \E c \in Callers, p \in Prices : IssueStart(h, r, c, p)
    <2> PICK c \in Callers, p \in Prices : IssueStart(h, r, c, p)
      BY <1>2
    <2>1. act'[h].amount = p /\ \A g \in Handlers : g # h => act'[g] = act[g]
      <3>1. Enter(h, "balance", "issue", r, c, p, 0, "TASK_TOKEN_ISSUED", BoundVersion(r))
        BY DEF IssueStart
      <3> QED
        BY <1>b, <3>1
    <2>2. [req[r] EXCEPT !.bound = BoundVersion(r)].billing = req[r].billing
      BY <1>a DEF Request
    <2>3. \A q \in Calls : req'[q].billing = req[q].billing
      BY <1>c, <2>2 DEF IssueStart
    <2> QED
      BY <1>d, <2>1, <2>3 DEF IssueStart
  <1>3. CASE \/ \E u \in Prices : Report(h, r, "complete", "COMPLETED", u)
             \/ Report(h, r, "fail", "FAILED", 0)
    <2>1. PICK op \in {"complete", "fail"}, tag \in {"COMPLETED", "FAILED"}, u \in Prices \cup {0} :
               Report(h, r, op, tag, u)
      BY <1>3
    <2>2. UNCHANGED saved
      BY <2>1 DEF Report
    <2>3. CASE UNCHANGED req /\ AwaitRefund(h, op, r, u, tag)
      BY <1>e, <2>2, <2>3
    <2>4. CASE AppendOnly(h, op, r, tag)
      BY <1>f, <2>2, <2>4
    <2> QED
      BY <2>1, <2>3, <2>4 DEF Report
  <1>4. CASE \E a \in Attempts : Reconcile(h, r, a)
    <2> PICK a \in Attempts : Reconcile(h, r, a)
      BY <1>4
    <2>1. UNCHANGED saved
      BY DEF Reconcile
    <2>2. CASE UNCHANGED req /\ AwaitRefund(h, "reconcile", r, 0, a)
      BY <1>e, <2>1, <2>2
    <2>3. CASE AppendOnly(h, "reconcile", r, a)
      BY <1>f, <2>1, <2>3
    <2> QED
      BY <2>2, <2>3 DEF Reconcile
  <1>5. CASE Expire(h, r)
    <2>1. UNCHANGED <<req, saved>> /\ AwaitRefund(h, "expire", r, 0, "EXPIRED")
      BY <1>5 DEF Expire
    <2> QED
      BY <1>e, <2>1
  <1>6. CASE Close(h, r)
    <2>1. [req[r] EXCEPT !.exec = "canceled", !.seen = @ \cup {"CANCELED"}].billing = req[r].billing
      BY <1>a DEF Request
    <2>2. (\A q \in Calls : req'[q].billing = req[q].billing) /\ UNCHANGED saved
      BY <1>6, <1>c, <2>1 DEF Close
    <2>3. CASE AwaitRefund(h, "close", r, 0, "CANCELED")
      BY <1>e, <2>2, <2>3
    <2>4. CASE Enter(h, "save", "close", r, NoCaller, 0, 0, "CANCELED", 0)
      <3>1. act'[h].at = "save" /\ \A g \in Handlers : g # h => act'[g] = act[g]
        BY <1>b, <2>4
      <3> QED
        BY <1>d, <2>2, <3>1
    <2> QED
      BY <1>6, <2>3, <2>4 DEF Close
  <1>7. CASE Ack(h, r)
    <2>1. act'[h].at = "save" /\ \A g \in Handlers : g # h => act'[g] = act[g]
      BY <1>7, <1>b DEF Ack
    <2>2. [req[r] EXCEPT !.seen = @ \cup {"ACKED"}, !.exec = "executing"].billing = req[r].billing
      BY <1>a DEF Request
    <2>3. (\A q \in Calls : req'[q].billing = req[q].billing) /\ UNCHANGED saved
      BY <1>7, <1>c, <2>2 DEF Ack
    <2> QED
      BY <1>d, <2>1, <2>3
  <1>8. CASE \E c \in Callers : DeliveryMeta(h, r, c)
    <2> PICK c \in Callers : DeliveryMeta(h, r, c)
      BY <1>8
    <2>1. act'[h].at = "save" /\ \A g \in Handlers : g # h => act'[g] = act[g]
      <3>1. Enter(h, "save", "meta", r, c, 0, 0, "DELIVERY_META_ISSUED", 0)
        BY DEF DeliveryMeta
      <3> QED
        BY <1>b, <3>1
    <2>2. [req[r] EXCEPT !.caller = c, !.exec = "submitted"].billing = req[r].billing
      BY <1>a DEF Request
    <2>3. \A q \in Calls : req'[q].billing = req[q].billing
      BY <1>c, <2>2 DEF DeliveryMeta
    <2> QED
      BY <1>d, <2>1, <2>3 DEF DeliveryMeta
  <1> QED
    BY <1>1, <1>2, <1>3, <1>4, <1>5, <1>6, <1>7, <1>8

LEMMA ContinuePrices ==
    ASSUME TypeOK, PricesHeld, NEW h \in Handlers, Continue(h)
    PROVE  PricesHeld'
  <1>a. act[h] # Idle
    BY DEF Continue, CheckBalance, StoreHold, Mint, StoreRefund, StoreDebit, Resume, Save, Idle
  <1> DEFINE r == act[h].call
  <1>b. /\ act[h] \in Activation /\ r \in Calls
        /\ req \in [Calls -> Request] /\ req[r] \in Request /\ req[r].billing \in Billing
    BY <1>a, Entered DEF TypeOK, Request
  <1>c. ASSUME NEW request, Amend(r, request)
        PROVE  req'[r] = request /\ \A q \in Calls : q # r => req'[q] = req[q]
    BY <1>b, <1>c DEF Amend
  <1>d. ASSUME NEW at \in Awaits, Proceed(h, at)
        PROVE  /\ act'[h].at = at /\ act'[h].amount = act[h].amount
               /\ \A g \in Handlers : g # h => act'[g] = act[g]
    <2>1. act'[h] = [act[h] EXCEPT !.at = at] /\ \A g \in Handlers : g # h => act'[g] = act[g]
      BY <1>d, StepOf
    <2> QED
      BY <1>b, <2>1 DEF Activation
  <1>e. ASSUME Leave(h)
        PROVE  /\ act'[h].at = "idle"
               /\ \A g \in Handlers : g # h => act'[g] = act[g]
    BY <1>e, StepOf DEF Idle
  <1> HIDE DEF r
  <1>1. CASE CheckBalance(h) \/ StoreHold(h) \/ StoreRefund(h) \/ StoreDebit(h)
    <2>1. UNCHANGED <<req, saved>>
      BY <1>1 DEF CheckBalance, StoreHold, StoreRefund, StoreDebit
    <2>2. \/ Leave(h) \/ Proceed(h, "debit") \/ Proceed(h, "moved")
          \/ act[h].at \in {"balance", "hold", "held"} /\ (Proceed(h, "hold") \/ Proceed(h, "held"))
      BY <1>1 DEF CheckBalance, StoreHold, StoreRefund, StoreDebit
    <2>3. /\ \A g \in Handlers : g # h => act'[g] = act[g]
          /\ act'[h].at \in {"balance", "hold", "held"} =>
                act[h].at \in {"balance", "hold", "held"} /\ act'[h].amount = act[h].amount
      BY <1>d, <1>e, <2>2 DEF Awaits
    <2>4. act'[h].at \in {"balance", "hold", "held"} => act'[h].amount \in Prices
      BY <2>3 DEF PricesHeld
    <2> QED
      BY <2>1, <2>3, <2>4, KeepsPrices DEF IsHeld
  <1>2. CASE Mint(h)
    <2>1. act'[h].at = "save" /\ \A g \in Handlers : g # h => act'[g] = act[g]
      BY <1>2, <1>d DEF Mint, Awaits
    <2>2. /\ req'[r] = [req[r] EXCEPT
                           !.billing = [state |-> "held", tenant |-> act[h].tenant,
                                        amount |-> act[h].amount, lapsed |-> FALSE],
                           !.caller = act[h].tenant,
                           !.exec = "submitted"]
          /\ \A q \in Calls : q # r => req'[q] = req[q]
      BY <1>2, <1>c DEF Mint, r
    <2>3. req'[r].billing.amount = act[h].amount
      BY <1>b, <2>2 DEF Request
    <2>4. act[h].amount \in Prices
      BY <1>2 DEF Mint, PricesHeld
    <2> QED
      BY <1>2, <2>1, <2>2, <2>3, <2>4, KeepsPrices DEF Mint, IsHeld
  <1>3. CASE Resume(h)
    <2>1. act'[h].at = "save" /\ \A g \in Handlers : g # h => act'[g] = act[g]
      BY <1>3, <1>d DEF Resume, Awaits
    <2>2. /\ req'[r] = [req[r] EXCEPT
                    !.billing = [req[r].billing EXCEPT !.state = Outcome(act[h].op)],
                    !.charged = [req[r].charged EXCEPT ![act[h].tenant] = @ + act[h].usage],
                    !.seen = @ \cup {act[h].tag},
                    !.exec = ExecAfter(act[h].op, @)]
          /\ \A q \in Calls : q # r => req'[q] = req[q]
      BY <1>3, <1>c DEF Resume, r
    <2>3. req'[r].billing = [req[r].billing EXCEPT !.state = Outcome(act[h].op)]
      BY <1>b, <2>2 DEF Request
    <2>4. req'[r].billing.state # "held"
      BY <1>b, <2>3 DEF Billing, Outcome
    <2>5. UNCHANGED saved
      BY <1>3 DEF Resume
    <2>6. \A q \in Calls : IsHeld(q)' => IsHeld(q) /\ req'[q].billing.amount = req[q].billing.amount
      BY <2>2, <2>4 DEF IsHeld
    <2> QED
      BY <2>1, <2>5, <2>6, KeepsPrices
  <1>4. CASE Save(h)
    <2>1. act'[h].at = "idle" /\ \A g \in Handlers : g # h => act'[g] = act[g]
      BY <1>4, <1>e DEF Save
    <2> QED
      BY <1>4, <2>1, KeepsPrices DEF Save, IsHeld
  <1> QED
    BY <1>1, <1>2, <1>3, <1>4 DEF Continue

LEMMA StepPrices == TypeOK /\ PricesHeld /\ [Next]_vars => PricesHeld'
  <1> SUFFICES ASSUME TypeOK, PricesHeld, [Next]_vars PROVE PricesHeld'
    OBVIOUS
  <1>1. CASE \E h \in Handlers : Start(h)
    BY <1>1, StartPrices
  <1>2. CASE \E h \in Handlers : Continue(h)
    BY <1>2, ContinuePrices
  <1>3. CASE \E h \in Handlers : StoreFails(h)
    <2> PICK h \in Handlers : StoreFails(h)
      BY <1>3
    <2>1. UNCHANGED <<req, saved>> /\ \A g \in Handlers : g # h => act'[g] = act[g]
      BY FailControl
    <2>2. act'[h].at \notin {"balance", "hold", "held"}
      BY FailControl DEF Moves, Idle
    <2> QED
      BY <2>1, <2>2, KeepsPrices DEF IsHeld
  <1>4. CASE \E r \in Calls : Lapse(r)
    <2> PICK r \in Calls : Lapse(r)
      BY <1>4
    <2>1. req \in [Calls -> Request] /\ req[r] \in Request /\ req[r].billing \in Billing
      BY DEF TypeOK, Request
    <2>2. /\ req'[r] = [req[r] EXCEPT !.billing = [req[r].billing EXCEPT !.lapsed = TRUE]]
          /\ \A q \in Calls : q # r => req'[q] = req[q]
      BY <2>1 DEF Lapse, Amend
    <2>3. req'[r].billing = [req[r].billing EXCEPT !.lapsed = TRUE]
      BY <2>1, <2>2 DEF Request
    <2>4. IsHeld(r) /\ req'[r].billing.amount = req[r].billing.amount
      BY <2>1, <2>3 DEF Billing, Lapse
    <2>5. UNCHANGED <<act, saved>>
      BY DEF Lapse
    <2> QED
      BY <2>2, <2>4, <2>5 DEF PricesHeld, IsHeld
  <1>5. CASE Publish \/ OtherSave \/ UNCHANGED vars
    BY <1>5 DEF Publish, OtherSave, vars, PricesHeld, IsHeld, Live
  <1>6. CASE Crash
    BY <1>6 DEF Crash, PricesHeld, IsHeld, Idle
  <1> QED
    BY <1>1, <1>2, <1>3, <1>4, <1>5, <1>6 DEF Next

LEMMA InitPrices == Init => PricesHeld
  BY DEF Init, PricesHeld, IsHeld, Live, NewRequest, NoBilling, Idle

\* Where operations on one call take turns, what is out on a call beyond its
\* settlements is never more than one price: re-issuing a token, or retrying
\* an issue whose answer was lost, holds nothing a second time.
THEOREM OneHoldAtATime ==
    ASSUME TakesTurns, Prices # {}
    PROVE  Spec => []HeldOnce
  <1>1. TypeOK /\ Accounting /\ PricesHeld => HeldOnce
    <2> SUFFICES ASSUME TypeOK, Accounting, PricesHeld, NEW r \in Calls, NEW c \in Callers
                 PROVE  \E p \in Prices : paid[r][c] - req[r].charged[c] <= p
      BY DEF HeldOnce
    <2>a. /\ Owed(r, c) \in Int /\ paid[r][c] \in Int /\ req[r].charged[c] \in Nat
          /\ req[r].billing.amount \in Nat /\ Prices \subseteq Nat
      BY OwedType, CallBillingAssumption DEF TypeOK, Request, Billing, CallBillingAssumption
    <2>b. PICK p0 \in Prices : TRUE
      OBVIOUS
    <2>c. Owed(r, c) - req[r].charged[c] \in {0} \cup (IF IsHeld(r) THEN {req[r].billing.amount} ELSE {})
      BY <2>a DEF Owed
    <2>1. CASE ~MoneyInFlight(r)
      <3>1. paid[r][c] = Owed(r, c)
        BY <2>1 DEF Accounting, Conserved
      <3>2. CASE IsHeld(r)
        <4>1. req[r].billing.amount \in Prices
          BY <3>2 DEF PricesHeld
        <4> QED
          BY <2>a, <2>c, <3>1, <4>1
      <3>3. CASE ~IsHeld(r)
        BY <2>a, <2>b, <2>c, <3>1, <3>3
      <3> QED
        BY <3>2, <3>3
    <2>2. CASE MoneyInFlight(r)
      <3> PICK h \in Handlers : Busy(h) /\ act[h].call = r
        BY <2>2 DEF MoneyInFlight
      <3>1. act[h] \in Activation /\ act[h].amount \in Nat
        BY Entered DEF Busy, Idle, Activation
      <3>2. Sound(h)
        BY DEF Accounting
      <3>3. paid[r][c] = Owed(r, c) + Unrecorded(h, c)
        BY <3>2 DEF Sound
      <3>4. CASE act[h].op = "issue"
        <4>1. act[h].amount \in Prices /\ ~IsHeld(r)
          BY <3>2, <3>4 DEF Sound, PricesHeld
        <4>2. Unrecorded(h, c) \in {0, act[h].amount}
          BY <3>2, <3>4 DEF Sound, Unrecorded
        <4> QED
          BY <2>a, <2>c, <3>1, <3>3, <4>1, <4>2
      <3>5. CASE act[h].op # "issue"
        <4>1. IsHeld(r) /\ req[r].billing.amount \in Prices
          BY <3>2, <3>5 DEF Sound, PricesHeld
        <4>2. Unrecorded(h, c) \in {0, -act[h].amount}
          BY <3>2, <3>5 DEF Sound, Unrecorded
        <4> QED
          BY <2>a, <2>c, <3>1, <3>3, <4>1, <4>2
      <3> QED
        BY <3>4, <3>5
    <2> QED
      BY <2>1, <2>2
  <1> QED
    BY <1>1, TypeCorrect, WhatWasReadStillHolds, InitPrices, StepPrices, PTL DEF Spec
============================================================================
