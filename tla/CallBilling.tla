---------------------------- MODULE CallBilling ----------------------------
(***************************************************************************)
(* The life of a call on the platform API and the money that follows it.   *)
(*                                                                         *)
(* apps/platform-api is one Node process.  A handler runs without          *)
(* interruption between two awaits, and every await on the billing store   *)
(* or on the snapshot store lets the other handlers in.  A handler in      *)
(* flight is therefore an activation record that says at which await it    *)
(* stands (at) and what it read before it (call, tenant, amount, ...);     *)
(* each action below is the code between two awaits, or one transaction    *)
(* of the billing store.                                                   *)
(*                                                                         *)
(* The request's event list is kept as what the code reads back from it:   *)
(* the set of deduplicating events (seen) and the execution state its last *)
(* mapped event projects to (exec).                                        *)
(***************************************************************************)
EXTENDS Integers, FiniteSets

CONSTANTS
    Calls,       \* request ids
    Callers,     \* caller user ids; a caller is its own billing tenant
    NoCaller,    \* request.caller_id before any caller is bound
    Handlers,    \* handler activations that can be in flight at once
    Attempts,    \* attempt ids a responder's reconciliation reports name
    Prices,      \* max_charge_cents of the hotline's pricing hints; 0 is free
    Deposit,     \* credit balance every caller starts from
    BalanceCap,  \* bound on a balance (only a faulty refund could reach it)
    MaxVersion,  \* bound on the hotline versions published
    Offered,     \* environment: the operations clients send
    Overlap,     \* environment: which operations may be in flight together
                 \* on one call, as a set of sets of operations
    StoreFaults, \* environment: store operations that may fail
    ClientClock, \* environment: balance queries pass a now_utc of their own
    Crashes      \* environment: the process may crash and restart

Ops == {"issue", "complete", "fail", "reconcile", "expire", "close", "ack", "meta"}

\* The operations that give a hold back or settle it.
Releases == {"complete", "fail", "reconcile", "expire", "close"}

Terminal == {"delivered", "failed", "timed_out", "rejected", "canceled"}

ASSUME CallBillingAssumption ==
    /\ NoCaller \notin Callers
    /\ Prices \subseteq Nat
    /\ Deposit \in Nat /\ BalanceCap \in Nat /\ Deposit <= BalanceCap
    /\ MaxVersion \in Nat \ {0}
    /\ Attempts \cap {"COMPLETED", "FAILED", "EXPIRED", "CANCELED", "ACKED"} = {}
    /\ Offered \subseteq Ops /\ Overlap \subseteq SUBSET Ops
    /\ StoreFaults \subseteq {"balance", "hold", "refund", "debit", "save"}
    /\ ClientClock \in BOOLEAN /\ Crashes \in BOOLEAN

VARIABLES
    req,      \* state.requests: the request object of every call
    version,  \* newest published version of the hotline
    saved,    \* the snapshot a restart hydrates from
    act,      \* the handlers in flight
    balance,  \* tenant_balance.credit_balance_cents
    paid,     \* ledger: net cents taken from a tenant for a call
    tokens    \* task tokens answered to callers

vars == <<req, version, saved, act, balance, paid, tokens>>

----------------------------------------------------------------------------
(* Values *)

\* EXPIRED is the platform's own FAILED event: it carries no responder_id, so
\* a responder's FAILED is not a duplicate of it.
Tags == Attempts \cup {"COMPLETED", "FAILED", "EXPIRED", "CANCELED", "ACKED",
                       "TASK_TOKEN_ISSUED", "DELIVERY_META_ISSUED"}

Executions == {"submitted", "executing", "delivered", "failed", "canceled"}

Billing == [state  : {"none", "held", "refunded", "settled"},
            tenant : Callers \cup {NoCaller},
            amount : Nat,
            lapsed : BOOLEAN]   \* expires_at <= now

NoBilling == [state |-> "none", tenant |-> NoCaller, amount |-> 0, lapsed |-> FALSE]

\* bound is request.hotline_version, 0 while the request does not exist;
\* charged adds up the actual_amount_cents of the call's settlements.
Request == [caller  : Callers \cup {NoCaller},
            bound   : 0..MaxVersion,
            billing : Billing,
            seen    : SUBSET Tags,
            exec    : Executions,
            charged : [Callers -> Nat]]

NewRequest == [caller |-> NoCaller, bound |-> 0, billing |-> NoBilling,
               seen |-> {}, exec |-> "submitted",
               charged |-> [c \in Callers |-> 0]]

Awaits == {"balance", "hold", "held", "refund", "debit", "moved", "save"}

Activation == [at      : Awaits,
               op      : Ops,
               call    : Calls,
               tenant  : Callers \cup {NoCaller},
               amount  : Nat,          \* cents the next store call moves
               usage   : Nat,          \* usage.total_cents of a COMPLETED
               tag     : Tags,         \* the event it appends
               version : 0..MaxVersion]

Idle == [at |-> "idle"]

Token == [call : Calls, caller : Callers \cup {NoCaller}, version : 0..MaxVersion]

Snapshot == [req : [Calls -> Request], version : 1..MaxVersion]

Live == [req |-> req, version |-> version]

----------------------------------------------------------------------------
(* Reading the state *)

Exists(r) == req[r].bound # 0

\* Mutant: any billing record counts as a hold.
IsHeld_AnyBilling(r) == req[r].billing.state # "none"

IsHeld(r) == req[r].billing.state = "held"

\* hasTerminalRequestEvent
HasTerminalEvent(r) == req[r].seen \cap {"COMPLETED", "FAILED", "EXPIRED"} # {}

Busy(h) == act[h].at \notin {"idle", "save"}

MoneyInFlight(r) == \E h \in Handlers : Busy(h) /\ act[h].call = r

\* The environment's part: an idle handler may take an offered operation op on
\* call r when Overlap allows it beside every one already awaiting the store.
MayStart(h, op, r) ==
    /\ op \in Offered
    /\ act[h] = Idle
    /\ \A g \in Handlers : Busy(g) /\ act[g].call = r => {act[g].op, op} \in Overlap

Amend(r, request) == req' = [req EXCEPT ![r] = request]

Enter(h, at, op, r, tenant, amount, usage, tag, ver) ==
    act' = [act EXCEPT ![h] = [at |-> at, op |-> op, call |-> r, tenant |-> tenant,
                               amount |-> amount, usage |-> usage, tag |-> tag,
                               version |-> ver]]

Proceed(h, at) == act' = [act EXCEPT ![h].at = at]

Leave(h) == act' = [act EXCEPT ![h] = Idle]

----------------------------------------------------------------------------
(* POST /v1/tokens/task: issueTaskToken and applyBillingHoldIfNeeded *)

\* Mutant: a re-issued token names the newest version.
BoundVersion_Newest(r) == version

BoundVersion(r) == IF req[r].bound = 0 THEN version ELSE req[r].bound

\* Mutant: the owner of an existing request is not checked.
MayOwn_Anyone(r, c) == TRUE

MayOwn(r, c) == req[r].caller \in {NoCaller, c}

\* Free hotline, or funds already held for this request: no await before the
\* token is minted.
IssueWithoutHold(h, r, c, price) ==
    /\ MayStart(h, "issue", r)
    /\ MayOwn(r, c)
    /\ price = 0 \/ IsHeld(r)
    /\ Amend(r, [req[r] EXCEPT !.bound = BoundVersion(r), !.caller = c, !.exec = "submitted"])
    /\ Enter(h, "save", "issue", r, c, 0, 0, "TASK_TOKEN_ISSUED", BoundVersion(r))
    /\ UNCHANGED <<version, saved, balance, paid, tokens>>

\* The contract is pinned before anything is charged.
IssueStart(h, r, c, price) ==
    /\ MayStart(h, "issue", r)
    /\ MayOwn(r, c)
    /\ price > 0 /\ ~IsHeld(r)
    /\ Amend(r, [req[r] EXCEPT !.bound = BoundVersion(r)])
    /\ Enter(h, "balance", "issue", r, c, price, 0, "TASK_TOKEN_ISSUED", BoundVersion(r))
    /\ UNCHANGED <<version, saved, balance, paid, tokens>>

\* getBalance answers; a short balance is the 402 that ends the handler.
CheckBalance(h) ==
    /\ act[h].at = "balance"
    /\ IF balance[act[h].tenant] >= act[h].amount THEN Proceed(h, "hold") ELSE Leave(h)
    /\ UNCHANGED <<req, version, saved, balance, paid, tokens>>

Move(tenant, r, cents) ==
    /\ balance' = [balance EXCEPT ![tenant] = @ + cents]
    /\ paid' = [paid EXCEPT ![r][tenant] = @ - cents]

\* Mutant: the store trusts the balance the handler has read.
StoreHold_Trusting(h) ==
    /\ act[h].at = "hold"
    /\ Move(act[h].tenant, act[h].call, -act[h].amount)
    /\ Proceed(h, "held")
    /\ UNCHANGED <<req, version, saved, tokens>>

\* applyBalanceDelta(-max_charge, "hold"), refused if it would go negative.
StoreHold(h) ==
    /\ act[h].at = "hold"
    /\ IF balance[act[h].tenant] >= act[h].amount
       THEN /\ Move(act[h].tenant, act[h].call, -act[h].amount)
            /\ Proceed(h, "held")
       ELSE Leave(h) /\ UNCHANGED <<balance, paid>>
    /\ UNCHANGED <<req, version, saved, tokens>>

\* The hold's ledger row is back: request.billing is replaced, the caller is
\* bound, and TASK_TOKEN_ISSUED appended.
Mint(h) ==
    LET r == act[h].call IN
    /\ act[h].at = "held"
    /\ Amend(r, [req[r] EXCEPT
                    !.billing = [state |-> "held", tenant |-> act[h].tenant,
                                 amount |-> act[h].amount, lapsed |-> FALSE],
                    !.caller = act[h].tenant,
                    !.exec = "submitted"])
    /\ Proceed(h, "save")
    /\ UNCHANGED <<version, saved, balance, paid, tokens>>

----------------------------------------------------------------------------
(* Operations that end a call *)

ExecAfter(op, exec) ==
    CASE op = "complete"           -> "delivered"
      [] op \in {"fail", "expire"} -> "failed"
      [] OTHER                     -> exec

\* Mutant: every release is recorded as a settlement.
Outcome_Settled(op) == "settled"

Outcome(op) == IF op = "complete" THEN "settled" ELSE "refunded"

\* What a terminal operation appends when no money has to move.
AppendOnly(h, op, r, tag) ==
    /\ Amend(r, [req[r] EXCEPT !.seen = @ \cup {tag}, !.exec = ExecAfter(op, @)])
    /\ Enter(h, "save", op, r, NoCaller, 0, 0, tag, 0)

\* Mutant: a settlement gives the whole hold back.
AwaitRefund_Whole(h, op, r, usage, tag) ==
    Enter(h, "refund", op, r, req[r].billing.tenant, req[r].billing.amount, usage, tag, 0)

\* The tenant and the amount are read here, before the store is awaited.
AwaitRefund(h, op, r, usage, tag) ==
    LET due == req[r].billing.amount - usage IN
    Enter(h, IF op = "complete" /\ due = 0 THEN "debit" ELSE "refund",
          op, r, req[r].billing.tenant, due, usage, tag, 0)

\* POST /v1/requests/:id/events with COMPLETED or FAILED.
Report(h, r, op, tag, usage) ==
    /\ Exists(r) /\ tag \notin req[r].seen
    /\ MayStart(h, op, r)
    /\ IF IsHeld(r)
       THEN /\ usage <= req[r].billing.amount
            /\ AwaitRefund(h, op, r, usage, tag)
            /\ UNCHANGED req
       ELSE AppendOnly(h, op, r, tag)
    /\ UNCHANGED <<version, saved, balance, paid, tokens>>

Complete(h, r, usage) == Report(h, r, "complete", "COMPLETED", usage)

Fail(h, r) == Report(h, r, "fail", "FAILED", 0)

\* POST /v1/requests/:id/reconcile for attempt a, never claiming delivery.
Reconcile(h, r, a) ==
    /\ Exists(r) /\ a \notin req[r].seen
    /\ MayStart(h, "reconcile", r)
    /\ IF IsHeld(r) /\ ~HasTerminalEvent(r)
       THEN AwaitRefund(h, "reconcile", r, 0, a) /\ UNCHANGED req
       ELSE AppendOnly(h, "reconcile", r, a)
    /\ UNCHANGED <<version, saved, balance, paid, tokens>>

\* Mutant: an acknowledged call no longer expires.
Expire_Unacked(h, r) ==
    /\ IsHeld(r) /\ ~HasTerminalEvent(r) /\ "ACKED" \notin req[r].seen
    /\ req[r].billing.lapsed \/ ClientClock
    /\ MayStart(h, "expire", r)
    /\ AwaitRefund(h, "expire", r, 0, "EXPIRED")
    /\ UNCHANGED <<req, version, saved, balance, paid, tokens>>

\* expireHeldBillingIfNeeded, run by every read of the call or the account.
Expire(h, r) ==
    /\ IsHeld(r) /\ ~HasTerminalEvent(r)
    /\ req[r].billing.lapsed \/ ClientClock
    /\ MayStart(h, "expire", r)
    /\ AwaitRefund(h, "expire", r, 0, "EXPIRED")
    /\ UNCHANGED <<req, version, saved, balance, paid, tokens>>

\* Mutant: closing an acknowledged call leaves its hold to the responder.
Close_LeavesHold(h, r) ==
    /\ Exists(r) /\ req[r].exec \notin Terminal
    /\ MayStart(h, "close", r)
    /\ Amend(r, [req[r] EXCEPT !.exec = "canceled", !.seen = @ \cup {"CANCELED"}])
    /\ IF IsHeld(r) /\ "ACKED" \notin req[r].seen
       THEN AwaitRefund(h, "close", r, 0, "CANCELED")
       ELSE Enter(h, "save", "close", r, NoCaller, 0, 0, "CANCELED", 0)
    /\ UNCHANGED <<version, saved, balance, paid, tokens>>

\* POST /v1/admin/requests/:id/close: CANCELED is appended before the refund.
Close(h, r) ==
    /\ Exists(r) /\ req[r].exec \notin Terminal
    /\ MayStart(h, "close", r)
    /\ Amend(r, [req[r] EXCEPT !.exec = "canceled", !.seen = @ \cup {"CANCELED"}])
    /\ IF IsHeld(r)
       THEN AwaitRefund(h, "close", r, 0, "CANCELED")
       ELSE Enter(h, "save", "close", r, NoCaller, 0, 0, "CANCELED", 0)
    /\ UNCHANGED <<version, saved, balance, paid, tokens>>

\* applyBalanceDelta(+amount, "refund"): its own transaction.
StoreRefund(h) ==
    /\ act[h].at = "refund"
    /\ balance[act[h].tenant] + act[h].amount <= BalanceCap
    /\ Move(act[h].tenant, act[h].call, act[h].amount)
    /\ Proceed(h, IF act[h].op = "complete" THEN "debit" ELSE "moved")
    /\ UNCHANGED <<req, version, saved, tokens>>

\* applyBalanceDelta(0, "debit"): a ledger row that moves nothing.
StoreDebit(h) ==
    /\ act[h].at = "debit"
    /\ Proceed(h, "moved")
    /\ UNCHANGED <<req, version, saved, balance, paid, tokens>>

\* Mutant: the refund is not recorded on the request.
Resume_Forgets(h) ==
    LET r == act[h].call IN
    /\ act[h].at = "moved"
    /\ Amend(r, [req[r] EXCEPT !.seen = @ \cup {act[h].tag}, !.exec = ExecAfter(act[h].op, @)])
    /\ Proceed(h, "save")
    /\ UNCHANGED <<version, saved, balance, paid, tokens>>

\* The store has answered: whatever request.billing is NOW is marked.  (usage
\* is 0 in every operation but a COMPLETED.)
Resume(h) ==
    LET r == act[h].call IN
    /\ act[h].at = "moved"
    /\ Amend(r, [req[r] EXCEPT
                    !.billing = [req[r].billing EXCEPT !.state = Outcome(act[h].op)],
                    !.charged = [req[r].charged EXCEPT ![act[h].tenant] = @ + act[h].usage],
                    !.seen = @ \cup {act[h].tag},
                    !.exec = ExecAfter(act[h].op, @)])
    /\ Proceed(h, "save")
    /\ UNCHANGED <<version, saved, balance, paid, tokens>>

----------------------------------------------------------------------------
(* Operations that never touch money *)

\* POST /v1/requests/:id/ack: once, and also after a terminal event.
Ack(h, r) ==
    /\ Exists(r) /\ "ACKED" \notin req[r].seen
    /\ MayStart(h, "ack", r)
    /\ Amend(r, [req[r] EXCEPT !.seen = @ \cup {"ACKED"}, !.exec = "executing"])
    /\ Enter(h, "save", "ack", r, NoCaller, 0, 0, "ACKED", 0)
    /\ UNCHANGED <<version, saved, balance, paid, tokens>>

\* POST /v1/requests/:id/delivery-meta binds the caller as well.
DeliveryMeta(h, r, c) ==
    /\ Exists(r) /\ MayOwn(r, c)
    /\ MayStart(h, "meta", r)
    /\ Amend(r, [req[r] EXCEPT !.caller = c, !.exec = "submitted"])
    /\ Enter(h, "save", "meta", r, c, 0, 0, "DELIVERY_META_ISSUED", 0)
    /\ UNCHANGED <<version, saved, balance, paid, tokens>>

----------------------------------------------------------------------------
(* Persistence, faults, time *)

\* Mutant: the token is answered without waiting for the snapshot.
Save_AnswersFirst(h) ==
    /\ act[h].at = "save"
    /\ tokens' = IF act[h].op = "issue"
                 THEN tokens \cup {[call |-> act[h].call, caller |-> act[h].tenant,
                                    version |-> act[h].version]}
                 ELSE tokens
    /\ Leave(h)
    /\ UNCHANGED <<req, version, saved, balance, paid>>

\* persistPlatformState saves the whole live state; only then is the caller
\* answered.  One snapshot transaction at a time: SnapshotStore has the
\* statements, and shows what is left when transactions interleave.
Save(h) ==
    /\ act[h].at = "save"
    /\ saved' = Live
    /\ tokens' = IF act[h].op = "issue"
                 THEN tokens \cup {[call |-> act[h].call, caller |-> act[h].tenant,
                                    version |-> act[h].version]}
                 ELSE tokens
    /\ Leave(h)
    /\ UNCHANGED <<req, version, balance, paid>>

\* Mutant: a close whose refund failed is recorded as refunded.
StoreFails_Refunded(h) ==
    /\ act[h].at \in StoreFaults
    /\ IF act[h].op = "close" /\ act[h].at = "refund" THEN Proceed(h, "moved") ELSE Leave(h)
    /\ UNCHANGED <<req, version, saved, balance, paid, tokens>>

\* A store call rejects.  The handler answers with the error and has changed
\* nothing more, except that an operator's close still closes the call.
StoreFails(h) ==
    /\ act[h].at \in StoreFaults
    /\ IF act[h].op = "close" /\ act[h].at = "refund" THEN Proceed(h, "save") ELSE Leave(h)
    /\ UNCHANGED <<req, version, saved, balance, paid, tokens>>

\* expires_at passes.
Lapse(r) ==
    /\ IsHeld(r) /\ ~req[r].billing.lapsed
    /\ Amend(r, [req[r] EXCEPT !.billing = [@ EXCEPT !.lapsed = TRUE]])
    /\ UNCHANGED <<version, saved, act, balance, paid, tokens>>

\* Approval of changed content publishes the next version of the hotline.
Publish ==
    /\ version < MaxVersion
    /\ version' = version + 1
    /\ UNCHANGED <<req, saved, act, balance, paid, tokens>>

\* Any other handler of the process saves the live state as well.
OtherSave ==
    /\ saved # Live
    /\ saved' = Live
    /\ UNCHANGED <<req, version, act, balance, paid, tokens>>

\* The process dies: the handlers and the unsaved memory are gone, the
\* billing database and the tokens already handed out are not.
Crash ==
    /\ Crashes
    /\ act' = [h \in Handlers |-> Idle]
    /\ req' = saved.req /\ version' = saved.version
    /\ UNCHANGED <<saved, balance, paid, tokens>>

----------------------------------------------------------------------------
Init ==
    /\ req = [r \in Calls |-> NewRequest]
    /\ version = 1
    /\ saved = Live
    /\ act = [h \in Handlers |-> Idle]
    /\ balance = [c \in Callers |-> Deposit]
    /\ paid = [r \in Calls |-> [c \in Callers |-> 0]]
    /\ tokens = {}

Start(h) ==
    \E r \in Calls :
        \/ \E c \in Callers, p \in Prices : IssueWithoutHold(h, r, c, p) \/ IssueStart(h, r, c, p)
        \/ \E u \in Prices : Complete(h, r, u)
        \/ Fail(h, r)
        \/ \E a \in Attempts : Reconcile(h, r, a)
        \/ Expire(h, r)
        \/ Close(h, r)
        \/ Ack(h, r)
        \/ \E c \in Callers : DeliveryMeta(h, r, c)

Continue(h) ==
    CheckBalance(h) \/ StoreHold(h) \/ Mint(h) \/ StoreRefund(h) \/ StoreDebit(h)
        \/ Resume(h) \/ Save(h)

Next ==
    \/ \E h \in Handlers : Start(h) \/ Continue(h) \/ StoreFails(h)
    \/ \E r \in Calls : Lapse(r)
    \/ Publish
    \/ OtherSave
    \/ Crash

Spec == Init /\ [][Next]_vars

\* Every store call in flight answers, every expired hold keeps being polled.
\* The poll needs strong fairness: other requests take the handlers in between.
FairSpec ==
    /\ Spec
    /\ \A h \in Handlers : WF_vars(Continue(h))
    /\ \A r \in Calls : SF_vars(\E h \in Handlers : Expire(h, r))

----------------------------------------------------------------------------
(* Properties *)

TypeOK ==
    /\ req \in [Calls -> Request]
    /\ version \in 1..MaxVersion
    /\ saved \in Snapshot
    /\ act \in [Handlers -> Activation \cup {Idle}]
    /\ balance \in [Callers -> Nat]
    /\ paid \in [Calls -> [Callers -> Int]]
    /\ tokens \subseteq Token

\* What the request objects say a caller has been charged: every settlement
\* recorded on the call, and the hold still standing.
Owed(r, c) ==
    req[r].charged[c]
        + (IF IsHeld(r) /\ req[r].billing.tenant = c THEN req[r].billing.amount ELSE 0)

\* Whenever no handler is between its check of the billing state and its
\* record of the money's move, the ledger has taken from each caller exactly
\* what the request objects account for: nothing is refunded twice, held
\* twice, or kept after a refund.  (The billing half of issueTaskToken, the
\* event write, reconcile, expiry and close, together.)
Conserved ==
    \A r \in Calls : ~MoneyInFlight(r) => \A c \in Callers : paid[r][c] = Owed(r, c)

\* The environment in which Conserved is a theorem: on one call, two handlers
\* never hold, refund or settle at the same time; the second store call of a
\* settlement does not fail after the first; and no crash separates a ledger
\* commit from the snapshot.  Everything else may overlap and fail.
TakesTurns ==
    /\ {"issue"} \notin Overlap
    /\ \A o, p \in Releases : {o, p} \notin Overlap
    /\ "debit" \notin StoreFaults
    /\ ~Crashes

\* Money handler h has already moved and not yet recorded on the request.
Unrecorded(h, c) ==
    IF act[h].tenant # c \/ act[h].at \notin {"held", "debit", "moved"} THEN 0
    ELSE IF act[h].at = "held" THEN act[h].amount ELSE -act[h].amount

\* What a handler awaiting the store knows of its call is still so.
Sound(h) ==
    LET r == act[h].call IN
    Busy(h) =>
        /\ act[h].tenant \in Callers
        /\ IF act[h].op = "issue"
           THEN act[h].at \in {"balance", "hold", "held"} /\ ~IsHeld(r)
           ELSE /\ act[h].op \in Releases
                /\ act[h].at \in {"refund", "debit", "moved"}
                /\ IsHeld(r)
                /\ req[r].billing.tenant = act[h].tenant
                /\ req[r].billing.amount = act[h].amount + act[h].usage
                /\ act[h].op # "complete" => act[h].usage = 0
        /\ \A c \in Callers : paid[r][c] = Owed(r, c) + Unrecorded(h, c)

\* The inductive strengthening of Conserved under TakesTurns.
Accounting ==
    /\ \A g, h \in Handlers : Busy(g) /\ Busy(h) /\ act[g].call = act[h].call => g = h
    /\ \A h \in Handlers : Sound(h)
    /\ \A r \in Calls : IsHeld(r) => req[r].billing.tenant \in Callers
    /\ Conserved

\* A closed call keeps no one's money: "Held funds are refunded" by the
\* operator's close, whatever was in flight when it came.
ClosedHoldsNothing ==
    \A r \in Calls : req[r].exec = "canceled" /\ ~MoneyInFlight(r) => ~IsHeld(r)

\* Funds still held on a call that already ended are shown to the operator:
\* buildAttentionItems lists the call under funds_held_after_end.
StrandedHolds == {r \in Calls : IsHeld(r) /\ req[r].exec \in {"delivered", "failed", "timed_out"}}

StrandedIsNoticed ==
    \A r \in Calls : IsHeld(r) /\ req[r].exec \in Terminal /\ ~MoneyInFlight(r)
                        => r \in StrandedHolds

\* All the tokens handed out for a call name one contract version, across
\* republication, concurrent re-issue and restarts.
VersionPinned ==
    \A t, u \in tokens : t.call = u.call => t.version = u.version

\* All the tokens handed out for a call went to one caller.
OneOwner ==
    \A t, u \in tokens : t.call = u.call => t.caller = u.caller

\* A token is only answered once its binding would survive a restart.
AnsweredIsSaved ==
    \A t \in tokens : /\ saved.req[t.call].bound = t.version
                       /\ saved.req[t.call].caller # NoCaller

Issuing(h) == act[h] # Idle /\ act[h].op = "issue"

\* What an issue in flight knows of its call's binding.
Carries(h) ==
    /\ act[h].at \notin {"idle", "save"} =>
          (Issuing(h) <=> act[h].at \in {"balance", "hold", "held"})
    /\ Issuing(h) =>
          /\ act[h].tenant \in Callers
          /\ act[h].version # 0 /\ act[h].version = req[act[h].call].bound
          /\ act[h].at = "save" => req[act[h].call].caller # NoCaller

\* The inductive strengthening of VersionPinned and AnsweredIsSaved: what is
\* saved of a call's binding is never behind what a token names, memory is
\* never behind what is saved, and an issue in flight carries the binding.
Bindings ==
    /\ \A t \in tokens : t.version # 0
    /\ \A r \in Calls :
          /\ saved.req[r].bound # 0 => req[r].bound = saved.req[r].bound
          /\ saved.req[r].caller # NoCaller => req[r].caller # NoCaller
    /\ \A h \in Handlers : Carries(h)
    /\ AnsweredIsSaved

\* Money on a call is held at most once: never more than one price is out.
HeldOnce ==
    \A r \in Calls, c \in Callers :
        \E p \in Prices : paid[r][c] - req[r].charged[c] <= p

\* No sequence of reports moves more money back to a caller than was taken
\* from it beyond its settlements: a second refund of one hold would.
NeverOverRefunded ==
    \A r \in Calls, c \in Callers : paid[r][c] >= req[r].charged[c]

\* A settlement is never re-opened or re-priced: billing leaves "settled" only
\* for the hold of a new token.
SettledStays ==
    [][\A r \in Calls :
          req[r].billing.state = "settled" /\ req'[r].billing.state # "settled"
              => req'[r].billing.state = "held"]_vars

\* Only a delivery settles: a call becomes settled in the step that records
\* its COMPLETED, never through a reconcile, an expiry or a close.
OnlyDeliverySettles ==
    [][\A r \in Calls :
          req[r].billing.state # "settled" /\ req'[r].billing.state = "settled"
              => req'[r].exec = "delivered" /\ "COMPLETED" \in req'[r].seen]_vars

\* A hold whose token has expired is released, if nothing else ends the call.
LapsedIsReleased ==
    \A r \in Calls :
        IsHeld(r) /\ req[r].billing.lapsed
            ~> ~IsHeld(r) \/ HasTerminalEvent(r)
=============================================================================
