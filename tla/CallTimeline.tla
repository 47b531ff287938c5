---------------------------- MODULE CallTimeline ----------------------------
(***************************************************************************)
(* The event list of one call (platform-api, server.js): what callers,     *)
(* the responder, the operator and the platform itself append to it, the   *)
(* two history caps, and the execution state and the attention item that   *)
(* are read back from it.                                                  *)
(*                                                                         *)
(* CallBilling follows the money of a call and keeps of the list only what *)
(* the billing code asks of it; here the list itself is the state and the  *)
(* ledger is an await that ends well or badly.                             *)
(***************************************************************************)
EXTENDS Naturals, Sequences, FiniteSets, FiniteSetsExt, SequencesExt

CONSTANTS
    EventCap,       \* PLATFORM_REQUEST_EVENT_HISTORY_LIMIT
    ProgressCap,    \* PLATFORM_REQUEST_PROGRESS_HISTORY_LIMIT
    Seqs,           \* progress numbers (attempt and seq) a responder reports
    Attempts,       \* attempts it reconciles
    Handlers,       \* handlers that await the ledger
    Idle            \* what a handler at rest is doing

ASSUME TimelineAssumption ==
    /\ EventCap \in Nat \ {0} /\ ProgressCap \in Nat \ {0}

VARIABLES
    events,         \* request.events, oldest first
    quiet,          \* the last event is older than the grace of a stuck call
    busy            \* busy[a]: the event handler a will append, or Idle

timelineVars == <<events, quiet, busy>>

Observations == {"PROGRESS", "SOFT_TIMEOUT"}
Terminal == {"COMPLETED", "FAILED", "CANCELED"}

(* NOTE is any event without a meaning for the execution state: billing,   *)
(* artifacts, the bound version.                                           *)
Types == Observations \cup Terminal \cup {"ISSUED", "ACKED", "RECONCILED", "NOTE"}

Row(type, about) == [type |-> type, about |-> about]
Plain(type) == Row(type, 0)

(* The FAILED of an expired hold, which names no responder. *)
Expired == Row("FAILED", 1)

Rows ==
    {Plain(t) : t \in Types \ {"PROGRESS", "RECONCILED"}} \cup {Expired}
        \cup {Row("PROGRESS", n) : n \in Seqs} \cup {Row("RECONCILED", n) : n \in Attempts}

TimelineTypeOK ==
    /\ events \in Seq(Rows) /\ Len(events) <= EventCap + ProgressCap
    /\ quiet \in BOOLEAN
    /\ busy \in [Handlers -> Rows \cup {Idle}]

-----------------------------------------------------------------------------
(* EXECUTION_FROM_LEGACY_EVENT *)
Projected(type) ==
    CASE type = "COMPLETED" -> "delivered"
      [] type = "FAILED" -> "failed"
      [] type = "CANCELED" -> "canceled"
      [] type = "ACKED" -> "executing"
      [] type = "ISSUED" -> "submitted"
      [] OTHER -> "unmapped"

(* projectExecutionState: what the latest mapped event says. *)
Execution(es) ==
    LET mapped == {i \in DOMAIN es : Projected(es[i].type) # "unmapped"} IN
    IF mapped = {} THEN "submitted" ELSE Projected(es[Max(mapped)].type)

Ended(es) == Execution(es) \in {"delivered", "failed", "canceled"}

(* Mutant: only the very last event is looked at, which after a terminal   *)
(* event is often one of billing.                                          *)
Running_ByLastEvent == ~(events # <<>> /\ Last(events).type \in Terminal)

(* Observations are taken while the call has not ended. *)
Running == ~Ended(events)

(* isStuckCall *)
Stuck == events # <<>> /\ ~Ended(events) /\ quiet

(* Mutant: one event more than the cap is kept. *)
Capped_OneMore(es, row) ==
    LET all == Append(es, row) IN
    SubSeq(all, IF Len(all) > EventCap + 1 THEN Len(all) - EventCap ELSE 1, Len(all))

(* pushCapped: the oldest event goes, whatever it is. *)
Capped(es, row) ==
    LET all == Append(es, row) IN
    SubSeq(all, IF Len(all) > EventCap THEN Len(all) - EventCap + 1 ELSE 1, Len(all))

(* appendProgressEvent: of the progress rows the oldest goes, and no other *)
(* row does; the list may grow over the cap of pushCapped.                 *)
WithProgress(es, row) ==
    LET all == Append(es, row)
        progress == {i \in DOMAIN all : all[i].type = "PROGRESS"}
    IN  IF Cardinality(progress) > ProgressCap THEN RemoveAt(all, Min(progress)) ELSE all

Has(row) == \E i \in DOMAIN events : events[i] = row
HasAny(types) == \E i \in DOMAIN events : events[i].type \in types

Becomes(es) == events' = es /\ quiet' = FALSE
Push(row) == Becomes(Capped(events, row)) /\ UNCHANGED busy

-----------------------------------------------------------------------------
(* A task token or delivery metadata is issued, once or again.             *)
Issue == Push(Plain("ISSUED"))

(* A version is bound, money is held, an artifact is allocated or          *)
(* committed: at any time, after the end too.                              *)
Note == Push(Plain("NOTE"))

(* POST /v1/requests/:id/ack: at any time, but once. *)
Ack == ~Has(Plain("ACKED")) /\ Push(Plain("ACKED"))

(* An observation of the responder: refused when the call has ended.       *)
ReportProgress(n) ==
    /\ Running /\ ~Has(Row("PROGRESS", n))
    /\ Becomes(WithProgress(events, Row("PROGRESS", n)))
    /\ UNCHANGED busy

ReportSoftTimeout ==
    /\ Running /\ ~Has(Plain("SOFT_TIMEOUT"))
    /\ Push(Plain("SOFT_TIMEOUT"))

(* The operator closes the call; a refund appends a NOTE after its await.  *)
Close == ~Ended(events) /\ Push(Plain("CANCELED"))

(* A handler turns to the ledger before it appends: a terminal report of   *)
(* the responder, the expiry of a hold, a reconciliation.  A report is     *)
(* refused for an earlier one of the responder only: after an expiry its   *)
(* own FAILED still goes on the list.                                      *)
Await(a, row) ==
    /\ busy[a] = Idle
    /\ busy' = [busy EXCEPT ![a] = row]
    /\ UNCHANGED <<events, quiet>>

ReportEnd(a, type) == ~Has(Plain(type)) /\ Await(a, Plain(type))
ExpireHold(a) == ~HasAny({"COMPLETED", "FAILED"}) /\ Await(a, Expired)
Reconcile(a, n) ==
    /\ ~Has(Row("RECONCILED", n)) /\ ~HasAny({"COMPLETED", "FAILED"})
    /\ Await(a, Row("RECONCILED", n))

(* A reconciliation of a call that has a terminal event is only recorded.  *)
ReconcileLate(n) ==
    /\ ~Has(Row("RECONCILED", n)) /\ HasAny({"COMPLETED", "FAILED"})
    /\ Push(Row("RECONCILED", n))

(* The ledger has answered: the event goes on the list, and after it the   *)
(* event of the money that moved, if any did.                              *)
Settle(a) ==
    /\ busy[a] # Idle
    /\ busy' = [busy EXCEPT ![a] = Idle]
    /\ LET ended == Capped(events, busy[a]) IN
       \/ Becomes(ended)
       \/ Becomes(Capped(ended, Plain("NOTE")))

(* The ledger has failed: nothing is recorded. *)
LedgerFails(a) ==
    /\ busy[a] # Idle
    /\ busy' = [busy EXCEPT ![a] = Idle]
    /\ UNCHANGED <<events, quiet>>

(* STUCK_CALL_GRACE_MS pass without an event. *)
GrowQuiet == events # <<>> /\ quiet' = TRUE /\ UNCHANGED <<events, busy>>

TimelineInit == events = <<>> /\ quiet = FALSE /\ busy = [a \in Handlers |-> Idle]

TimelineNext ==
    \/ Issue \/ Note \/ Ack \/ ReportSoftTimeout \/ Close \/ GrowQuiet
    \/ \E n \in Seqs : ReportProgress(n)
    \/ \E n \in Attempts : ReconcileLate(n)
    \/ \E a \in Handlers :
         \/ \E type \in {"COMPLETED", "FAILED"} : ReportEnd(a, type)
         \/ ExpireHold(a) \/ Settle(a) \/ LedgerFails(a)
         \/ \E n \in Attempts : Reconcile(a, n)

TimelineSpec == TimelineInit /\ [][TimelineNext]_timelineVars

-----------------------------------------------------------------------------
(* No observation stands after the end of the call in the operator's       *)
(* timeline, unless an ACK or a re-issued token re-opened the call in      *)
(* between: also when a terminal report and an observation overlap, when   *)
(* billing and artifact events follow the terminal one, and whatever the   *)
(* caps have dropped (server.js, comments at 2045 and 3936).               *)
NothingRunsAfterTheEnd ==
    \A i \in DOMAIN events :
        events[i].type \in Observations => ~Ended(SubSeq(events, 1, i - 1))
=============================================================================
