--------------------------- MODULE MCCallBilling ---------------------------
(***************************************************************************)
(* Instances of CallBilling for TLC.  Every run chooses the environment:   *)
(* which operations may overlap on one call, which store calls may fail,   *)
(* whether the process may crash.                                          *)
(***************************************************************************)
EXTENDS CallBilling, TLC

CONSTANTS r1, r2, c1, c2, h1, h2

\* At most one operation that moves money on a call at a time.
OneAtATime == {{o, p} : o \in Ops \ {"meta"}, p \in {"ack"}} \cup {{o, "meta"} : o \in Releases}

\* ... but a token may be issued while another operation releases the hold.
IssueBesideRelease == OneAtATime \cup {{"issue", o} : o \in Releases}

\* ... and a responder's report may come beside any other release.  (Each report
\* is accepted once, which bounds what the overlap can give back.)
ReportBesideAny == IssueBesideRelease \cup {{o, p} : o \in {"complete", "fail"}, p \in Releases}

\* Anything may overlap anything.
Everything == {{o, p} : o, p \in Ops}

\* The races the findings are about, each alone.
ReconcileBesideItself == OneAtATime \cup {{"reconcile"}}

IssueBesideItself == OneAtATime \cup {{"issue"}}

\* What ends a call or holds its funds; what binds it to a caller and a contract.
Ending == {"issue", "complete", "fail", "expire", "close", "ack"}

Binding == {"issue", "meta", "complete", "close"}

NoFaults == {}

RefundFaults == {"refund"}

AllButDebit == {"balance", "hold", "refund", "save"}

\* Without crashes nothing ever reads the snapshot.
WithoutSnapshot == <<req, version, act, balance, paid, tokens>>

HandlerSymmetry == Permutations(Handlers)
============================================================================
