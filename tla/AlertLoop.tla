------------------------------ MODULE AlertLoop ------------------------------
(***************************************************************************)
(* The outbound alerts of the platform (platform-api, alerts.js): a        *)
(* periodic pass compares the problems of the moment with those it has     *)
(* announced, changes what it tracks, and only then delivers, one webhook  *)
(* call after the other, and saves.  Problems come and go, calls fail,     *)
(* other handlers save meanwhile, and the process may restart at any await.*)
(***************************************************************************)
EXTENDS Naturals

CONSTANTS
    Problems,       \* keys of alerts: a kind and its target
    MaxAlertFailures  \* bound: lost deliveries, failed saves and restarts of one run

ASSUME AlertAssumption == MaxAlertFailures \in Nat

VARIABLES
    open,           \* the problems buildAttentionItems finds now
    enabled,        \* config.enabled, with a webhook_url
    tracked,        \* alertState.tracked: per problem its last notice
    alertsKept,     \* the same in the last snapshot
    pass,           \* where the pass stands
    fire, resolve,  \* the notices the pass has still to deliver
    told,           \* what the receiver last heard of a problem
    alertFailures

alertVars == <<open, enabled, tracked, alertsKept, pass, fire, resolve, told, alertFailures>>

(* A notice is recent, or old enough to be repeated. *)
Tracked == [Problems -> {"none", "recent", "old"}]

AlertTypeOK ==
    /\ open \subseteq Problems /\ fire \subseteq Problems /\ resolve \subseteq Problems
    /\ enabled \in BOOLEAN
    /\ tracked \in Tracked /\ alertsKept \in Tracked
    /\ pass \in {"resting", "delivering"}
    /\ told \in [Problems -> {"nothing", "problem", "resolved"}]
    /\ alertFailures \in 0 .. MaxAlertFailures

-----------------------------------------------------------------------------
Appears(p) ==
    /\ p \notin open /\ open' = open \cup {p}
    /\ UNCHANGED <<enabled, tracked, alertsKept, pass, fire, resolve, told, alertFailures>>

Clears(p) ==
    /\ p \in open /\ open' = open \ {p}
    /\ UNCHANGED <<enabled, tracked, alertsKept, pass, fire, resolve, told, alertFailures>>

(* PUT /v1/admin/alerts/config; a pass under way goes on with the old one. *)
Configure(on) ==
    /\ enabled' = on
    /\ alertsKept' = tracked
    /\ UNCHANGED <<open, tracked, pass, fire, resolve, told, alertFailures>>

(* The renotify window of a notice has passed. *)
GrowOld(p) ==
    /\ tracked[p] = "recent"
    /\ tracked' = [tracked EXCEPT ![p] = "old"]
    /\ UNCHANGED <<open, enabled, alertsKept, pass, fire, resolve, told, alertFailures>>

(* Mutant: a problem is announced once. *)
Due_Once(p) == tracked[p] = "none"

(* evaluateAlerts: a problem is announced when it is new and again when    *)
(* its last notice is old.                                                 *)
Due(p) == tracked[p] \in {"none", "old"}

(* A tick: no other pass is under way; what is tracked changes before      *)
(* anything is delivered.                                                  *)
StartPass ==
    /\ pass = "resting" /\ enabled
    /\ fire' = {p \in open : Due(p)}
    /\ resolve' = {p \in Problems \ open : tracked[p] # "none"}
    /\ fire' \cup resolve' # {}
    /\ tracked' = [p \in Problems |->
                     IF p \in fire' THEN "recent" ELSE IF p \in resolve' THEN "none" ELSE tracked[p]]
    /\ pass' = "delivering"
    /\ UNCHANGED <<open, enabled, alertsKept, told, alertFailures>>

Fail == alertFailures < MaxAlertFailures /\ alertFailures' = alertFailures + 1

(* deliverAlert: the receiver has the notice; or three attempts failed, or *)
(* it refused.  Openings go before resolutions.                            *)
Deliver(p) ==
    /\ pass = "delivering"
    /\ \/ p \in fire /\ fire' = fire \ {p} /\ UNCHANGED resolve
       \/ fire = {} /\ p \in resolve /\ resolve' = resolve \ {p} /\ UNCHANGED fire
    /\ \/ /\ told' = [told EXCEPT ![p] = IF p \in fire THEN "problem" ELSE "resolved"]
          /\ UNCHANGED alertFailures
       \/ Fail /\ UNCHANGED told
    /\ UNCHANGED <<open, enabled, tracked, alertsKept, pass>>

(* Everything is delivered or given up: the pass saves and ends; a save    *)
(* that fails is logged.                                                   *)
EndPass ==
    /\ pass = "delivering" /\ fire \cup resolve = {}
    /\ pass' = "resting"
    /\ \/ alertsKept' = tracked /\ UNCHANGED alertFailures
       \/ Fail /\ UNCHANGED alertsKept
    /\ UNCHANGED <<open, enabled, tracked, fire, resolve, told>>

(* Some other handler saves the state, in the middle of a pass perhaps.    *)
SaveAlerts ==
    /\ alertsKept' = tracked
    /\ UNCHANGED <<open, enabled, tracked, pass, fire, resolve, told, alertFailures>>

RestartLoop ==
    /\ Fail
    /\ tracked' = alertsKept
    /\ pass' = "resting" /\ fire' = {} /\ resolve' = {}
    /\ UNCHANGED <<open, enabled, alertsKept, told>>

AlertInit ==
    /\ open = {} /\ enabled = FALSE
    /\ tracked = [p \in Problems |-> "none"] /\ alertsKept = tracked
    /\ pass = "resting" /\ fire = {} /\ resolve = {}
    /\ told = [p \in Problems |-> "nothing"] /\ alertFailures = 0

(* What the timer, the clock and the event loop bring about. *)
Progress ==
    \/ StartPass \/ EndPass
    \/ \E p \in Problems : Deliver(p)

AlertNext ==
    \/ Progress \/ SaveAlerts \/ RestartLoop
    \/ \E p \in Problems : Appears(p) \/ Clears(p) \/ GrowOld(p)
    \/ \E on \in BOOLEAN : Configure(on)

(* setInterval ticks, fetch has a timeout, and time passes. *)
AlertFairness ==
    /\ WF_alertVars(Progress)
    /\ \A p \in Problems : WF_alertVars(GrowOld(p))

AlertSpec == AlertInit /\ [][AlertNext]_alertVars /\ AlertFairness

-----------------------------------------------------------------------------
(* A problem that stays is known to the receiver in the end, however the   *)
(* deliveries, the saves and the restarts fall: a notice that was tracked  *)
(* and then lost is made good by the repeated one (evaluateAlerts).  There *)
(* is no such promise for the closing notice, which is sent once.          *)
ProblemIsTold ==
    \A p \in Problems :
        p \in open /\ enabled ~> p \notin open \/ ~enabled \/ told[p] = "problem"
=============================================================================
