----------------------------- MODULE ReviewTest -----------------------------
(***************************************************************************)
(* Review tests (platform-api, server.js): the operator has a hotline      *)
(* tried, and a background job of the platform sends it a task through the *)
(* relay and polls for the signed result until it comes or the time is up. *)
(* The job has the relay calls, the saves and its error path as steps; a   *)
(* call of the relay or a save either answers or fails.  The relay and the *)
(* device are seen from here: an inbox per request whose messages a poll   *)
(* leases and an acknowledgement, which names no lease, removes.           *)
(* A test under a request id that was used before replaces the earlier     *)
(* record in state.reviewTests; the earlier job keeps its own, test[t].    *)
(***************************************************************************)
EXTENDS Naturals, FiniteSets

CONSTANTS
    Requests,       \* request ids; the operator may use one again
    Tests,          \* review tests of one run
    MaxTestFailures,    \* bound: failed calls and saves of one run
    None

ASSUME ReviewAssumption == MaxTestFailures \in Nat

VARIABLES
    test,           \* test[t]: the record of state.reviewTests, or None
    stage,          \* stage[t]: where the job of t stands
    inbox,          \* inbox[q][o]: the message with the result of outcome o for request q
    tasked,         \* the requests whose task the device has
    stored,         \* the tests and their audit events in the last snapshot
    audited,        \* audited[t]: verdict of the last review_test.completed event
    failures

reviewVars == <<test, stage, inbox, tasked, stored, audited, failures>>

Outcomes == {"pass", "fail"}       \* what verifyReviewResult makes of a result
Message == {"none", "visible", "leased"}
TestRecord == [request : Requests, status : {"running", "completed"},
           verdict : Outcomes \cup {None}]
Stage == {"idle", "sending", "polling", "acking pass", "acking fail", "saving", "closing",
          "recording", "done", "dead"}

(* The stages in which the job of a test is under way. *)
Working == Stage \ {"idle", "done", "dead"}

ReviewTypeOK ==
    /\ test \in [Tests -> TestRecord \cup {None}]
    /\ stored \in [test : [Tests -> TestRecord \cup {None}], audited : [Tests -> Outcomes \cup {None}]]
    /\ stage \in [Tests -> Stage]
    /\ inbox \in [Requests -> [Outcomes -> Message]]
    /\ tasked \subseteq Requests
    /\ audited \in [Tests -> Outcomes \cup {None}]
    /\ failures \in 0 .. MaxTestFailures

-----------------------------------------------------------------------------
At(t, s) == stage[t] = s
GoTo(t, s) == stage' = [stage EXCEPT ![t] = s]

Completed(t, verdict) ==
    test' = [test EXCEPT ![t] = [@ EXCEPT !.status = "completed", !.verdict = verdict]]

(* persistPlatformState with what memory holds after the step. *)
SaveTests == stored' = [test |-> test', audited |-> audited']

Audit(t, verdict) == audited' = [audited EXCEPT ![t] = verdict]

(* POST /v1/admin/hotlines/:id/review-tests: the test is recorded, saved,  *)
(* and its job starts; when the save fails, the record stays without one.  *)
Start(t, q) ==
    /\ test[t] = None
    /\ test' = [test EXCEPT ![t] = [request |-> q, status |-> "running", verdict |-> None]]
    /\ UNCHANGED audited
    /\ \/ GoTo(t, "sending") /\ UNCHANGED failures /\ SaveTests
       \/ /\ failures < MaxTestFailures /\ failures' = failures + 1
          /\ GoTo(t, "dead") /\ UNCHANGED stored
    /\ UNCHANGED <<inbox, tasked>>

(* The task goes to the device. *)
SendTask(t) ==
    /\ At(t, "sending")
    /\ tasked' = tasked \cup {test[t].request}
    /\ GoTo(t, "polling")
    /\ UNCHANGED <<test, inbox, stored, audited, failures>>

(* The device answers, perhaps more than once. *)
Answer(q, outcome) ==
    /\ q \in tasked /\ inbox[q][outcome] = "none"
    /\ inbox' = [inbox EXCEPT ![q][outcome] = "visible"]
    /\ UNCHANGED <<test, stage, tasked, stored, audited, failures>>

(* A lease of the relay runs out. *)
LeaseEnds(q) ==
    /\ \E o \in Outcomes : inbox[q][o] = "leased"
    /\ inbox' = [inbox EXCEPT ![q] = [o \in Outcomes |->
                    IF inbox[q][o] = "leased" THEN "visible" ELSE inbox[q][o]]]
    /\ UNCHANGED <<test, stage, tasked, stored, audited, failures>>

(* A poll finds a result: everything visible is leased, one is taken up. *)
PollResult(t) ==
    /\ At(t, "polling")
    /\ LET q == test[t].request IN
       \E o \in Outcomes :
         /\ inbox[q][o] = "visible"
         /\ inbox' = [inbox EXCEPT ![q] = [x \in Outcomes |->
                         IF inbox[q][x] = "visible" THEN "leased" ELSE inbox[q][x]]]
         /\ GoTo(t, IF o = "pass" THEN "acking pass" ELSE "acking fail")
    /\ UNCHANGED <<test, tasked, stored, audited, failures>>

(* The result is acknowledged and judged. *)
Judge(t, outcome) ==
    /\ At(t, IF outcome = "pass" THEN "acking pass" ELSE "acking fail")
    /\ inbox' = [inbox EXCEPT ![test[t].request][outcome] = "none"]
    /\ Completed(t, outcome)
    /\ GoTo(t, "saving")
    /\ UNCHANGED <<tasked, stored, audited, failures>>

(* Mutant: the loop waits for a result without a deadline. *)
TimeOut_Never(t) == FALSE /\ UNCHANGED reviewVars

(* The deadline has passed without a result. *)
TimeOut(t) ==
    /\ At(t, "polling")
    /\ Completed(t, "fail")
    /\ GoTo(t, "saving")
    /\ UNCHANGED <<inbox, tasked, stored, audited, failures>>

(* The verdict is saved; then it is audited, and saved again. *)
SaveVerdict(t) ==
    /\ At(t, "saving")
    /\ stored' = [test |-> test, audited |-> audited]
    /\ Audit(t, test[t].verdict)
    /\ GoTo(t, "closing")
    /\ UNCHANGED <<test, inbox, tasked, failures>>

SaveAudit(t) ==
    /\ At(t, "closing")
    /\ GoTo(t, "done")
    /\ UNCHANGED <<test, inbox, tasked, audited, failures>>
    /\ SaveTests

(* Mutant: the error path corrects the verdict and leaves the audit trail. *)
Caught_NotAudited(t) == Completed(t, "fail") /\ GoTo(t, "recording") /\ UNCHANGED audited

(* The handler of every error of the job: the test has failed. *)
Caught(t) == Completed(t, "fail") /\ Audit(t, "fail") /\ GoTo(t, "recording")

(* A relay call or a save fails. *)
StepFails(t) ==
    /\ stage[t] \in Working \ {"recording"}
    /\ failures < MaxTestFailures /\ failures' = failures + 1
    /\ Caught(t)
    /\ UNCHANGED <<inbox, tasked, stored>>

SaveError(t) ==
    /\ At(t, "recording")
    /\ GoTo(t, "done")
    /\ UNCHANGED <<test, inbox, tasked, audited, failures>>
    /\ SaveTests

(* The process ends and is started again from the snapshot: no job is      *)
(* resumed.  A save that fails in the error handler ends it too, being a   *)
(* rejection nobody handles.                                               *)
RestartJobs ==
    /\ failures < MaxTestFailures /\ failures' = failures + 1
    /\ test' = stored.test /\ audited' = stored.audited
    /\ stage' = [t \in Tests |-> IF stored.test[t] = None THEN "idle" ELSE "dead"]
    /\ UNCHANGED <<inbox, tasked, stored>>

ReviewInit ==
    /\ test = [t \in Tests |-> None]
    /\ stage = [t \in Tests |-> "idle"]
    /\ inbox = [q \in Requests |-> [o \in Outcomes |-> "none"]]
    /\ tasked = {} /\ audited = [t \in Tests |-> None] /\ failures = 0
    /\ stored = [test |-> test, audited |-> audited]

Job(t) ==
    \/ SendTask(t) \/ TimeOut(t) \/ SaveVerdict(t) \/ SaveAudit(t) \/ SaveError(t)
    \/ \E o \in Outcomes : Judge(t, o)

ReviewNext ==
    \/ \E t \in Tests, q \in Requests : Start(t, q)
    \/ \E q \in Requests, o \in Outcomes : Answer(q, o)
    \/ \E q \in Requests : LeaseEnds(q)
    \/ \E t \in Tests : PollResult(t)
    \/ \E t \in Tests : StepFails(t)
    \/ \E t \in Tests : Job(t)
    \/ RestartJobs

(* The event loop takes up what a job awaits, and its deadline comes; the  *)
(* device and the operator owe nothing.                                    *)
ReviewFairness == \A t \in Tests : WF_reviewVars(Job(t))

ReviewSpec == ReviewInit /\ [][ReviewNext]_reviewVars /\ ReviewFairness

-----------------------------------------------------------------------------
(* Every review test whose job runs gets a verdict, whatever the device    *)
(* answers and whichever call fails, unless the platform restarts; two     *)
(* jobs that share a request id may take each other's results.             *)
TestsEnd == \A t \in Tests : stage[t] \in Working ~> stage[t] \in {"done", "dead", "idle"}

(* When a job has run to its end, the audit trail ends with the verdict the test      *)
(* shows: an error after the verdict was audited, such as a failed save,   *)
(* overturns the verdict and audits that too.  (A restart between the two  *)
(* saves leaves a verdict without its event; such a test is "dead" here.)  *)
AuditEndsWithVerdict ==
    \A t \in Tests : stage[t] = "done" => audited[t] = test[t].verdict
=============================================================================
