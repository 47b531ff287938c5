--------------------------- MODULE HotlineCatalog ---------------------------
(***************************************************************************)
(* The catalog of platform-api (server.js): devices (responders) submit    *)
(* hotlines, the operator reviews both, an approved contract is frozen as  *)
(* a version, and calls are routed to hotlines that are public.            *)
(*                                                                         *)
(* A handler's effect is one step: each reads and writes the state after   *)
(* its last await but the one for the save.  A contract stands for the     *)
(* contract fields of a catalog item, which are what its digest covers.    *)
(***************************************************************************)
EXTENDS Naturals, FiniteSets, FiniteSetsExt

CONSTANTS
    Hotlines, Responders, Owners,
    Registered,         \* owners in state.users; a bootstrap device and one that
                        \* another device's key enrolled have an owner outside
    SigningKeys,        \* public keys of devices
    Contracts,          \* contents of the contract fields
    CompleteContracts,  \* those validateHotlineContract accepts
    Quota,              \* hotlinesPerResponder
    MaxSubmissions,     \* bound: submissions of one run
    Nobody              \* no such responder, no such item

VARIABLES
    responder,      \* state.responders
    item,           \* state.catalog
    versions,       \* state.hotlineVersions, per hotline a function of the number
    submissions,    \* submissions accepted so far (sum of submission_version)
    agreed          \* history: the contracts an operator has approved, per hotline

catalogVars == <<responder, item, versions, submissions, agreed>>

Review == {"pending", "approved", "rejected"}
Status == {"enabled", "disabled"}

(* Of what a device may report; degraded and offline keep a hotline from   *)
(* the candidates just as maintenance does.                                *)
Reported == {"healthy", "maintenance"}

Responder == [owner : Owners, key : SigningKeys, keys : SUBSET SigningKeys,
              hotlines : SUBSET Hotlines, review : Review, status : Status]

(* published is published_version, 0 when the item has none; reported and  *)
(* fresh are availability_status and the age of last_heartbeat_at.         *)
Item == [responder : Responders, contract : Contracts, key : SigningKeys,
         review : Review, status : Status, published : 0 .. MaxSubmissions + 1,
         reported : Reported, fresh : BOOLEAN]

ASSUME CatalogAssumption ==
    /\ CompleteContracts \subseteq Contracts /\ Registered \subseteq Owners
    /\ Quota \in Nat /\ MaxSubmissions \in Nat
    /\ Nobody \notin Responder /\ Nobody \notin Item

CatalogTypeOK ==
    /\ responder \in [Responders -> Responder \cup {Nobody}]
    /\ item \in [Hotlines -> Item \cup {Nobody}]
    /\ \A h \in Hotlines : /\ versions[h] \in [DOMAIN versions[h] -> Contracts]
                           /\ DOMAIN versions[h] \subseteq 1 .. MaxSubmissions + 1
    /\ submissions \in 0 .. MaxSubmissions
    /\ agreed \in [Hotlines -> SUBSET Contracts]

-----------------------------------------------------------------------------
RoutableResponder(r) ==
    responder[r] # Nobody /\ responder[r].review = "approved" /\ responder[r].status = "enabled"

Public(h) ==
    /\ item[h] # Nobody /\ item[h].review = "approved" /\ item[h].status = "enabled"
    /\ RoutableResponder(item[h].responder)

(* A self-report of maintenance is sticky; otherwise a stale heartbeat     *)
(* outranks what the device said.                                          *)
Availability(h) ==
    IF item[h].reported = "maintenance" THEN "maintenance"
    ELSE IF item[h].fresh THEN "healthy" ELSE "offline"

(* What a service resolution that names no availability chooses among. *)
Candidates == {h \in Hotlines : Public(h) /\ Availability(h) = "healthy"}

Held(h) == DOMAIN versions[h]

(* Mutant: the number after the one the item shows, which a resubmission   *)
(* has reset.                                                              *)
NextVersion_OfItem(h) == item[h].published + 1

NextVersion(h) == IF Held(h) = {} THEN 1 ELSE Max(Held(h)) + 1

(* The item shows a version whose content is still its own. *)
IsPublished(h) ==
    item[h].published \in Held(h) /\ versions[h][item[h].published] = item[h].contract

(* ensurePublishedHotlineVersion; base is the item with the handler's own  *)
(* changes.                                                                *)
EnsurePublished(h, base) ==
    IF IsPublished(h)
    THEN item' = [item EXCEPT ![h] = base] /\ UNCHANGED versions
    ELSE LET n == NextVersion(h) IN
         /\ versions' = [versions EXCEPT ![h] =
                [v \in Held(h) \cup {n} |-> IF v = n THEN item[h].contract ELSE versions[h][v]]]
         /\ item' = [item EXCEPT ![h] = [base EXCEPT !.published = n]]

-----------------------------------------------------------------------------
(* Whoever submits must manage the responder: its owner, or one who shows  *)
(* the key the platform knows, or anyone if its owner is no registered     *)
(* user; the latter two become the owner.                                  *)
MayManage(o, r, key) ==
    responder[r] # Nobody => \/ responder[r].owner = o
                             \/ responder[r].owner \notin Registered
                             \/ responder[r].key = key

NewResponder(o, key) ==
    [owner |-> o, key |-> key, keys |-> {key}, hotlines |-> {},
     review |-> "pending", status |-> "disabled"]

Owned(o, r, key) ==
    IF responder[r] = Nobody THEN NewResponder(o, key)
    ELSE [responder[r] EXCEPT !.owner = o]

(* The responder after a submission: a changed one is reviewed again. *)
Submitted(o, r, h, key, changed) ==
    LET known == [Owned(o, r, key) EXCEPT !.key = key, !.keys = @ \cup {key},
                                          !.hotlines = @ \cup {h}]
    IN  IF responder[r] = Nobody \/ changed \/ responder[r].key # key
        THEN [known EXCEPT !.review = "pending", !.status = "disabled"]
        ELSE known

(* Mutant: a resubmission leaves the item approved and enabled. *)
SubmittedItem_StaysEnabled(r, h, contract, key) ==
    IF item[h] = Nobody
    THEN [responder |-> r, contract |-> contract, key |-> key, review |-> "pending",
          status |-> "disabled", published |-> 0, reported |-> "healthy", fresh |-> TRUE]
    ELSE [item[h] EXCEPT !.contract = contract, !.key = key, !.published = 0]

(* The item is overwritten: nothing of the review or of the published      *)
(* version survives; what the device last reported does.                   *)
SubmittedItem(r, h, contract, key) ==
    [responder |-> r, contract |-> contract, key |-> key,
     review |-> "pending", status |-> "disabled", published |-> 0,
     reported |-> IF item[h] = Nobody THEN "healthy" ELSE item[h].reported,
     fresh |-> IF item[h] = Nobody THEN TRUE ELSE item[h].fresh]

Accepted(o, r, h, key) ==
    /\ item[h] # Nobody => item[h].responder = r
    /\ responder[r] # Nobody /\ item[h] = Nobody => Cardinality(responder[r].hotlines) < Quota
    /\ MayManage(o, r, key)

(* POST /v2/hotlines and /v2/responders/register.  changed: the request    *)
(* also changes another reviewed field of the responder.                   *)
Submit(o, r, h, contract, key, changed) ==
    /\ submissions < MaxSubmissions
    /\ submissions' = submissions + 1
    /\ Accepted(o, r, h, key)
    /\ responder' = [responder EXCEPT ![r] = Submitted(o, r, h, key, changed)]
    /\ item' = [item EXCEPT ![h] = SubmittedItem(r, h, contract, key)]
    /\ UNCHANGED <<versions, agreed>>

(* A submission refused for its content (guidance, trust tier, e-mail,     *)
(* price, pool) comes after the change of owner.                           *)
SubmitRefused(o, r, h, key) ==
    /\ responder[r] # Nobody
    /\ Accepted(o, r, h, key)
    /\ responder' = [responder EXCEPT ![r] = Owned(o, r, key)]
    /\ UNCHANGED <<item, versions, submissions, agreed>>

-----------------------------------------------------------------------------
(* The operator's review. *)

ApproveHotline(h) ==
    /\ item[h] # Nobody
    /\ item[h].contract \in CompleteContracts
    /\ EnsurePublished(h, [item[h] EXCEPT !.review = "approved", !.status = "enabled"])
    /\ agreed' = [agreed EXCEPT ![h] = @ \cup {item[h].contract}]
    /\ UNCHANGED <<responder, submissions>>

SetHotline(h, changed) ==
    /\ item' = [item EXCEPT ![h] = changed]
    /\ UNCHANGED <<responder, versions, submissions, agreed>>

RejectHotline(h) ==
    /\ item[h] # Nobody
    /\ SetHotline(h, [item[h] EXCEPT !.review = "rejected", !.status = "disabled"])

EnableHotline(h) ==
    /\ item[h] # Nobody /\ item[h].review = "approved"
    /\ SetHotline(h, [item[h] EXCEPT !.status = "enabled"])

DisableHotline(h) ==
    /\ item[h] # Nobody
    /\ SetHotline(h, [item[h] EXCEPT !.status = "disabled"])

SetResponder(r, changed) ==
    /\ responder' = [responder EXCEPT ![r] = changed]
    /\ UNCHANGED <<item, versions, submissions, agreed>>

ApproveResponder(r) ==
    /\ responder[r] # Nobody
    /\ SetResponder(r, [responder[r] EXCEPT !.review = "approved", !.status = "enabled"])

RejectResponder(r) ==
    /\ responder[r] # Nobody
    /\ SetResponder(r, [responder[r] EXCEPT !.review = "rejected", !.status = "disabled"])

EnableResponder(r) ==
    /\ responder[r] # Nobody /\ responder[r].review = "approved"
    /\ SetResponder(r, [responder[r] EXCEPT !.status = "enabled"])

DisableResponder(r) ==
    /\ responder[r] # Nobody
    /\ SetResponder(r, [responder[r] EXCEPT !.status = "disabled"])

(* The device is retired: it holds no hotline any more. *)
RetireResponder(r) ==
    /\ responder[r] # Nobody
    /\ responder' = [responder EXCEPT ![r] = [@ EXCEPT !.hotlines = {}, !.status = "disabled"]]
    /\ item' = [h \in Hotlines |->
                  IF h \in responder[r].hotlines /\ item[h] # Nobody
                  THEN [item[h] EXCEPT !.status = "disabled"] ELSE item[h]]
    /\ UNCHANGED <<versions, submissions, agreed>>

(* Mutant: only the hotlines the responder lists get the new key. *)
Rekeyed_Listed(r, key) ==
    [h \in Hotlines |->
        IF item[h] # Nobody /\ h \in responder[r].hotlines
        THEN [item[h] EXCEPT !.key = key] ELSE item[h]]

(* Every catalog item of the responder gets the new key. *)
Rekeyed(r, key) ==
    [h \in Hotlines |->
        IF item[h] # Nobody /\ item[h].responder = r
        THEN [item[h] EXCEPT !.key = key] ELSE item[h]]

(* The signing key is rotated; of the previous keys those stay accepted    *)
(* that the request names, by default the last one.                        *)
RotateSigningKey(r, key, previous) ==
    /\ responder[r] # Nobody
    /\ responder' = [responder EXCEPT ![r] = [@ EXCEPT !.key = key, !.keys = {key} \cup previous]]
    /\ item' = Rekeyed(r, key)
    /\ UNCHANGED <<versions, submissions, agreed>>

-----------------------------------------------------------------------------
(* A device reports; every item of its own takes the report. *)
Heartbeat(r, status) ==
    /\ responder[r] # Nobody
    /\ item' = [h \in Hotlines |->
                  IF item[h] # Nobody /\ item[h].responder = r
                  THEN [item[h] EXCEPT !.reported = status, !.fresh = TRUE] ELSE item[h]]
    /\ UNCHANGED <<responder, versions, submissions, agreed>>

(* Time passes without a heartbeat. *)
GoStale ==
    /\ item' = [h \in Hotlines |->
                  IF item[h] = Nobody THEN Nobody ELSE [item[h] EXCEPT !.fresh = FALSE]]
    /\ UNCHANGED <<responder, versions, submissions, agreed>>

(* A call is bound to the hotline it names (POST /v1/tokens/task). *)
BindCall(h) ==
    /\ Public(h)
    /\ EnsurePublished(h, item[h])
    /\ UNCHANGED <<responder, submissions, agreed>>

(* A call is bound to a hotline the platform selects                       *)
(* (POST /v1/service-resolutions).                                         *)
ResolveService ==
    \E h \in Candidates : BindCall(h)

-----------------------------------------------------------------------------
EmptyCatalog ==
    /\ responder = [r \in Responders |-> Nobody]
    /\ item = [h \in Hotlines |-> Nobody]
    /\ agreed = [h \in Hotlines |-> {}]

(* A hotline that was approved before versions existed (the bootstrap and  *)
(* legacy records).                                                        *)
LegacyCatalog(legacy, r, o, k, c) ==
    /\ responder = [x \in Responders |->
          IF x = r THEN [NewResponder(o, k) EXCEPT !.hotlines = {legacy},
                             !.review = "approved", !.status = "enabled"]
          ELSE Nobody]
    /\ item = [h \in Hotlines |->
          IF h = legacy
          THEN [responder |-> r, contract |-> c, key |-> k, review |-> "approved",
                status |-> "enabled", published |-> 0, reported |-> "healthy", fresh |-> TRUE]
          ELSE Nobody]
    /\ agreed = [h \in Hotlines |-> IF h = legacy THEN {c} ELSE {}]

CatalogInit ==
    /\ submissions = 0
    /\ versions = [h \in Hotlines |-> <<>>]
    /\ \/ EmptyCatalog
       \/ \E legacy \in Hotlines, r \in Responders, o \in Owners, k \in SigningKeys,
             c \in CompleteContracts : LegacyCatalog(legacy, r, o, k, c)

CatalogNext ==
    \/ \E o \in Owners, r \in Responders, h \in Hotlines, c \in Contracts, k \in SigningKeys,
          changed \in BOOLEAN : Submit(o, r, h, c, k, changed)
    \/ \E o \in Owners, r \in Responders, h \in Hotlines, k \in SigningKeys :
          SubmitRefused(o, r, h, k)
    \/ \E h \in Hotlines : ApproveHotline(h)
    \/ \E h \in Hotlines : RejectHotline(h)
    \/ \E h \in Hotlines : EnableHotline(h)
    \/ \E h \in Hotlines : DisableHotline(h)
    \/ \E r \in Responders : ApproveResponder(r)
    \/ \E r \in Responders : RejectResponder(r)
    \/ \E r \in Responders : EnableResponder(r)
    \/ \E r \in Responders : DisableResponder(r)
    \/ \E r \in Responders : RetireResponder(r)
    \/ \E r \in Responders, k \in SigningKeys, p \in SUBSET SigningKeys : RotateSigningKey(r, k, p)
    \/ \E r \in Responders, s \in Reported : Heartbeat(r, s)
    \/ GoStale
    \/ \E h \in Hotlines : BindCall(h)
    \/ ResolveService

CatalogSpec == CatalogInit /\ [][CatalogNext]_catalogVars

-----------------------------------------------------------------------------
(* A published version never changes and never goes: neither a             *)
(* resubmission, which resets what the item says of its version, nor a     *)
(* later publication touches the record a call is bound to.                *)
VersionsStay ==
    \A h \in Hotlines : \A v \in DOMAIN versions[h] :
        v \in DOMAIN versions'[h] /\ versions'[h][v] = versions[h][v]

VersionsFrozen == [][VersionsStay]_catalogVars

(* Every published contract is one an operator approved for that hotline,  *)
(* although binding a call publishes too: content that was resubmitted     *)
(* and not yet approved cannot become a version.                           *)
OnlyApprovedIsPublished ==
    \A h \in Hotlines : \A v \in DOMAIN versions[h] : versions[h][v] \in agreed[h]

(* The key a catalog item hands to callers is one its responder is still   *)
(* known by, after any mix of submissions, retirements and rotations.      *)
ItemKeyIsKnown ==
    \A h \in Hotlines : item[h] # Nobody => item[h].key \in responder[item[h].responder].keys
=============================================================================
