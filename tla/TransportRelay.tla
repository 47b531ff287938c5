--------------------------- MODULE TransportRelay ---------------------------
(***************************************************************************)
(* The transport relay (apps/transport-relay/src/server.js, auth.js): an   *)
(* HTTP mailbox that carries task and result envelopes between platform    *)
(* and providers.  A poll claims messages under a visibility lease; an     *)
(* acknowledgement deletes one.  Both stores are modelled: the in-memory   *)
(* one forgets everything at a restart, the SQLite one (Durable) keeps the *)
(* messages and their leases.                                              *)
(*                                                                         *)
(* Time is what is left of a lease or of a token; Tick lets it run down.   *)
(* A handler's effect is one step: the stores are synchronous.  What a     *)
(* response tells the client may be lost on the way.                       *)
(***************************************************************************)
EXTENDS Naturals, FiniteSets

CONSTANTS
    Receivers,      \* inboxes
    Messages,       \* message ids
    Consumers,      \* clients of the relay, each with the claims it works on
    Admins,         \* the clients that hold the admin token
    Leaseless,      \* the clients that acknowledge without naming a lease
    Leases,         \* lease ids (random UUIDs in the code)
    Deployments,    \* the relays under study, one of which is chosen at the start
    TokenTtl,       \* ticks a receiver token lasts
    Secrets,        \* values of RELAY_TOKEN_SECRET over the restarts
    Limit,          \* most messages a poll may ask for
    MaxSends,       \* bound: sends of one run
    Absent, NoLease, NoToken, NoSecret

(* How a relay is deployed: on SQLite or in memory; with credentials or    *)
(* open to all; how many ticks a lease lasts.  messages is a bound: the    *)
(* ids that senders use.                                                   *)
Deployment == [durable : BOOLEAN, enforced : BOOLEAN, visibility : Nat \ {0},
               messages : SUBSET Messages]

VARIABLES
    deployment,     \* the one this run is about
    queue,          \* queue[r][m]: the stored record, or Absent
    claims,         \* claims[c]: what polls handed to c and it has not settled
    token,          \* token[c]: the receiver token c presents, or NoToken
    secret,         \* the secret the relay verifies tokens with
    sends           \* how many messages were accepted; names the copies

relayVars == <<deployment, queue, claims, token, secret, sends>>

Durable == deployment.durable
Enforced == deployment.enforced
Visibility == deployment.visibility

Copies == 1 .. MaxSends

(* A stored message.  copy tells two sends of one message_id apart;        *)
(* place orders a receiver's messages (array index or queued_at); left is  *)
(* the time until lease_expires_at, 0 when that is null or past.           *)
Record == [copy : Copies, place : Copies, lease : Leases \cup {NoLease},
           left : Nat]

(* A message in a poll's response, with the lease the response names.      *)
Claim == [receiver : Receivers, message : Messages, copy : Copies,
          lease : Leases, left : Nat]

Token == [receiver : Receivers, left : 0 .. TokenTtl, secret : Secrets]

ASSUME RelayAssumption ==
    /\ Deployments \subseteq Deployment
    /\ TokenTtl \in Nat /\ Limit \in Nat \ {0} /\ MaxSends \in Nat
    /\ Admins \subseteq Consumers /\ Leaseless \subseteq Consumers
    /\ NoLease \notin Leases /\ Absent \notin Record /\ NoToken \notin Token

(* The secrets a boot may find; an open relay has none. *)
Secret == IF Enforced THEN Secrets ELSE {NoSecret}

RelayTypeOK ==
    /\ deployment \in Deployments
    /\ queue \in [Receivers -> [Messages -> Record \cup {Absent}]]
    /\ claims \in [Consumers -> SUBSET Claim]
    /\ token \in [Consumers -> Token \cup {NoToken}]
    /\ secret \in Secret
    /\ sends \in 0 .. MaxSends

-----------------------------------------------------------------------------
(* The caller's identity, as resolve, allowsReceiver and isAdmin see it.   *)

Resolved(c) ==
    Enforced /\ c \notin Admins =>
        token[c] # NoToken /\ token[c].secret = secret /\ token[c].left > 0

Allows(c, r) ==
    /\ Resolved(c)
    /\ Enforced /\ c \notin Admins => token[c].receiver = r

IsAdmin(c) == Enforced => c \in Admins

-----------------------------------------------------------------------------
Stored(r) == {m \in Messages : queue[r][m] # Absent}

(* Mutant: every stored message is claimable, leased or not. *)
Visible_Always(r) == Stored(r)

Visible(r) == {m \in Stored(r) : queue[r][m].left = 0}

(* The lease ids that the records and claims of these messages carry.  A   *)
(* lease id is only ever compared with the one its own message carries.    *)
InUse(r, batch) ==
    {queue[r][m].lease : m \in batch}
        \cup UNION {{x.lease : x \in {y \in claims[c] : y.receiver = r /\ y.message \in batch}} :
                     c \in Consumers}

(* What a poll takes, for some limit: the first of the visible messages.  *)
Batches(r) ==
    {batch \in SUBSET Visible(r) :
        /\ batch # {}
        /\ Cardinality(batch) <= Limit
        /\ \A m \in batch, o \in Visible(r) \ batch : queue[r][m].place <= queue[r][o].place}

(* Mutant: an acknowledgement under a lease the record no longer carries   *)
(* is accepted (the second test of ackDecision is dropped).                *)
AckDecision_NoLeaseIsFine(r, m, lease) ==
    IF queue[r][m] = Absent THEN "not_found"
    ELSE IF lease # NoLease /\ queue[r][m].lease # NoLease /\ lease # queue[r][m].lease
         THEN "lease_mismatch"
    ELSE IF lease # NoLease /\ queue[r][m].lease # NoLease /\ queue[r][m].left = 0
         THEN "lease_expired"
    ELSE "acked"

(* What ackDecision answers; lease is NoLease when the request names none. *)
AckDecision(r, m, lease) ==
    IF queue[r][m] = Absent THEN "not_found"
    ELSE IF lease # NoLease /\ queue[r][m].lease # NoLease /\ lease # queue[r][m].lease
         THEN "lease_mismatch"
    ELSE IF lease # NoLease /\ (queue[r][m].lease = NoLease \/ queue[r][m].left = 0)
         THEN "lease_expired"
    ELSE "acked"

-----------------------------------------------------------------------------
RelayInit ==
    /\ deployment \in Deployments
    /\ queue = [r \in Receivers |-> [m \in Messages |-> Absent]]
    /\ claims = [c \in Consumers |-> {}]
    /\ token = [c \in Consumers |-> NoToken]
    /\ secret \in Secret
    /\ sends = 0

(* Where a message goes in its inbox: memory replaces a message in its     *)
(* place and appends a new one; SQLite sorts by the sender's queued_at.    *)
Places(r, m) ==
    IF Durable THEN 1 .. MaxSends
    ELSE IF queue[r][m] # Absent THEN {queue[r][m].place}
    ELSE {sends + 1}

(* The message is stored, or replaces the stored one of the same id. *)
Enqueue(r, m) ==
    /\ sends < MaxSends
    /\ sends' = sends + 1
    /\ \E place \in Places(r, m) :
         queue' = [queue EXCEPT ![r][m] =
                     [copy |-> sends', place |-> place, lease |-> NoLease, left |-> 0]]

(* POST /v1/messages/send, by any authenticated party. *)
Send(c, r, m) ==
    /\ Resolved(c)
    /\ Enqueue(r, m)
    /\ UNCHANGED <<deployment, claims, token, secret>>

(* A record q under a new lease. *)
Claimed(q, lease) ==
    [copy |-> q.copy, place |-> q.place, lease |-> lease, left |-> Visibility]

(* The inbox with a batch of it leased. *)
Leased(r, batch, lease) ==
    [queue EXCEPT ![r] = [m \in Messages |->
        IF m \in batch THEN Claimed(queue[r][m], lease) ELSE queue[r][m]]]

(* Mutant: the response of a poll names no lease. *)
Handed_NoLease(r, batch, lease) ==
    {[receiver |-> r, message |-> m, copy |-> queue[r][m].copy, lease |-> NoLease,
      left |-> Visibility] : m \in batch}

(* The claims in the response of a poll. *)
Handed(r, batch, lease) ==
    {[receiver |-> r, message |-> m, copy |-> queue[r][m].copy, lease |-> lease,
      left |-> Visibility] : m \in batch}

(* POST /v1/messages/poll.  A client keeps the newest claim of a message. *)
(* The response may be lost: the messages are leased, nobody has them.    *)
Poll(c, r) ==
    /\ Allows(c, r)
    /\ \E batch \in Batches(r) :
         LET lease == CHOOSE l \in Leases : l \notin InUse(r, batch)
         IN  /\ \E l \in Leases : l \notin InUse(r, batch)
             /\ queue' = Leased(r, batch, lease)
             /\ \/ claims' = [claims EXCEPT ![c] =
                        {x \in @ : ~(x.receiver = r /\ x.message \in batch)}
                            \cup Handed(r, batch, lease)]
                \/ UNCHANGED claims
    /\ UNCHANGED <<deployment, token, secret, sends>>

Remove(r, m) == queue' = [queue EXCEPT ![r][m] = Absent]

(* POST /v1/messages/ack for a claim.  A client whose request or response  *)
(* was lost keeps the claim and may ask again; a refusal (409) ends it.    *)
Ack(c, x) ==
    LET lease == IF c \in Leaseless THEN NoLease ELSE x.lease IN
    /\ Allows(c, x.receiver)
    /\ IF AckDecision(x.receiver, x.message, lease) = "acked"
       THEN Remove(x.receiver, x.message)
       ELSE UNCHANGED queue
    /\ \/ claims' = [claims EXCEPT ![c] = @ \ {x}]
       \/ UNCHANGED claims
    /\ UNCHANGED <<deployment, token, secret, sends>>

(* A client dies with its claims. *)
Abandon(c) ==
    /\ claims' = [claims EXCEPT ![c] = {}]
    /\ UNCHANGED <<deployment, queue, token, secret, sends>>

(* POST /v1/receivers/:receiver/tokens: an admin hands a token to client c. *)
Mint(c, r) ==
    /\ \E admin \in Consumers : IsAdmin(admin)
    /\ Enforced /\ c \notin Admins
    /\ token' = [token EXCEPT ![c] =
                   [receiver |-> r, left |-> TokenTtl, secret |-> secret]]
    /\ UNCHANGED <<deployment, queue, claims, secret, sends>>

(* What a restart finds in the store. *)
Survives ==
    [r \in Receivers |-> [m \in Messages |->
        IF Durable THEN queue[r][m] ELSE Absent]]

(* The relay restarts, perhaps with a rotated secret. *)
Restart ==
    /\ secret' \in Secret
    /\ queue' = Survives
    /\ UNCHANGED <<deployment, claims, token, sends>>

(* Mutant: leases and tokens do not run out. *)
Less_Never(n) == n

(* What is left of a lease or token after a tick. *)
Less(n) == IF n = 0 THEN 0 ELSE n - 1

(* Time passes: leases and tokens run down. *)
Tick ==
    /\ queue' = [r \in Receivers |-> [m \in Messages |->
                    IF queue[r][m] = Absent THEN Absent
                    ELSE [queue[r][m] EXCEPT !.left = Less(@)]]]
    /\ claims' = [c \in Consumers |->
                    {[x EXCEPT !.left = Less(@)] : x \in claims[c]}]
    /\ token' = [c \in Consumers |->
                    IF token[c] = NoToken THEN NoToken
                    ELSE [token[c] EXCEPT !.left = Less(@)]]
    /\ UNCHANGED <<deployment, secret, sends>>

RelayNext ==
    \/ \E c \in Consumers, r \in Receivers, m \in deployment.messages : Send(c, r, m)
    \/ \E c \in Consumers, r \in Receivers : Poll(c, r)
    \/ \E c \in Consumers : \E x \in claims[c] : Ack(c, x)
    \/ \E c \in Consumers : Abandon(c)
    \/ \E c \in Consumers, r \in Receivers : Mint(c, r)
    \/ Restart
    \/ Tick

RelaySpec == RelayInit /\ [][RelayNext]_relayVars

(* Time passes whatever the clients do; nothing else is assumed. *)
FairRelaySpec == RelaySpec /\ WF_relayVars(Tick)

-----------------------------------------------------------------------------
(* Two clients never work on the same copy of a message under leases that  *)
(* are both alive: a lease is given again only when it ran out, and a      *)
(* restart of the durable store does not cut one short (isVisible, poll).  *)
OneLiveLease ==
    \A c, d \in Consumers : \A x \in claims[c], y \in claims[d] :
        /\ c # d /\ x.left > 0 /\ y.left > 0
        /\ x.receiver = y.receiver /\ x.message = y.message
        => x.copy # y.copy

(* A message is deleted only for a client that was handed this very copy   *)
(* and whose lease is alive, or for one that names no lease: a late        *)
(* acknowledgement deletes neither work another client has claimed since   *)
(* nor a newer copy sent under the same id (ackDecision).  A restart of    *)
(* the memory store is the one other way out.                              *)
DeletionIsOfHandled ==
    \A r \in Receivers, m \in Messages :
        queue[r][m] # Absent /\ queue'[r][m] = Absent =>
            \/ ~Durable /\ queue' = Survives
            \/ \E c \in Consumers : \E x \in claims[c] :
                 /\ x.receiver = r /\ x.message = m
                 /\ c \in Leaseless \/ (x.copy = queue[r][m].copy /\ x.left > 0)

OnlyHandledIsDeleted == [][DeletionIsOfHandled]_relayVars

(* No lease keeps a message from the others for good: a stored message     *)
(* becomes claimable again or is deleted, however often clients poll and   *)
(* die (the visibility timeout).                                           *)
LeaseRunsOut ==
    \A r \in Receivers, m \in Messages :
        m \in Stored(r) ~> (m \notin Stored(r) \/ m \in Visible(r))
=============================================================================
