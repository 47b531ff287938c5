------------------------ MODULE TransportRelayProofs ------------------------
(***************************************************************************)
(* Proofs about the relay, for any number of inboxes, messages, clients,   *)
(* leases and sends, for either store, with and without credentials.       *)
(*                                                                         *)
(* The argument: a client's claim and the stored record of its message     *)
(* keep step (Agree).  As long as the claim is alive and the same copy is  *)
(* stored, the record is leased exactly as long, so no poll gives it to    *)
(* somebody else; and a record that carries the claim's lease id is the    *)
(* copy the claim is about, so an acknowledgement under that id is no late *)
(* one.  What is sent anew has a number nobody has a claim of (Numbered).  *)
(***************************************************************************)
EXTENDS TransportRelay, TLAPS

(* A stored record q and a claim x of the same message. *)
Agree(q, x) ==
    /\ q # Absent
    /\ (q.copy = x.copy /\ x.left > 0) \/ q.lease = x.lease
    => q.copy = x.copy /\ q.left = x.left

InStep ==
    \A c \in Consumers : \A x \in claims[c] : Agree(queue[x.receiver][x.message], x)

Numbered ==
    /\ \A r \in Receivers, m \in Messages : queue[r][m] # Absent => queue[r][m].copy <= sends
    /\ \A c \in Consumers : \A x \in claims[c] : x.copy <= sends

(* The inductive invariant. *)
RelayInv == RelayTypeOK /\ Numbered /\ InStep /\ OneLiveLease

USE RelayAssumption DEF RelayAssumption

-----------------------------------------------------------------------------
(* Time takes from a lease at most what is left of it. *)
LEMMA LessIsLess ==
    ASSUME NEW n \in Nat
    PROVE  /\ Less(n) \in Nat /\ Less(n) <= n
           /\ Less(n) > 0 => n > 0
  BY DEF Less

(* What is known of the relay at hand. *)
LEMMA Deployed ==
    ASSUME deployment \in Deployments
    PROVE  Visibility \in Nat /\ deployment.messages \subseteq Messages
  BY DEF Deployment, Visibility

LEMMA InitInv ==
    RelayInit => RelayInv
  BY DEF RelayInit, RelayInv, RelayTypeOK, Numbered, InStep, OneLiveLease, Secret

(* What a step of each kind does to the types. *)
LEMMA SendType ==
    ASSUME RelayTypeOK,
           NEW c \in Consumers, NEW r \in Receivers, NEW m \in Messages, Send(c, r, m)
    PROVE  RelayTypeOK'
<1>1. sends' \in Copies /\ sends' = sends + 1
  BY DEF Send, Enqueue, Copies, RelayTypeOK
<1>2. PICK place \in Places(r, m) :
        queue' = [queue EXCEPT ![r][m] =
                    [copy |-> sends', place |-> place, lease |-> NoLease, left |-> 0]]
  BY DEF Send, Enqueue
<1>3. place \in Copies
  <2>1. queue[r][m] \in Record \cup {Absent}
    BY DEF RelayTypeOK
  <2> QED
    BY <1>1, <2>1 DEF Places, Copies, Record
<1>4. [copy |-> sends', place |-> place, lease |-> NoLease, left |-> 0] \in Record
  BY <1>1, <1>3 DEF Record
<1>5. queue' \in [Receivers -> [Messages -> Record \cup {Absent}]]
  BY <1>2, <1>4 DEF RelayTypeOK
<1> QED
  BY <1>1, <1>5 DEF Send, RelayTypeOK, Copies, Secret, Enforced

LEMMA PollFacts ==
    ASSUME RelayTypeOK,
           NEW c \in Consumers, NEW r \in Receivers, Poll(c, r)
    PROVE  \E batch \in SUBSET Messages, lease \in Leases :
             /\ batch \subseteq Visible(r) /\ lease \notin InUse(r, batch)
             /\ queue' = Leased(r, batch, lease)
             /\ \/ claims' = [claims EXCEPT ![c] =
                      {x \in @ : ~(x.receiver = r /\ x.message \in batch)}
                          \cup Handed(r, batch, lease)]
                \/ UNCHANGED claims
             /\ UNCHANGED <<deployment, token, secret, sends>>
<1>1. PICK batch \in Batches(r) :
         LET lease == CHOOSE l \in Leases : l \notin InUse(r, batch)
         IN  /\ \E l \in Leases : l \notin InUse(r, batch)
             /\ queue' = Leased(r, batch, lease)
             /\ \/ claims' = [claims EXCEPT ![c] =
                        {x \in @ : ~(x.receiver = r /\ x.message \in batch)}
                            \cup Handed(r, batch, lease)]
                \/ UNCHANGED claims
  BY DEF Poll
<1> DEFINE lease == CHOOSE l \in Leases : l \notin InUse(r, batch)
<1>2. lease \in Leases /\ lease \notin InUse(r, batch)
  BY <1>1
<1>3. batch \subseteq Visible(r) /\ batch \subseteq Messages
  BY DEF Batches, Visible, Stored
<1> QED
  BY <1>1, <1>2, <1>3 DEF Poll

LEMMA PollType ==
    ASSUME RelayInv,
           NEW c \in Consumers, NEW r \in Receivers, Poll(c, r)
    PROVE  RelayTypeOK'
<1>1. RelayTypeOK
  BY DEF RelayInv
<1>2. PICK batch \in SUBSET Messages, lease \in Leases :
             /\ batch \subseteq Visible(r) /\ lease \notin InUse(r, batch)
             /\ queue' = Leased(r, batch, lease)
             /\ \/ claims' = [claims EXCEPT ![c] =
                      {x \in @ : ~(x.receiver = r /\ x.message \in batch)}
                          \cup Handed(r, batch, lease)]
                \/ UNCHANGED claims
             /\ UNCHANGED <<deployment, token, secret, sends>>
  BY <1>1, PollFacts
<1>3. \A m \in batch : queue[r][m] \in Record
  BY <1>1, <1>2 DEF Visible, Stored, RelayTypeOK
<1>4. queue' \in [Receivers -> [Messages -> Record \cup {Absent}]]
  <2>1. \A m \in batch : Claimed(queue[r][m], lease) \in Record
    BY <1>1, <1>3, Deployed DEF Claimed, Record, RelayTypeOK
  <2>2. [m \in Messages |->
           IF m \in batch THEN Claimed(queue[r][m], lease) ELSE queue[r][m]]
             \in [Messages -> Record \cup {Absent}]
    BY <1>1, <2>1 DEF RelayTypeOK
  <2> QED
    BY <1>1, <1>2, <2>2 DEF Leased, RelayTypeOK
<1>5. claims' \in [Consumers -> SUBSET Claim]
  <2>1. Handed(r, batch, lease) \subseteq Claim
    BY <1>1, <1>3, Deployed DEF Handed, Claim, Record, RelayTypeOK
  <2> QED
    BY <1>1, <1>2, <2>1 DEF RelayTypeOK
<1> QED
  BY <1>1, <1>2, <1>4, <1>5 DEF RelayTypeOK, Secret, Enforced

(* A step that only takes messages out of the store and claims from the    *)
(* clients keeps what the records and the claims say of one another.       *)
LEMMA ShrinkInv ==
    ASSUME RelayInv, RelayTypeOK', UNCHANGED sends,
           \A r \in Receivers, m \in Messages :
              queue'[r][m] = Absent \/ queue'[r][m] = queue[r][m],
           \A c \in Consumers : claims'[c] \subseteq claims[c]
    PROVE  RelayInv'
<1>1. claims \in [Consumers -> SUBSET Claim]
  BY DEF RelayInv, RelayTypeOK
<1>2. Numbered'
  BY DEF RelayInv, Numbered
<1>3. InStep'
  <2>1. \A c \in Consumers : \A x \in claims'[c] :
          Agree(queue'[x.receiver][x.message], x)
    BY <1>1 DEF RelayInv, InStep, Agree, Claim
  <2> QED
    BY <2>1 DEF InStep
<1>4. OneLiveLease'
  BY DEF RelayInv, OneLiveLease
<1> QED
  BY <1>2, <1>3, <1>4 DEF RelayInv

LEMMA SendInv ==
    ASSUME RelayInv,
           NEW c \in Consumers, NEW r \in Receivers, NEW m \in Messages, Send(c, r, m)
    PROVE  RelayInv'
<1>1. RelayTypeOK /\ Numbered /\ InStep /\ OneLiveLease
  BY DEF RelayInv
<1>2. RelayTypeOK'
  BY <1>1, SendType
<1>3. sends \in Nat /\ sends' = sends + 1 /\ claims' = claims
  BY <1>1 DEF Send, Enqueue, RelayTypeOK
<1>4. PICK place \in Places(r, m) :
        queue' = [queue EXCEPT ![r][m] =
                    [copy |-> sends', place |-> place, lease |-> NoLease, left |-> 0]]
  BY DEF Send, Enqueue
<1>5. \A s \in Receivers, n \in Messages :
        \/ queue'[s][n] = queue[s][n]
        \/ queue'[s][n].copy = sends' /\ queue'[s][n].lease = NoLease
  BY <1>1, <1>4 DEF RelayTypeOK
<1>6. \A s \in Receivers, n \in Messages :
        queue[s][n] # Absent => queue[s][n].copy \in Nat
  BY <1>1 DEF RelayTypeOK, Record, Copies
<1>7. \A d \in Consumers : \A x \in claims[d] :
        /\ x.receiver \in Receivers /\ x.message \in Messages
        /\ x.copy \in Nat /\ x.lease # NoLease
  BY <1>1 DEF RelayTypeOK, Claim, Copies
<1>8. Numbered'
  <2>1. \A s \in Receivers, n \in Messages :
          queue'[s][n] # Absent => queue'[s][n].copy <= sends'
    BY <1>1, <1>3, <1>5, <1>6 DEF Numbered
  <2>2. \A d \in Consumers : \A x \in claims'[d] : x.copy <= sends'
    BY <1>1, <1>3, <1>7 DEF Numbered
  <2> QED
    BY <2>1, <2>2 DEF Numbered
<1>9. InStep'
  <2> SUFFICES ASSUME NEW d \in Consumers, NEW x \in claims[d]
               PROVE  Agree(queue'[x.receiver][x.message], x)
    BY <1>3 DEF InStep
  <2>1. Agree(queue[x.receiver][x.message], x)
    BY <1>1 DEF InStep
  <2>2. x.copy # sends'
    BY <1>1, <1>3, <1>7 DEF Numbered
  <2> QED
    BY <1>5, <1>7, <2>1, <2>2 DEF Agree
<1>10. OneLiveLease'
  BY <1>1, <1>3 DEF OneLiveLease
<1> QED
  BY <1>2, <1>8, <1>9, <1>10 DEF RelayInv

LEMMA PollInv ==
    ASSUME RelayInv,
           NEW c \in Consumers, NEW r \in Receivers, Poll(c, r)
    PROVE  RelayInv'
<1>1. RelayTypeOK /\ Numbered /\ InStep /\ OneLiveLease
  BY DEF RelayInv
<1>2. RelayTypeOK'
  BY PollType
<1>3. PICK batch \in SUBSET Messages, lease \in Leases :
             /\ batch \subseteq Visible(r) /\ lease \notin InUse(r, batch)
             /\ queue' = Leased(r, batch, lease)
             /\ \/ claims' = [claims EXCEPT ![c] =
                      {x \in @ : ~(x.receiver = r /\ x.message \in batch)}
                          \cup Handed(r, batch, lease)]
                \/ UNCHANGED claims
             /\ UNCHANGED <<deployment, token, secret, sends>>
  BY <1>1, PollFacts
<1> DEFINE InBatch(s, n) == s = r /\ n \in batch
<1>4. \A s \in Receivers, n \in Messages :
        IF InBatch(s, n)
        THEN /\ queue[s][n] # Absent /\ queue[s][n].left = 0
             /\ queue'[s][n] = Claimed(queue[s][n], lease)
        ELSE queue'[s][n] = queue[s][n]
  BY <1>1, <1>3 DEF RelayTypeOK, Leased, Visible, Stored
<1>5. \A n \in batch :
        /\ queue[r][n] \in Record /\ queue'[r][n].copy = queue[r][n].copy
        /\ queue'[r][n].lease = lease /\ queue'[r][n].left = Visibility
        /\ queue[r][n].left = 0
  <2> SUFFICES ASSUME NEW n \in batch
               PROVE  /\ queue[r][n] \in Record /\ queue'[r][n].copy = queue[r][n].copy
                      /\ queue'[r][n].lease = lease /\ queue'[r][n].left = Visibility
                      /\ queue[r][n].left = 0
    OBVIOUS
  <2>1. n \in Messages /\ InBatch(r, n)
    OBVIOUS
  <2>2. queue[r][n] # Absent /\ queue[r][n].left = 0
    BY <1>4, <2>1
  <2>3. queue'[r][n] = Claimed(queue[r][n], lease)
    BY <1>4, <2>1
  <2>4. queue[r][n] \in Record
    BY <1>1, <2>1, <2>2 DEF RelayTypeOK
  <2> QED
    BY <2>2, <2>3, <2>4 DEF Claimed
<1>6. \A d \in Consumers : \A x \in claims[d] :
        /\ x.receiver \in Receivers /\ x.message \in Messages
        /\ x.left \in Nat
  BY <1>1 DEF RelayTypeOK, Claim
<1>7. \A d \in Consumers : \A x \in claims[d] :
        InBatch(x.receiver, x.message) =>
          /\ x.lease # lease
          /\ x.copy = queue[r][x.message].copy => ~(x.left > 0)
  <2> SUFFICES ASSUME NEW d \in Consumers, NEW x \in claims[d],
                      InBatch(x.receiver, x.message)
               PROVE  /\ x.lease # lease
                      /\ x.copy = queue[r][x.message].copy => ~(x.left > 0)
    OBVIOUS
  <2>1. x.lease \in InUse(r, batch)
    BY DEF InUse
  <2>2. Agree(queue[r][x.message], x)
    BY <1>1 DEF InStep
  <2>3. queue[r][x.message] # Absent /\ queue[r][x.message].left = 0
    BY <1>4, <1>6
  <2> QED
    BY <1>3, <1>6, <2>1, <2>2, <2>3 DEF Agree
<1>8. \A d \in Consumers : \A x \in claims'[d] :
        \/ x \in claims[d]
        \/ /\ d = c /\ InBatch(x.receiver, x.message) /\ x.lease = lease
           /\ x.copy = queue[r][x.message].copy /\ x.left = Visibility
  BY <1>1, <1>3 DEF RelayTypeOK, Handed
<1>9. Numbered'
  <2>1. \A s \in Receivers, n \in Messages :
          queue'[s][n] # Absent => queue'[s][n].copy <= sends
    BY <1>1, <1>4, <1>5 DEF Numbered
  <2>2. \A d \in Consumers : \A x \in claims'[d] : x.copy <= sends
    BY <1>1, <1>3, <1>4, <1>5, <1>8 DEF Numbered
  <2> QED
    BY <1>3, <2>1, <2>2 DEF Numbered
<1>10. InStep'
  <2> SUFFICES ASSUME NEW d \in Consumers, NEW x \in claims'[d]
               PROVE  Agree(queue'[x.receiver][x.message], x)
    BY DEF InStep
  <2>1. ASSUME x \in claims[d], ~InBatch(x.receiver, x.message)
        PROVE  Agree(queue'[x.receiver][x.message], x)
    BY <1>1, <1>4, <1>6, <2>1 DEF InStep
  <2>2. ASSUME x \in claims[d], InBatch(x.receiver, x.message)
        PROVE  Agree(queue'[x.receiver][x.message], x)
    BY <1>5, <1>7, <2>2 DEF Agree
  <2>3. ASSUME x \notin claims[d]
        PROVE  Agree(queue'[x.receiver][x.message], x)
    BY <1>5, <1>8, <2>3 DEF Agree
  <2> QED
    BY <2>1, <2>2, <2>3
<1>11. OneLiveLease'
  <2> SUFFICES ASSUME NEW a \in Consumers, NEW b \in Consumers,
                      NEW x \in claims'[a], NEW y \in claims'[b],
                      a # b, x.left > 0, y.left > 0,
                      x.receiver = y.receiver, x.message = y.message
               PROVE  x.copy # y.copy
    BY DEF OneLiveLease
  <2>1. CASE x \in claims[a] /\ y \in claims[b]
    BY <1>1, <2>1 DEF OneLiveLease
  <2>2. CASE x \notin claims[a]
    BY <1>7, <1>8, <2>2
  <2>3. CASE y \notin claims[b]
    BY <1>7, <1>8, <2>3
  <2> QED
    BY <2>1, <2>2, <2>3
<1> QED
  BY <1>2, <1>9, <1>10, <1>11 DEF RelayInv

LEMMA AckInv ==
    ASSUME RelayInv,
           NEW c \in Consumers, NEW x \in claims[c], Ack(c, x)
    PROVE  RelayInv'
<1>1. RelayTypeOK
  BY DEF RelayInv
<1>2. x \in Claim
  BY <1>1 DEF RelayTypeOK
<1>3. \/ UNCHANGED queue
      \/ queue' = [queue EXCEPT ![x.receiver][x.message] = Absent]
  BY DEF Ack, Remove
<1>4. \A r \in Receivers, m \in Messages :
        queue'[r][m] = Absent \/ queue'[r][m] = queue[r][m]
  BY <1>1, <1>3 DEF RelayTypeOK
<1>5. queue' \in [Receivers -> [Messages -> Record \cup {Absent}]]
  BY <1>1, <1>2, <1>3 DEF RelayTypeOK, Claim
<1>6. /\ claims' \in [Consumers -> SUBSET Claim]
      /\ \A d \in Consumers : claims'[d] \subseteq claims[d]
  BY <1>1 DEF Ack, RelayTypeOK
<1>7. RelayTypeOK'
  BY <1>1, <1>5, <1>6 DEF Ack, RelayTypeOK, Secret, Enforced
<1> QED
  BY <1>4, <1>6, <1>7, ShrinkInv DEF Ack

LEMMA AbandonInv ==
    ASSUME RelayInv, NEW c \in Consumers, Abandon(c)
    PROVE  RelayInv'
<1>1. RelayTypeOK /\ RelayTypeOK'
  BY DEF RelayInv, Abandon, RelayTypeOK, Secret, Enforced
<1>2. /\ \A d \in Consumers : claims'[d] \subseteq claims[d]
      /\ queue' = queue /\ sends' = sends
  BY <1>1 DEF Abandon, RelayTypeOK
<1> QED
  BY <1>1, <1>2, ShrinkInv

LEMMA MintInv ==
    ASSUME RelayInv,
           NEW c \in Consumers, NEW r \in Receivers, Mint(c, r)
    PROVE  RelayInv'
<1>1. RelayTypeOK
  BY DEF RelayInv
<1>2. [receiver |-> r, left |-> TokenTtl, secret |-> secret] \in Token
  BY <1>1 DEF Token, RelayTypeOK, Mint, Secret
<1>3. RelayTypeOK'
  BY <1>1, <1>2 DEF Mint, RelayTypeOK, Secret, Enforced
<1>4. queue' = queue /\ claims' = claims /\ sends' = sends
  BY DEF Mint
<1> QED
  BY <1>3, <1>4, ShrinkInv

LEMMA RestartInv ==
    ASSUME RelayInv, Restart
    PROVE  RelayInv'
<1>1. RelayTypeOK
  BY DEF RelayInv
<1>2. queue' = Survives /\ UNCHANGED <<deployment, claims, token, sends>> /\ secret' \in Secret
  BY DEF Restart
<1>3. \A r \in Receivers, m \in Messages :
        queue'[r][m] = Absent \/ queue'[r][m] = queue[r][m]
  BY <1>2 DEF Survives
<1>4. queue' \in [Receivers -> [Messages -> Record \cup {Absent}]]
  BY <1>1, <1>2 DEF Survives, RelayTypeOK
<1>5. RelayTypeOK'
  BY <1>1, <1>2, <1>4 DEF RelayTypeOK, Secret, Enforced
<1> QED
  BY <1>2, <1>3, <1>5, ShrinkInv

LEMMA TickInv ==
    ASSUME RelayInv, Tick
    PROVE  RelayInv'
<1>1. RelayTypeOK /\ Numbered /\ InStep /\ OneLiveLease
  BY DEF RelayInv
<1> DEFINE Older(x) == [x EXCEPT !.left = Less(@)]
<1>2. \A r \in Receivers, m \in Messages :
        queue'[r][m] = IF queue[r][m] = Absent THEN Absent ELSE Older(queue[r][m])
  BY DEF Tick
<1>3. \A c \in Consumers : claims'[c] = {Older(x) : x \in claims[c]}
  BY DEF Tick
<1>4. \A n, k \in Nat : n <= k => Less(n) \in 0 .. k
  BY DEF Less
<1>5. \A q \in Record : Older(q) \in Record
  BY <1>4 DEF Record
<1>6. \A x \in Claim : Older(x) \in Claim
  BY <1>4 DEF Claim
<1>7. \A t \in Token : Older(t) \in Token
  BY <1>4 DEF Token
<1>8. RelayTypeOK'
  <2>1. queue' \in [Receivers -> [Messages -> Record \cup {Absent}]]
    <3>1. \A r \in Receivers, m \in Messages :
            (IF queue[r][m] = Absent THEN Absent ELSE Older(queue[r][m]))
              \in Record \cup {Absent}
      BY <1>1, <1>5 DEF RelayTypeOK
    <3> HIDE DEF Older
    <3>2. queue' = [r \in Receivers |-> [m \in Messages |->
                      IF queue[r][m] = Absent THEN Absent ELSE Older(queue[r][m])]]
      BY DEF Tick, Older
    <3> QED
      BY <3>1, <3>2
  <2>2. claims' \in [Consumers -> SUBSET Claim]
    <3>1. \A c \in Consumers : claims[c] \subseteq Claim
      BY <1>1 DEF RelayTypeOK
    <3>2. \A c \in Consumers : {Older(x) : x \in claims[c]} \subseteq Claim
      BY <1>6, <3>1
    <3> HIDE DEF Older
    <3>3. claims' = [c \in Consumers |-> {Older(x) : x \in claims[c]}]
      BY DEF Tick, Older
    <3> QED
      BY <3>2, <3>3
  <2>3. token' \in [Consumers -> Token \cup {NoToken}]
    <3>1. \A c \in Consumers :
            (IF token[c] = NoToken THEN NoToken ELSE Older(token[c])) \in Token \cup {NoToken}
      BY <1>1, <1>7 DEF RelayTypeOK
    <3> HIDE DEF Older
    <3>2. token' = [c \in Consumers |->
                      IF token[c] = NoToken THEN NoToken ELSE Older(token[c])]
      BY DEF Tick, Older
    <3> QED
      BY <3>1, <3>2
  <2> QED
    BY <1>1, <2>1, <2>2, <2>3 DEF Tick, RelayTypeOK, Secret, Enforced
<1>9. \A q \in Record : /\ Older(q).copy = q.copy /\ Older(q).lease = q.lease
                        /\ Older(q).left = Less(q.left) /\ q.left \in Nat
  BY DEF Record
<1>10. \A x \in Claim : /\ Older(x).receiver = x.receiver /\ Older(x).message = x.message
                        /\ Older(x).copy = x.copy /\ Older(x).lease = x.lease
                        /\ Older(x).left = Less(x.left) /\ x.left \in Nat
                        /\ x.receiver \in Receivers /\ x.message \in Messages
  BY DEF Claim
<1>11. \A c \in Consumers : \A x \in claims[c] : x \in Claim
  BY <1>1 DEF RelayTypeOK
<1>12. \A r \in Receivers, m \in Messages :
         queue[r][m] # Absent => queue[r][m] \in Record
  BY <1>1 DEF RelayTypeOK
<1> HIDE DEF Older
<1>13. Numbered'
  <2>1. \A r \in Receivers, m \in Messages :
          queue'[r][m] # Absent => queue'[r][m].copy <= sends
    BY <1>1, <1>2, <1>9, <1>12 DEF Numbered
  <2>2. \A c \in Consumers : \A x \in claims'[c] : x.copy <= sends
    BY <1>1, <1>3, <1>10, <1>11 DEF Numbered
  <2> QED
    BY <2>1, <2>2 DEF Numbered, Tick
<1>14. InStep'
  <2> SUFFICES ASSUME NEW c \in Consumers, NEW x \in claims[c]
               PROVE  Agree(queue'[Older(x).receiver][Older(x).message], Older(x))
    BY <1>3 DEF InStep
  <2>1. Agree(queue[x.receiver][x.message], x)
    BY <1>1 DEF InStep
  <2>2. x \in Claim
    BY <1>11
  <2>3. Less(x.left) > 0 => x.left > 0
    BY <1>10, <2>2, LessIsLess
  <2> QED
    BY <1>2, <1>9, <1>10, <1>12, <2>1, <2>2, <2>3 DEF Agree
<1>15. OneLiveLease'
  <2> SUFFICES ASSUME NEW c \in Consumers, NEW d \in Consumers,
                      NEW x \in claims[c], NEW y \in claims[d],
                      c # d, Less(x.left) > 0, Less(y.left) > 0,
                      x.receiver = y.receiver, x.message = y.message
               PROVE  x.copy # y.copy
    BY <1>3, <1>10, <1>11 DEF OneLiveLease
  <2>1. x.left > 0 /\ y.left > 0
    BY <1>10, <1>11, LessIsLess
  <2> QED
    BY <1>1, <2>1 DEF OneLiveLease
<1> QED
  BY <1>8, <1>13, <1>14, <1>15 DEF RelayInv

LEMMA NextInv ==
    RelayInv /\ [RelayNext]_relayVars => RelayInv'
<1> SUFFICES ASSUME RelayInv, [RelayNext]_relayVars
             PROVE  RelayInv'
  OBVIOUS
<1>1. CASE UNCHANGED relayVars
  BY <1>1 DEF relayVars, RelayInv, RelayTypeOK, Numbered, InStep, OneLiveLease, Secret, Enforced
<1>2. ASSUME NEW c \in Consumers, NEW r \in Receivers, NEW m \in deployment.messages,
             Send(c, r, m)
      PROVE  RelayInv'
  <2>1. m \in Messages
    BY Deployed DEF RelayInv, RelayTypeOK
  <2> QED
    BY <1>2, <2>1, SendInv
<1>3. ASSUME NEW c \in Consumers, NEW r \in Receivers, Poll(c, r)
      PROVE  RelayInv'
  BY <1>3, PollInv
<1>4. ASSUME NEW c \in Consumers, NEW x \in claims[c], Ack(c, x)
      PROVE  RelayInv'
  BY <1>4, AckInv
<1>5. ASSUME NEW c \in Consumers, Abandon(c)
      PROVE  RelayInv'
  BY <1>5, AbandonInv
<1>6. ASSUME NEW c \in Consumers, NEW r \in Receivers, Mint(c, r)
      PROVE  RelayInv'
  BY <1>6, MintInv
<1>7. CASE Restart
  BY <1>7, RestartInv
<1>8. CASE Tick
  BY <1>8, TickInv
<1> QED
  BY <1>1, <1>2, <1>3, <1>4, <1>5, <1>6, <1>7, <1>8 DEF RelayNext

-----------------------------------------------------------------------------
LEMMA SpecInv ==
    RelaySpec => []RelayInv
BY InitInv, NextInv, PTL DEF RelaySpec

(* The relay's state has its types: whatever is stored, claimed or         *)
(* presented is a record of its kind, and sends stay within their bound.   *)
THEOREM RelayTypes ==
    RelaySpec => []RelayTypeOK
<1>1. RelayInv => RelayTypeOK
  BY DEF RelayInv
<1> QED
  BY <1>1, SpecInv, PTL

(* Two clients never work on the same copy under leases that are both      *)
(* alive, whatever they send, lose, retry or abandon, and across restarts. *)
THEOREM NoSharedWork ==
    RelaySpec => []OneLiveLease
<1>1. RelayInv => OneLiveLease
  BY DEF RelayInv
<1> QED
  BY <1>1, SpecInv, PTL

LEMMA AckDeletesHandled ==
    ASSUME RelayInv,
           NEW c \in Consumers, NEW x \in claims[c], Ack(c, x)
    PROVE  DeletionIsOfHandled
<1>1. RelayTypeOK /\ InStep
  BY DEF RelayInv
<1>2. x \in Claim
  BY <1>1 DEF RelayTypeOK
<1> SUFFICES ASSUME NEW r \in Receivers, NEW m \in Messages,
                    queue[r][m] # Absent, queue'[r][m] = Absent
             PROVE  /\ x.receiver = r /\ x.message = m
                    /\ c \in Leaseless \/ (x.copy = queue[r][m].copy /\ x.left > 0)
  BY DEF DeletionIsOfHandled
<1> DEFINE lease == IF c \in Leaseless THEN NoLease ELSE x.lease
<1>3. /\ AckDecision(x.receiver, x.message, lease) = "acked"
      /\ queue' = [queue EXCEPT ![x.receiver][x.message] = Absent]
  BY DEF Ack, Remove
<1>4. x.receiver = r /\ x.message = m
  BY <1>1, <1>3 DEF RelayTypeOK
<1>5. c \notin Leaseless => queue[r][m].lease = x.lease /\ queue[r][m].left # 0
  BY <1>2, <1>3, <1>4 DEF AckDecision, RelayAssumption, Claim
<1>6. Agree(queue[r][m], x)
  BY <1>1, <1>4 DEF InStep
<1>7. queue[r][m].left \in Nat
  BY <1>1 DEF RelayTypeOK, Record
<1> QED
  BY <1>4, <1>5, <1>6, <1>7 DEF Agree

(* A message leaves the store only by an acknowledgement of the client     *)
(* that was handed this very copy, under a lease that is alive, or of one  *)
(* that names no lease; a late acknowledgement never deletes another's.    *)
THEOREM LateAcksAreRefused ==
    RelaySpec => OnlyHandledIsDeleted
<1>1. RelayInv /\ [RelayNext]_relayVars => [DeletionIsOfHandled]_relayVars
  <2> SUFFICES ASSUME RelayInv, RelayNext
               PROVE  DeletionIsOfHandled
    OBVIOUS
  <2>1. RelayTypeOK
    BY DEF RelayInv
  <2>2. ASSUME \A r \in Receivers, m \in Messages :
                 queue[r][m] # Absent => queue'[r][m] # Absent
        PROVE  DeletionIsOfHandled
    BY <2>2 DEF DeletionIsOfHandled
  <2>3. ASSUME NEW c \in Consumers, NEW r \in Receivers, NEW m \in Messages,
               Send(c, r, m)
        PROVE  DeletionIsOfHandled
    <3>1. PICK place \in Places(r, m) :
        queue' = [queue EXCEPT ![r][m] =
                    [copy |-> sends', place |-> place, lease |-> NoLease, left |-> 0]]
      BY <2>3 DEF Send, Enqueue
    <3>2. queue'[r][m] = [copy |-> sends', place |-> place, lease |-> NoLease, left |-> 0]
      BY <2>1, <3>1 DEF RelayTypeOK
    <3>3. sends' \in Copies
      BY <2>1, <2>3 DEF Send, Enqueue, RelayTypeOK, Copies
    <3>4. place \in Copies
      <4>1. queue[r][m] \in Record \cup {Absent}
        BY <2>1 DEF RelayTypeOK
      <4> QED
        BY <2>3, <3>3, <4>1 DEF Send, Enqueue, Places, Copies, Record
    <3>5. queue'[r][m] \in Record
      BY <3>2, <3>3, <3>4 DEF Record
    <3>6. \A s \in Receivers, n \in Messages :
            queue[s][n] # Absent => queue'[s][n] # Absent
      BY <2>1, <3>1, <3>5 DEF RelayTypeOK
    <3> QED
      BY <2>2, <3>6
  <2>4. ASSUME NEW c \in Consumers, NEW r \in Receivers, Poll(c, r)
        PROVE  DeletionIsOfHandled
    <3>1. PICK batch \in SUBSET Messages, lease \in Leases :
            queue' = Leased(r, batch, lease) /\ batch \subseteq Visible(r)
      BY <2>1, <2>4, PollFacts
    <3>2. \A n \in batch : queue[r][n] \in Record
      BY <2>1, <3>1 DEF Visible, Stored, RelayTypeOK
    <3>3. \A n \in batch : Claimed(queue[r][n], lease) \in Record
      BY <2>1, <3>2, Deployed DEF Claimed, Record, RelayTypeOK
    <3>4. \A s \in Receivers, n \in Messages :
            \/ queue'[s][n] = queue[s][n]
            \/ queue'[s][n] \in Record
      BY <2>1, <3>1, <3>3 DEF Leased, RelayTypeOK
    <3> QED
      BY <2>2, <3>4
  <2>5. ASSUME NEW c \in Consumers, NEW x \in claims[c], Ack(c, x)
        PROVE  DeletionIsOfHandled
    BY <2>5, AckDeletesHandled
  <2>6. ASSUME NEW c \in Consumers, Abandon(c)
        PROVE  DeletionIsOfHandled
    BY <2>2, <2>6 DEF Abandon
  <2>7. ASSUME NEW c \in Consumers, NEW r \in Receivers, Mint(c, r)
        PROVE  DeletionIsOfHandled
    BY <2>2, <2>7 DEF Mint
  <2>8. CASE Restart
    <3>1. CASE Durable
      BY <2>1, <2>2, <2>8, <3>1 DEF Restart, Survives, RelayTypeOK
    <3>2. CASE ~Durable
      BY <2>8, <3>2 DEF Restart, DeletionIsOfHandled
    <3> QED
      BY <3>1, <3>2
  <2>9. CASE Tick
    <3>1. \A q \in Record : [q EXCEPT !.left = Less(@)] \in Record
      <4>1. \A n, k \in Nat : n <= k => Less(n) \in 0 .. k
        BY DEF Less
      <4> QED
        BY <4>1 DEF Record
    <3>2. \A r \in Receivers, m \in Messages :
            queue[r][m] # Absent => queue'[r][m] \in Record
      BY <2>1, <2>9, <3>1 DEF Tick, RelayTypeOK
    <3> QED
      BY <2>2, <3>2
  <2> QED
    BY <2>1, <2>3, <2>4, <2>5, <2>6, <2>7, <2>8, <2>9, Deployed DEF RelayNext, RelayTypeOK
<1> QED
  BY <1>1, SpecInv, PTL DEF RelaySpec, OnlyHandledIsDeleted
=============================================================================
