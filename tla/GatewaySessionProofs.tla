------------------------ MODULE GatewaySessionProofs ------------------------
(* Proofs about the console gateway, for any number of passphrases, keys,  *)
(* session tokens and requests under way.                                  *)
EXTENDS GatewaySession, TLAPS

(* What pruning leaves is what the invariant allows, when the passphrase   *)
(* and the secrets given to it are those of the store.                     *)
LEMMA PruneKeeps ==
    ASSUME NEW s \in [Tokens -> {"none", "live", "expired"}],
           NEW p \in Passphrases \cup {NoValue}, NEW u,
           Prune(s, p, u),
           p # NoValue => p = vault' /\ u = Unlocked(secret'),
           p = NoValue => u = Locked
    PROVE  /\ session' \in [Tokens -> {"none", "live", "expired"}]
           /\ passphrase' \in {p, NoValue} /\ unlocked' \in {u, Locked}
           /\ passphrase' # NoValue =>
                /\ passphrase' = vault' /\ unlocked' = Unlocked(secret')
                /\ \E t \in Tokens : session'[t] # "none"
           /\ passphrase' = NoValue => unlocked' = Locked
  BY DEF Prune, Pruned, Empty

LEMMA InitType == GatewayInit => GatewayTypeOK
  BY DEF GatewayInit, GatewayTypeOK, NoSession

LEMMA InitCurrent == GatewayInit => UnlockedIsCurrent
  BY DEF GatewayInit, UnlockedIsCurrent

LEMMA PruneType ==
    ASSUME NEW s \in [Tokens -> {"none", "live", "expired"}],
           NEW p \in Passphrases \cup {NoValue},
           NEW u \in {Locked} \cup {Unlocked(k) : k \in StoredKeys \cup {NoValue}},
           Prune(s, p, u)
    PROVE  /\ session' \in [Tokens -> {"none", "live", "expired"}]
           /\ passphrase' \in Passphrases \cup {NoValue}
           /\ unlocked' \in {Locked} \cup {Unlocked(k) : k \in StoredKeys \cup {NoValue}}
  BY DEF Prune, Pruned

(* Every step keeps the types; what a session update hands to Prune is     *)
(* within them.                                                            *)
LEMMA NextType ==
    ASSUME GatewayTypeOK, UnlockedIsCurrent, [GatewayNext]_gatewayVars
    PROVE  GatewayTypeOK'
<1> USE DEF GatewayTypeOK
<1>0. unlocked.key \in StoredKeys \cup {NoValue}
  BY DEF Locked, Unlocked
<1>1. ASSUME NEW p \in Passphrases, NEW t \in Tokens, Setup(p, t)
      PROVE  GatewayTypeOK'
  <2>1. secret' \in StoredKeys \cup {NoValue}
    BY <1>0, <1>1 DEF Setup
  <2>2. [session EXCEPT ![t] = "live"] \in [Tokens -> {"none", "live", "expired"}]
    OBVIOUS
  <2>3. Prune([session EXCEPT ![t] = "live"], p, Unlocked(secret'))
    BY <1>1 DEF Setup, NewSession
  <2> QED
    BY <1>1, <2>1, <2>2, <2>3, PruneType DEF Setup
<1>2. ASSUME NEW p \in Passphrases, NEW t \in Tokens, Login(p, t)
      PROVE  GatewayTypeOK'
  <2>2. [session EXCEPT ![t] = "live"] \in [Tokens -> {"none", "live", "expired"}]
    OBVIOUS
  <2>3. Prune([session EXCEPT ![t] = "live"], p, Unlocked(secret))
    BY <1>2 DEF Login, NewSession
  <2> QED
    BY <1>2, <2>2, <2>3, PruneType DEF Login, Disk
<1>3. ASSUME NEW p \in Passphrases, NEW t \in Tokens, Recover(p, t)
      PROVE  GatewayTypeOK'
  <2>2. [NoSession EXCEPT ![t] = "live"] \in [Tokens -> {"none", "live", "expired"}]
    BY DEF NoSession
  <2>3. Prune([NoSession EXCEPT ![t] = "live"], p, Unlocked(NoValue))
    BY <1>3 DEF Recover, NewSession
  <2> QED
    BY <1>3, <2>2, <2>3, PruneType DEF Recover
<1>4. ASSUME NEW gone, Logout(gone)
      PROVE  GatewayTypeOK'
  <2>1. Prune([t \in Tokens |-> IF t \in gone THEN "none" ELSE session[t]], passphrase, unlocked)
    BY <1>4 DEF Logout
  <2>2. [t \in Tokens |-> IF t \in gone THEN "none" ELSE session[t]]
            \in [Tokens -> {"none", "live", "expired"}]
    OBVIOUS
  <2> QED
    BY <1>4, <2>1, <2>2, PruneType DEF Logout, Disk
<1>5. ASSUME NEW t \in Tokens, Expire(t)
      PROVE  GatewayTypeOK'
  BY <1>5 DEF Expire, Disk
<1>6. CASE Look
  BY <1>6, PruneType DEF Look, Disk
<1>7. CASE RestartGateway
  BY <1>7 DEF RestartGateway, Disk, NoSession
<1>8. ASSUME NEW c \in Clients, NEW t \in Tokens, NEW what \in {"change", "credentials"},
             LetIn(c, t, what)
      PROVE  GatewayTypeOK'
  <2>1. waiting' \in [Clients -> {"nothing", "change", "credentials"}]
    BY <1>8 DEF LetIn
  <2> QED
    BY <1>8, <2>1, PruneType DEF LetIn, Disk
<1>9. ASSUME NEW c \in Clients, NEW p \in Passphrases, ChangePassphrase(c, p)
      PROVE  GatewayTypeOK'
  <2>1. waiting' \in [Clients -> {"nothing", "change", "credentials"}]
    BY <1>9 DEF ChangePassphrase, Done
  <2> QED
    BY <1>9, <2>1, PruneType DEF ChangePassphrase
<1>10. ASSUME NEW c \in Clients, NEW key \in StoredKeys, PutCredentials(c, key)
       PROVE  GatewayTypeOK'
  BY <1>10 DEF PutCredentials, Done
<1>11. ASSUME NEW c \in Clients, Refused(c)
       PROVE  GatewayTypeOK'
  BY <1>11 DEF Refused, Done, Disk
<1>12. CASE UNCHANGED gatewayVars
  BY <1>12 DEF gatewayVars
<1> QED
  BY <1>1, <1>2, <1>3, <1>4, <1>5, <1>6, <1>7, <1>8, <1>9, <1>10, <1>11, <1>12 DEF GatewayNext

(* The passphrase check of the two handlers that awaited their body makes  *)
(* them harmless: whatever happened meanwhile, they write under the        *)
(* passphrase of the store or not at all.                                  *)
LEMMA NextCurrent ==
    ASSUME GatewayTypeOK, UnlockedIsCurrent, [GatewayNext]_gatewayVars
    PROVE  UnlockedIsCurrent'
<1> USE DEF UnlockedIsCurrent
<1>0. /\ passphrase \in Passphrases \cup {NoValue}
      /\ session \in [Tokens -> {"none", "live", "expired"}]
      /\ NoValue \notin Passphrases
  BY GatewayAssumption DEF GatewayTypeOK, GatewayAssumption
<1>1. ASSUME NEW p \in Passphrases, NEW t \in Tokens, Setup(p, t)
      PROVE  UnlockedIsCurrent'
  <2>1. Prune([session EXCEPT ![t] = "live"], p, Unlocked(secret'))
    BY <1>1 DEF Setup, NewSession
  <2> QED
    BY <1>0, <1>1, <2>1, PruneKeeps DEF Setup
<1>2. ASSUME NEW p \in Passphrases, NEW t \in Tokens, Login(p, t)
      PROVE  UnlockedIsCurrent'
  <2>1. Prune([session EXCEPT ![t] = "live"], p, Unlocked(secret))
    BY <1>2 DEF Login, NewSession
  <2> QED
    BY <1>0, <1>2, <2>1, PruneKeeps DEF Login, Disk
<1>3. ASSUME NEW p \in Passphrases, NEW t \in Tokens, Recover(p, t)
      PROVE  UnlockedIsCurrent'
  <2>1. Prune([NoSession EXCEPT ![t] = "live"], p, Unlocked(NoValue))
    BY <1>3 DEF Recover, NewSession
  <2>2. [NoSession EXCEPT ![t] = "live"] \in [Tokens -> {"none", "live", "expired"}]
    BY DEF NoSession
  <2> QED
    BY <1>0, <1>3, <2>1, <2>2, PruneKeeps DEF Recover
<1>4. ASSUME NEW gone, Logout(gone)
      PROVE  UnlockedIsCurrent'
  <2>1. Prune([t \in Tokens |-> IF t \in gone THEN "none" ELSE session[t]], passphrase, unlocked)
    BY <1>4 DEF Logout
  <2>2. [t \in Tokens |-> IF t \in gone THEN "none" ELSE session[t]]
            \in [Tokens -> {"none", "live", "expired"}]
    BY <1>0
  <2> QED
    BY <1>0, <1>4, <2>1, <2>2, PruneKeeps DEF Logout, Disk
<1>5. ASSUME NEW t \in Tokens, Expire(t)
      PROVE  UnlockedIsCurrent'
  BY <1>0, <1>5 DEF Expire, Disk
<1>6. CASE Look
  BY <1>0, <1>6, PruneKeeps DEF Look, Disk
<1>7. CASE RestartGateway
  BY <1>7 DEF RestartGateway, Disk
<1>8. ASSUME NEW c \in Clients, NEW t \in Tokens, NEW what, LetIn(c, t, what)
      PROVE  UnlockedIsCurrent'
  BY <1>0, <1>8, PruneKeeps DEF LetIn, Disk
<1>9. ASSUME NEW c \in Clients, NEW p \in Passphrases, ChangePassphrase(c, p)
      PROVE  UnlockedIsCurrent'
  BY <1>0, <1>9, PruneKeeps DEF ChangePassphrase
<1>10. ASSUME NEW c \in Clients, NEW key \in StoredKeys, PutCredentials(c, key)
       PROVE  UnlockedIsCurrent'
  BY <1>10 DEF PutCredentials
<1>11. ASSUME NEW c \in Clients, Refused(c)
       PROVE  UnlockedIsCurrent'
  BY <1>11 DEF Refused, Disk
<1>12. CASE UNCHANGED gatewayVars
  BY <1>12 DEF gatewayVars
<1> QED
  BY <1>1, <1>2, <1>3, <1>4, <1>5, <1>6, <1>7, <1>8, <1>9, <1>10, <1>11, <1>12 DEF GatewayNext

LEMMA Current ==
    GatewaySpec => [](GatewayTypeOK /\ UnlockedIsCurrent)
<1>1. GatewayInit => GatewayTypeOK /\ UnlockedIsCurrent
  BY InitType, InitCurrent
<1>2. GatewayTypeOK /\ UnlockedIsCurrent /\ [GatewayNext]_gatewayVars
         => GatewayTypeOK' /\ UnlockedIsCurrent'
  BY NextType, NextCurrent
<1> QED
  BY <1>1, <1>2, PTL DEF GatewaySpec

(* Whatever logouts, recoveries, expiries and changes of passphrase        *)
(* happen while requests await their bodies, what memory has unlocked is   *)
(* what the store on disk holds, and it is unlocked only while a session   *)
(* is there.                                                               *)
THEOREM MemoryIsCurrent ==
    GatewaySpec => []UnlockedIsCurrent
  BY Current, PTL

(* Sessions, passphrases and waiting requests stay well typed. *)
THEOREM GatewayTypes ==
    GatewaySpec => []GatewayTypeOK
  BY Current, PTL
=============================================================================
