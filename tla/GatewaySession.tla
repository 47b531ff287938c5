--------------------------- MODULE GatewaySession ---------------------------
(***************************************************************************)
(* The console gateway (platform-console-gateway): an encrypted secret     *)
(* store on disk, sessions with a sliding lifetime, and one passphrase and *)
(* one set of unlocked secrets in memory for all sessions together.        *)
(*                                                                         *)
(* Two handlers check the session, await their body, and then use the      *)
(* passphrase memory holds at that later moment.  The secret store itself  *)
(* (runtime-utils) is external: it opens with its own passphrase only.     *)
(* Setup and recovery are taken to end well once the store is written.     *)
(***************************************************************************)
EXTENDS Naturals, FiniteSets

CONSTANTS
    Passphrases,
    StoredKeys,     \* values of the platform admin key
    Tokens,         \* session tokens; one that is out of use may be drawn anew
    Clients,        \* requests under way
    NoValue

ASSUME GatewayAssumption == NoValue \notin Passphrases \cup StoredKeys

VARIABLES
    vault,          \* the passphrase that opens the store on disk, or NoValue
    secret,         \* the admin key in the store, or NoValue
    plain,          \* the admin key in the plain env and config files, or NoValue
    session,        \* runtime.sessions
    passphrase,     \* runtime.passphrase
    unlocked,       \* runtime.unlockedSecrets: locked, or the admin key in it
    waiting         \* what a request that was let in will do with its body

gatewayVars == <<vault, secret, plain, session, passphrase, unlocked, waiting>>

Locked == [open |-> FALSE, key |-> NoValue]
Unlocked(key) == [open |-> TRUE, key |-> key]

GatewayTypeOK ==
    /\ vault \in Passphrases \cup {NoValue} /\ passphrase \in Passphrases \cup {NoValue}
    /\ secret \in StoredKeys \cup {NoValue} /\ plain \in StoredKeys \cup {NoValue}
    /\ session \in [Tokens -> {"none", "live", "expired"}]
    /\ unlocked \in {Locked} \cup {Unlocked(k) : k \in StoredKeys \cup {NoValue}}
    /\ waiting \in [Clients -> {"nothing", "change", "credentials"}]

-----------------------------------------------------------------------------
Disk == <<vault, secret, plain>>

Pruned(s) == [t \in Tokens |-> IF s[t] = "expired" THEN "none" ELSE s[t]]
Empty(s) == \A t \in Tokens : s[t] = "none"

(* pruneExpiredSessions, on sessions s with passphrase p and secrets u in  *)
(* memory: without a session nothing stays unlocked.                       *)
Prune(s, p, u) ==
    /\ session' = Pruned(s)
    /\ passphrase' = IF Empty(Pruned(s)) THEN NoValue ELSE p
    /\ unlocked' = IF Empty(Pruned(s)) THEN Locked ELSE u

(* createSession; others are the sessions that stay. *)
NewSession(t, others, p, u) ==
    /\ others[t] = "none"
    /\ Prune([others EXCEPT ![t] = "live"], p, u)

NoSession == [t \in Tokens |-> "none"]

(* POST /session/setup: the store is made of what the plain files held,    *)
(* and those are scrubbed.                                                 *)
Setup(p, t) ==
    /\ vault = NoValue
    /\ vault' = p
    /\ secret' = IF unlocked.key # NoValue THEN unlocked.key ELSE plain
    /\ plain' = NoValue
    /\ NewSession(t, session, p, Unlocked(secret'))
    /\ UNCHANGED waiting

(* POST /session/login with the passphrase of the store. *)
Login(p, t) ==
    /\ vault # NoValue /\ p = vault
    /\ NewSession(t, session, p, Unlocked(secret))
    /\ UNCHANGED <<Disk, waiting>>

(* POST /session/recover: an empty store, and no session but the new one.  *)
(* Requests that were let in before are not called back.                   *)
Recover(p, t) ==
    /\ vault # NoValue
    /\ vault' = p /\ secret' = NoValue /\ plain' = NoValue
    /\ NewSession(t, NoSession, p, Unlocked(NoValue))
    /\ UNCHANGED waiting

(* POST /session/logout, of one session or without a token of all. *)
Logout(tokens) ==
    /\ Prune([t \in Tokens |-> IF t \in tokens THEN "none" ELSE session[t]], passphrase, unlocked)
    /\ UNCHANGED <<Disk, waiting>>

(* GET /session, a read or a proxied request, or a request that            *)
(* requireSession turns away.                                              *)
Look ==
    /\ Prune(session, passphrase, unlocked)
    /\ UNCHANGED <<Disk, waiting>>

(* requireSession lets a request in: it renews the session and awaits its  *)
(* body.                                                                   *)
LetIn(c, t, what) ==
    /\ waiting[c] = "nothing"
    /\ vault # NoValue /\ session[t] = "live"
    /\ Prune(session, passphrase, unlocked)
    /\ waiting' = [waiting EXCEPT ![c] = what]
    /\ UNCHANGED Disk

Done(c) == waiting' = [waiting EXCEPT ![c] = "nothing"]

(* Mutant: the passphrase in memory stays the one of before. *)
ChangePassphrase_OnDiskOnly(c, p) ==
    /\ waiting[c] = "change" /\ Done(c)
    /\ passphrase # NoValue /\ passphrase = vault
    /\ vault' = p
    /\ Prune(session, passphrase, Unlocked(secret))
    /\ UNCHANGED <<secret, plain>>

(* POST /session/change-passphrase, after its body. *)
ChangePassphrase(c, p) ==
    /\ waiting[c] = "change" /\ Done(c)
    /\ passphrase # NoValue /\ passphrase = vault
    /\ vault' = p
    /\ Prune(session, p, Unlocked(secret))
    /\ UNCHANGED <<secret, plain>>

(* PUT /credentials/platform-admin, after its body. *)
PutCredentials(c, key) ==
    /\ waiting[c] = "credentials" /\ Done(c)
    /\ plain' = NoValue
    /\ \/ /\ passphrase # NoValue /\ passphrase = vault
          /\ secret' = key /\ unlocked' = Unlocked(key)
       \/ UNCHANGED <<secret, unlocked>>    \* no new key, or an error after the plain files
    /\ UNCHANGED <<vault, session, passphrase>>

(* The body is missing or wrong, or nothing is unlocked any more. *)
Refused(c) ==
    /\ waiting[c] # "nothing" /\ Done(c)
    /\ UNCHANGED <<Disk, session, passphrase, unlocked>>

(* Eight hours pass without a request of the session. *)
Expire(t) ==
    /\ session[t] = "live"
    /\ session' = [session EXCEPT ![t] = "expired"]
    /\ UNCHANGED <<Disk, passphrase, unlocked, waiting>>

RestartGateway ==
    /\ session' = NoSession /\ passphrase' = NoValue /\ unlocked' = Locked
    /\ waiting' = [c \in Clients |-> "nothing"]
    /\ UNCHANGED Disk

GatewayInit ==
    /\ vault = NoValue /\ secret = NoValue /\ plain \in StoredKeys \cup {NoValue}
    /\ session = NoSession /\ passphrase = NoValue /\ unlocked = Locked
    /\ waiting = [c \in Clients |-> "nothing"]

GatewayNext ==
    \/ \E p \in Passphrases, t \in Tokens : Setup(p, t) \/ Login(p, t) \/ Recover(p, t)
    \/ \E t \in Tokens : Logout({t}) \/ Expire(t)
    \/ Logout(Tokens) \/ Look \/ RestartGateway
    \/ \E c \in Clients, t \in Tokens, what \in {"change", "credentials"} : LetIn(c, t, what)
    \/ \E c \in Clients, p \in Passphrases : ChangePassphrase(c, p)
    \/ \E c \in Clients, key \in StoredKeys : PutCredentials(c, key)
    \/ \E c \in Clients : Refused(c)

GatewaySpec == GatewayInit /\ [][GatewayNext]_gatewayVars

-----------------------------------------------------------------------------
(* The passphrase and the secrets in memory are those of the store on      *)
(* disk, and are there only while some session has not been found expired; *)
(* once there is a store, no key lies in the plain files.  So a request    *)
(* that awaited its body over a logout, a recovery or another one's change *)
(* of passphrase writes under the store's passphrase or not at all.        *)
UnlockedIsCurrent ==
    /\ passphrase # NoValue =>
         /\ passphrase = vault /\ unlocked = Unlocked(secret)
         /\ \E t \in Tokens : session[t] # "none"
    /\ passphrase = NoValue => unlocked = Locked
    /\ vault # NoValue => plain = NoValue
=============================================================================
