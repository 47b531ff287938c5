------------------------------ MODULE Accounts ------------------------------
(***************************************************************************)
(* Users, devices and the keys they authenticate with (platform-api,       *)
(* server.js): registration, roles, rotation, revocation, what a           *)
(* submission of a hotline does to the device's key, and the restart that  *)
(* loads the last saved state and lets the configured admin key win.       *)
(*                                                                         *)
(* A handler changes memory in one step and answers after its save; a      *)
(* crash in between loses the change.  Keys are random and never drawn     *)
(* twice.                                                                  *)
(***************************************************************************)
EXTENDS Naturals, FiniteSets

CONSTANTS
    Users, Devices,
    Keys,           \* the keys the platform can draw
    AdminKeys,      \* values of PLATFORM_ADMIN_API_KEY over the restarts
    Unset,          \* PLATFORM_ADMIN_API_KEY is not set
    NoKey, NoRecord, Unknown

VARIABLES
    db,             \* users, responders and apiKeys in memory
    saved,          \* the same in the last snapshot
    minted,         \* history: the keys drawn so far
    revoked,        \* history: keys revoked or rotated away, and answered so
    configured      \* the admin key of this boot

accountVars == <<db, saved, minted, revoked, configured>>

Roles == {"caller", "responder", "admin"}
User == [key : Keys \cup {NoKey}, roles : SUBSET Roles]
Device == [owner : Users, key : Keys \cup {NoKey}]
CallerRecord == [type : {"caller"}, who : Users, scopes : SUBSET Roles]
DeviceRecord == [type : {"responder"}, who : Devices]
AdminRecord == [type |-> "admin"]

State == [users : [Users -> User \cup {Unknown}],
          devices : [Devices -> Device \cup {Unknown}],
          apiKeys : [Keys \cup AdminKeys ->
                        CallerRecord \cup DeviceRecord \cup {AdminRecord, NoRecord}]]

ASSUME AccountsAssumption ==
    /\ NoKey \notin Keys \cup AdminKeys /\ Unset \notin AdminKeys
    /\ Keys \cap AdminKeys = {}
    /\ NoRecord \notin CallerRecord \cup DeviceRecord \cup {AdminRecord}

AccountsTypeOK ==
    /\ db \in State /\ saved \in State
    /\ minted \subseteq Keys /\ revoked \subseteq Keys \cup AdminKeys
    /\ configured \in AdminKeys \cup {Unset}

-----------------------------------------------------------------------------
Live(s) == {k \in Keys \cup AdminKeys : s.apiKeys[k] # NoRecord}
Admins(s) == {k \in Live(s) : s.apiKeys[k].type = "admin"}

Change(s) == db' = s /\ UNCHANGED <<saved, revoked, configured>>

(* Mutant: the device keeps naming a key that was revoked. *)
Revoked_DeviceKeepsKey(s, k) ==
    [s EXCEPT !.apiKeys[k] = NoRecord,
              !.users = [u \in Users |->
                  IF s.users[u] # Unknown /\ s.users[u].key = k
                  THEN [s.users[u] EXCEPT !.key = NoKey] ELSE s.users[u]]]

(* revokeApiKey: the record goes, and its holder names no key any more. *)
Revoked(s, k) ==
    [s EXCEPT !.apiKeys[k] = NoRecord,
              !.users = [u \in Users |->
                  IF s.users[u] # Unknown /\ s.users[u].key = k
                  THEN [s.users[u] EXCEPT !.key = NoKey] ELSE s.users[u]],
              !.devices = [d \in Devices |->
                  IF s.devices[d] # Unknown /\ s.devices[d].key = k
                  THEN [s.devices[d] EXCEPT !.key = NoKey] ELSE s.devices[d]]]

RevokedIfAny(s, k) == IF k = NoKey THEN s ELSE Revoked(s, k)

WithUserKey(s, u, k) ==
    [s EXCEPT !.users[u].key = k,
              !.apiKeys[k] = [type |-> "caller", who |-> u,
                              scopes |-> {"caller"} \cup s.users[u].roles]]

(* addUserRole: the user and every caller key of the user gain the role. *)
WithRole(s, u, role) ==
    IF s.users[u] = Unknown THEN s
    ELSE [s EXCEPT
            !.users[u].roles = @ \cup {role},
            !.apiKeys = [k \in Keys \cup AdminKeys |->
                IF s.apiKeys[k] # NoRecord /\ s.apiKeys[k].type = "caller" /\ s.apiKeys[k].who = u
                THEN [s.apiKeys[k] EXCEPT !.scopes = @ \cup {role}] ELSE s.apiKeys[k]]]

Draw(k) == k \in Keys \ minted /\ minted' = minted \cup {k}

-----------------------------------------------------------------------------
(* POST /v1/users/register *)
Register(u, k) ==
    /\ db.users[u] = Unknown
    /\ Draw(k)
    /\ Change(WithUserKey([db EXCEPT !.users[u] = [key |-> NoKey, roles |-> {"caller"}]], u, k))

(* POST /v1/admin/users/:id/roles *)
GrantRole(u, role) ==
    /\ db.users[u] # Unknown
    /\ Change(WithRole(db, u, role))
    /\ UNCHANGED minted

(* POST /v1/admin/users/:id/api-keys/rotate *)
RotateUserKey(u, k) ==
    /\ db.users[u] # Unknown
    /\ Draw(k)
    /\ Change(WithUserKey(RevokedIfAny(db, db.users[u].key), u, k))

(* POST /v1/admin/responders/:id/api-keys/rotate *)
RotateDeviceKey(d, k) ==
    /\ db.devices[d] # Unknown
    /\ Draw(k)
    /\ LET s == RevokedIfAny(db, db.devices[d].key) IN
       Change([s EXCEPT !.devices[d].key = k,
                        !.apiKeys[k] = [type |-> "responder", who |-> d]])

(* POST /v1/admin/api-keys/revoke, of any key that authenticates. *)
Revoke(k) ==
    /\ k \in Live(db)
    /\ Change(Revoked(db, k))
    /\ UNCHANGED minted

(* A device submits a hotline for the first time: it gets a key. *)
EnrollDevice(u, d, k) ==
    /\ db.users[u] # Unknown /\ db.devices[d] = Unknown
    /\ Draw(k)
    /\ Change(WithRole([db EXCEPT !.devices[d] = [owner |-> u, key |-> k],
                                  !.apiKeys[k] = [type |-> "responder", who |-> d]],
                       u, "responder"))

(* It submits again: the key it names is registered once more.  A device   *)
(* whose key was revoked is answered a new key, which it is not recorded   *)
(* as holding.                                                             *)
SubmitAgain(d) ==
    /\ db.devices[d] # Unknown
    /\ LET key == db.devices[d].key
           register(k) == WithRole([db EXCEPT !.apiKeys[k] = [type |-> "responder", who |-> d]],
                                   db.devices[d].owner, "responder")
       IN  IF key # NoKey
           THEN Change(register(key)) /\ UNCHANGED minted
           ELSE \E k \in Keys : Draw(k) /\ Change(register(k))

-----------------------------------------------------------------------------
(* The state is saved; the answers to what it holds go out.  The save is   *)
(* one step: saves do not overlap here.                                    *)
SaveAccounts ==
    /\ saved' = db
    /\ revoked' = revoked \cup (Live(saved) \ Live(db))
    /\ UNCHANGED <<db, minted, configured>>

(* Mutant: the loaded admin keys stay beside the configured one. *)
Hydrated_BothAdmins(s, key) ==
    IF key = Unset THEN s ELSE [s EXCEPT !.apiKeys[key] = AdminRecord]

(* hydratePlatformState: a stated admin key replaces those of the          *)
(* snapshot, an unstated one changes nothing.                              *)
Hydrated(s, key) ==
    IF key = Unset THEN s
    ELSE [s EXCEPT !.apiKeys = [k \in Keys \cup AdminKeys |->
            IF k = key THEN AdminRecord
            ELSE IF s.apiKeys[k] = AdminRecord THEN NoRecord
            ELSE s.apiKeys[k]]]

(* A crash or a restart, perhaps with another admin key in the environment. *)
RestartPlatform(key) ==
    /\ configured' = key
    /\ db' = Hydrated(saved, key)
    /\ saved' = saved
    /\ revoked' = revoked \ {key}
    /\ UNCHANGED minted

FirstState(key) ==
    [users |-> [u \in Users |-> Unknown], devices |-> [d \in Devices |-> Unknown],
     apiKeys |-> [k \in Keys \cup AdminKeys |-> IF k = key THEN AdminRecord ELSE NoRecord]]

(* The first boot, with a configured admin key or one drawn at random. *)
AccountsInit ==
    \E key \in AdminKeys :
        /\ configured \in {key, Unset}
        /\ db = FirstState(key) /\ saved = FirstState(key)
        /\ minted = {} /\ revoked = {}

AccountsNext ==
    \/ \E u \in Users, k \in Keys : Register(u, k)
    \/ \E u \in Users, role \in Roles : GrantRole(u, role)
    \/ \E u \in Users, k \in Keys : RotateUserKey(u, k)
    \/ \E d \in Devices, k \in Keys : RotateDeviceKey(d, k)
    \/ \E k \in Keys \cup AdminKeys : Revoke(k)
    \/ \E u \in Users, d \in Devices, k \in Keys : EnrollDevice(u, d, k)
    \/ \E d \in Devices : SubmitAgain(d)
    \/ SaveAccounts
    \/ \E key \in AdminKeys \cup {Unset} : RestartPlatform(key)

AccountsSpec == AccountsInit /\ [][AccountsNext]_accountVars

-----------------------------------------------------------------------------
(* A key whose revocation or rotation was answered never authenticates     *)
(* again: neither a later submission of its device, which registers the    *)
(* key the device names, nor a restart brings it back (revokeApiKey,       *)
(* submitCatalogHotline).  Only the environment can name an admin key anew.*)
(* This is of saves that do not overlap: one that listed the key before    *)
(* its revocation (serializePlatformState) and commits after the save of   *)
(* the revocation would have a restart bring it back; SnapshotStore is     *)
(* about such saves.                                                       *)
RevokedStaysOut == revoked \cap Live(db) = {}

(* However often the admin key is changed in the environment, one admin    *)
(* key at most authenticates, and it is the configured one when there is   *)
(* one: the key of an old snapshot does not live on beside it              *)
(* (hydratePlatformState).                                                 *)
OneAdminKey ==
    /\ Cardinality(Admins(db)) <= 1
    /\ configured # Unset => Admins(db) \subseteq {configured}
=============================================================================
