----------------------- MODULE PlatformServicesProofs -----------------------
(***************************************************************************)
(* Theorems about the services of the platform beside billing whose proofs *)
(* are short: accounts, review tests, the artifact channel and the alert   *)
(* loop, for every value of their constants; and about the module that     *)
(* composes all the services.                                              *)
(***************************************************************************)
EXTENDS MCPlatformServices, HotlineCatalogProofs, CallTimelineProofs, GatewaySessionProofs,
        TLAPS, FiniteSetTheorems

----------------------------------------------------------------------------
(* Accounts: what the operations of a handler do to a state *)

\* Every key a device names is one that authenticates.
InHand(s) ==
    \A d \in Devices :
        s.devices[d] # Unknown /\ s.devices[d].key # NoKey => s.devices[d].key \in Live(s)

\* State t follows state s when at most the keys drawn authenticate in
\* addition, no admin key does, and devices name keys that authenticate.
Follows(s, t, drawn) ==
    /\ t \in State /\ InHand(t)
    /\ Live(t) \subseteq Live(s) \cup drawn
    /\ Admins(t) \subseteq Admins(s)

LEMMA RecordTypes ==
    /\ \A rec \in CallerRecord : rec.type = "caller" /\ rec # NoRecord
    /\ \A rec \in DeviceRecord : rec.type = "responder" /\ rec # NoRecord
    /\ AdminRecord.type = "admin" /\ AdminRecord # NoRecord
  BY AccountsAssumption DEF AccountsAssumption, CallerRecord, DeviceRecord, AdminRecord

LEMMA FollowsOf ==
    ASSUME NEW s \in State, NEW t \in State, NEW drawn, InHand(t),
           \A k \in Keys \cup AdminKeys :
               \/ t.apiKeys[k] = NoRecord
               \/ k \in Live(s) /\ t.apiKeys[k].type = s.apiKeys[k].type
               \/ k \in Live(s) \cup drawn /\ t.apiKeys[k].type # "admin"
    PROVE  Follows(s, t, drawn)
  BY DEF Follows, Live, Admins

LEMMA RevokedFollows ==
    ASSUME NEW s \in State, InHand(s), NEW k \in Keys \cup AdminKeys
    PROVE  /\ Follows(s, Revoked(s, k), {})
           /\ \A u \in Users : s.users[u] \in User => Revoked(s, k).users[u] \in User
           /\ \A d \in Devices : s.devices[d] \in Device => Revoked(s, k).devices[d] \in Device
  <1> DEFINE t == Revoked(s, k)
  <1>1. /\ t.apiKeys = [s.apiKeys EXCEPT ![k] = NoRecord]
        /\ t.users = [u \in Users |->
                  IF s.users[u] # Unknown /\ s.users[u].key = k
                  THEN [s.users[u] EXCEPT !.key = NoKey] ELSE s.users[u]]
        /\ t.devices = [d \in Devices |->
                  IF s.devices[d] # Unknown /\ s.devices[d].key = k
                  THEN [s.devices[d] EXCEPT !.key = NoKey] ELSE s.devices[d]]
        /\ t = [users |-> t.users, devices |-> t.devices, apiKeys |-> t.apiKeys]
    <2>1. s = [users |-> s.users, devices |-> s.devices, apiKeys |-> s.apiKeys]
      BY DEF State
    <2>2. t = [s EXCEPT !.apiKeys = t.apiKeys, !.users = t.users, !.devices = t.devices]
      BY <2>1 DEF Revoked
    <2>3. t = [users |-> t.users, devices |-> t.devices, apiKeys |-> t.apiKeys]
      <3> HIDE DEF t
      <3> QED
        BY <2>1, <2>2
    <2> QED
      BY <2>1, <2>3 DEF Revoked
  <1> HIDE DEF t
  <1>2. /\ s.users \in [Users -> User \cup {Unknown}]
        /\ s.devices \in [Devices -> Device \cup {Unknown}]
        /\ s.apiKeys \in [Keys \cup AdminKeys ->
                        CallerRecord \cup DeviceRecord \cup {AdminRecord, NoRecord}]
    BY DEF State
  <1>3. /\ \A u \in Users : s.users[u] \in User => [s.users[u] EXCEPT !.key = NoKey] \in User
        /\ \A d \in Devices : s.devices[d] \in Device =>
              /\ [s.devices[d] EXCEPT !.key = NoKey] \in Device
              /\ [s.devices[d] EXCEPT !.key = NoKey].key = NoKey
    BY DEF User, Device
  <1>4. t.users \in [Users -> User \cup {Unknown}]
    BY <1>1, <1>2, <1>3
  <1>5. t.devices \in [Devices -> Device \cup {Unknown}]
    BY <1>1, <1>2, <1>3
  <1>6. t.apiKeys \in [Keys \cup AdminKeys ->
                        CallerRecord \cup DeviceRecord \cup {AdminRecord, NoRecord}]
    BY <1>1, <1>2
  <1>7. t \in State
    BY <1>1, <1>4, <1>5, <1>6 DEF State
  <1>8. InHand(t)
    <2> SUFFICES ASSUME NEW d \in Devices, t.devices[d] # Unknown, t.devices[d].key # NoKey
                 PROVE  t.devices[d].key \in Live(t)
      BY DEF InHand
    <2>1. t.devices[d] = s.devices[d] /\ s.devices[d].key # k
      BY <1>1, <1>2, <1>3
    <2> QED
      BY <1>1, <1>2, <2>1 DEF InHand, Live
  <1>9. \A q \in Keys \cup AdminKeys : t.apiKeys[q] = NoRecord \/ t.apiKeys[q] = s.apiKeys[q]
    BY <1>1, <1>2
  <1>10. Follows(s, t, {})
    BY <1>7, <1>8, <1>9, FollowsOf DEF Live
  <1> QED
    BY <1>1, <1>2, <1>3, <1>10 DEF t

LEMMA RevokedIfAnyFollows ==
    ASSUME NEW s \in State, InHand(s), NEW k \in Keys \cup {NoKey}
    PROVE  /\ Follows(s, RevokedIfAny(s, k), {})
           /\ \A u \in Users : s.users[u] \in User => RevokedIfAny(s, k).users[u] \in User
           /\ \A d \in Devices : s.devices[d] \in Device => RevokedIfAny(s, k).devices[d] \in Device
  <1>1. CASE k = NoKey
    BY <1>1 DEF RevokedIfAny, Follows
  <1>2. CASE k # NoKey
    BY <1>2, RevokedFollows DEF RevokedIfAny
  <1> QED
    BY <1>1, <1>2

LEMMA WithUserKeyFollows ==
    ASSUME NEW s \in State, InHand(s), NEW u \in Users, s.users[u] \in User, NEW k \in Keys
    PROVE  Follows(s, WithUserKey(s, u, k), {k})
  <1> DEFINE t == WithUserKey(s, u, k)
             rec == [type |-> "caller", who |-> u, scopes |-> {"caller"} \cup s.users[u].roles]
  <1>1. /\ t.users = [s.users EXCEPT ![u] = [s.users[u] EXCEPT !.key = k]]
        /\ t.apiKeys = [s.apiKeys EXCEPT ![k] = rec]
        /\ t.devices = s.devices
        /\ t = [users |-> t.users, devices |-> t.devices, apiKeys |-> t.apiKeys]
    <2>1. s = [users |-> s.users, devices |-> s.devices, apiKeys |-> s.apiKeys]
      BY DEF State
    <2>2. t = [s EXCEPT !.users = t.users, !.apiKeys = t.apiKeys]
      BY <2>1 DEF WithUserKey
    <2>3. t.devices = s.devices
      BY <2>1 DEF WithUserKey
    <2>4. t = [users |-> t.users, devices |-> t.devices, apiKeys |-> t.apiKeys]
      <3> HIDE DEF t
      <3> QED
        BY <2>1, <2>2, <2>3
    <2> QED
      BY <2>1, <2>3, <2>4 DEF WithUserKey
  <1>2. rec \in CallerRecord /\ [s.users[u] EXCEPT !.key = k] \in User
    BY DEF CallerRecord, User, Roles
  <1> HIDE DEF t, rec
  <1>3. t \in State
    BY <1>1, <1>2 DEF State
  <1>4. /\ t.apiKeys[k] = rec
        /\ \A q \in Keys \cup AdminKeys : q # k => t.apiKeys[q] = s.apiKeys[q]
    BY <1>1 DEF State
  <1>5. InHand(t)
    BY <1>1, <1>2, <1>4, RecordTypes DEF InHand, Live
  <1>6. Follows(s, t, {k})
    <2>1. \A q \in Keys \cup AdminKeys :
               \/ t.apiKeys[q] = NoRecord
               \/ q \in Live(s) /\ t.apiKeys[q].type = s.apiKeys[q].type
               \/ q \in Live(s) \cup {k} /\ t.apiKeys[q].type # "admin"
      BY <1>2, <1>4, RecordTypes DEF Live
    <2> QED
      BY <1>3, <1>5, <2>1, FollowsOf
  <1> QED
    BY <1>6 DEF t

LEMMA WithRoleFollows ==
    ASSUME NEW s \in State, InHand(s), NEW u \in Users, NEW role \in Roles
    PROVE  Follows(s, WithRole(s, u, role), {})
  <1> DEFINE t == WithRole(s, u, role)
             raised(k) == [s.apiKeys[k] EXCEPT !.scopes = @ \cup {role}]
             gains(k) == s.apiKeys[k] # NoRecord /\ s.apiKeys[k].type = "caller" /\ s.apiKeys[k].who = u
  <1>1. CASE s.users[u] = Unknown
    BY <1>1 DEF WithRole, Follows
  <1>2. CASE s.users[u] # Unknown
    <2>1. /\ t.users = [s.users EXCEPT ![u] = [s.users[u] EXCEPT !.roles = s.users[u].roles \cup {role}]]
          /\ t.apiKeys = [k \in Keys \cup AdminKeys |-> IF gains(k) THEN raised(k) ELSE s.apiKeys[k]]
          /\ t.devices = s.devices
          /\ t = [users |-> t.users, devices |-> t.devices, apiKeys |-> t.apiKeys]
      BY <1>2 DEF WithRole, State
    <2>2. [s.users[u] EXCEPT !.roles = s.users[u].roles \cup {role}] \in User
      <3>1. s.users[u] \in User
        BY <1>2 DEF State
      <3> QED
        BY <3>1 DEF User
    <2>3. ASSUME NEW k \in Keys \cup AdminKeys, gains(k)
          PROVE  raised(k) \in CallerRecord /\ raised(k).type = "caller"
      <3>1. s.apiKeys[k] \in CallerRecord
        BY <2>3, RecordTypes DEF State
      <3> QED
        BY <3>1 DEF CallerRecord
    <2>4. s.apiKeys \in [Keys \cup AdminKeys ->
                        CallerRecord \cup DeviceRecord \cup {AdminRecord, NoRecord}]
      BY DEF State
    <2> HIDE DEF t, raised
    <2>5. t \in State
      <3>1. t.apiKeys \in [Keys \cup AdminKeys ->
                        CallerRecord \cup DeviceRecord \cup {AdminRecord, NoRecord}]
        BY <2>1, <2>3, <2>4
      <3>2. t.users \in [Users -> User \cup {Unknown}]
        BY <2>1, <2>2 DEF State
      <3>3. t.devices \in [Devices -> Device \cup {Unknown}]
        BY <2>1 DEF State
      <3> QED
        BY <2>1, <3>1, <3>2, <3>3 DEF State
    <2>6. \A k \in Keys \cup AdminKeys :
             /\ t.apiKeys[k] # NoRecord <=> s.apiKeys[k] # NoRecord
             /\ t.apiKeys[k].type = s.apiKeys[k].type
      BY <2>1, <2>3, RecordTypes
    <2>7. InHand(t)
      BY <2>1, <2>6 DEF InHand, Live
    <2>8. Follows(s, t, {})
      BY <2>5, <2>6, <2>7, FollowsOf DEF Live
    <2> QED
      BY <2>8 DEF t
  <1> QED
    BY <1>1, <1>2

\* Registering key k for a device, which names that key or is given it.
LEMMA DeviceKeyFollows ==
    ASSUME NEW s \in State, InHand(s), NEW d \in Devices, NEW k \in Keys, NEW t,
           t.users = s.users,
           t.apiKeys = [s.apiKeys EXCEPT ![k] = [type |-> "responder", who |-> d]],
           t = [users |-> t.users, devices |-> t.devices, apiKeys |-> t.apiKeys],
           NEW device \in Device, device.key = k,
           t.devices = s.devices \/ t.devices = [s.devices EXCEPT ![d] = device]
    PROVE  Follows(s, t, {k})
  <1> DEFINE rec == [type |-> "responder", who |-> d]
  <1>1. rec \in DeviceRecord
    BY DEF DeviceRecord
  <1> HIDE DEF rec
  <1>2. /\ t.apiKeys[k] = rec
        /\ \A q \in Keys \cup AdminKeys : q # k => t.apiKeys[q] = s.apiKeys[q]
    BY DEF State, rec
  <1>3. t \in State
    BY <1>1 DEF State, rec
  <1>4. InHand(t)
    <2> SUFFICES ASSUME NEW e \in Devices, t.devices[e] # Unknown, t.devices[e].key # NoKey
                 PROVE  t.devices[e].key \in Live(t)
      BY DEF InHand
    <2>1. k \in Live(t) /\ \A q \in Live(s) : q \in Live(t)
      BY <1>1, <1>2, RecordTypes DEF Live
    <2>2. t.devices[e] = s.devices[e] \/ t.devices[e] = device
      BY DEF State
    <2> QED
      BY <2>1, <2>2 DEF InHand
  <1> QED
    BY <1>1, <1>2, <1>3, <1>4, FollowsOf, RecordTypes DEF Live

-----------------------------------------------------------------------------
(* Accounts: the invariant *)

AccountsInv ==
    /\ AccountsTypeOK
    /\ InHand(db) /\ InHand(saved)
    /\ Live(db) \cap Keys \subseteq minted
    /\ Live(saved) \cap Keys \subseteq minted
    /\ revoked \cap Keys \subseteq minted
    /\ revoked \cap Live(db) = {}
    /\ revoked \cap Live(saved) = {}
    /\ \A k, q \in Admins(db) : k = q
    /\ \A k, q \in Admins(saved) : k = q
    /\ configured # Unset => Admins(db) \subseteq {configured}
    /\ Admins(db) \subseteq AdminKeys /\ Admins(saved) \subseteq AdminKeys

LEMMA FollowsTransitive ==
    ASSUME NEW s, NEW t, NEW v, NEW drawn, Follows(s, t, drawn), Follows(t, v, {})
    PROVE  Follows(s, v, drawn)
  BY DEF Follows

\* Revoking before following: nothing is drawn by it.
LEMMA FollowsRevoked ==
    ASSUME NEW s, NEW t, NEW v, NEW drawn, Follows(s, t, {}), Follows(t, v, drawn)
    PROVE  Follows(s, v, drawn)
  BY DEF Follows

\* Any handler that changes memory keeps the invariant when what it leaves
\* follows what it found and the keys it drew are new.
LEMMA HandlerKeeps ==
    ASSUME AccountsInv, NEW drawn \in SUBSET (Keys \ minted), Follows(db, db', drawn),
           minted' = minted \cup drawn, UNCHANGED <<saved, revoked, configured>>
    PROVE  AccountsInv'
  <1>1. AccountsTypeOK'
    BY DEF AccountsInv, AccountsTypeOK, Follows
  <1>2. InHand(db)' /\ InHand(saved)'
    BY DEF AccountsInv, Follows, InHand, Live
  <1>3. Live(saved)' = Live(saved) /\ Admins(saved)' = Admins(saved)
    BY DEF Live, Admins
  <1>4. Live(db)' \subseteq Live(db) \cup drawn /\ Admins(db)' \subseteq Admins(db)
    BY DEF Follows, Live, Admins
  <1> QED
    BY <1>1, <1>2, <1>3, <1>4 DEF AccountsInv

LEMMA AccountsInvInit == AccountsInit => AccountsInv
  <1> SUFFICES ASSUME NEW key \in AdminKeys, configured \in {key, Unset},
                      db = FirstState(key), saved = FirstState(key), minted = {}, revoked = {}
               PROVE  AccountsInv
    BY DEF AccountsInit
  <1>1. FirstState(key) \in State
    BY DEF FirstState, State
  <1>2. /\ \A d \in Devices : FirstState(key).devices[d] = Unknown
        /\ \A k \in Keys \cup AdminKeys :
              FirstState(key).apiKeys[k] = IF k = key THEN AdminRecord ELSE NoRecord
    BY DEF FirstState
  <1>3. InHand(FirstState(key))
    BY <1>2 DEF InHand
  <1>4. Live(FirstState(key)) \subseteq {key} /\ Admins(FirstState(key)) \subseteq {key}
    BY <1>2 DEF Live, Admins
  <1>5. AccountsTypeOK
    BY <1>1 DEF AccountsTypeOK
  <1> QED
    BY <1>3, <1>4, <1>5, AccountsAssumption DEF AccountsInv, AccountsAssumption

LEMMA AccountsInvRegister ==
    ASSUME AccountsInv, NEW u \in Users, NEW k \in Keys, Register(u, k)
    PROVE  AccountsInv'
  <1> DEFINE fresh == [key |-> NoKey, roles |-> {"caller"}]
             s == [db EXCEPT !.users[u] = fresh]
  <1>1. /\ db \in State /\ InHand(db) /\ fresh \in User
        /\ k \in Keys \ minted /\ minted' = minted \cup {k}
        /\ db' = WithUserKey(s, u, k) /\ UNCHANGED <<saved, revoked, configured>>
    BY DEF AccountsInv, AccountsTypeOK, Register, Draw, Change, User, Roles
  <1>2. /\ s \in State /\ s.users[u] = fresh
        /\ s.devices = db.devices /\ s.apiKeys = db.apiKeys
    BY <1>1 DEF State
  <1> HIDE DEF s, fresh
  <1>3. InHand(s) /\ Live(s) = Live(db) /\ Admins(s) = Admins(db)
    BY <1>1, <1>2 DEF InHand, Live, Admins
  <1>4. Follows(s, db', {k})
    BY <1>1, <1>2, <1>3, WithUserKeyFollows
  <1>5. Follows(db, db', {k})
    BY <1>3, <1>4 DEF Follows
  <1> QED
    BY <1>1, <1>5, HandlerKeeps

LEMMA AccountsInvGrantRole ==
    ASSUME AccountsInv, NEW u \in Users, NEW role \in Roles, GrantRole(u, role)
    PROVE  AccountsInv'
  <1>1. Follows(db, db', {})
    BY WithRoleFollows DEF AccountsInv, AccountsTypeOK, GrantRole, Change
  <1> QED
    BY <1>1, HandlerKeeps DEF GrantRole, Change

LEMMA AccountsInvRotateUserKey ==
    ASSUME AccountsInv, NEW u \in Users, NEW k \in Keys, RotateUserKey(u, k)
    PROVE  AccountsInv'
  <1> DEFINE s == RevokedIfAny(db, db.users[u].key)
  <1>1. /\ db \in State /\ InHand(db) /\ db.users[u] # Unknown
        /\ k \in Keys \ minted /\ minted' = minted \cup {k}
        /\ db' = WithUserKey(s, u, k) /\ UNCHANGED <<saved, revoked, configured>>
    BY DEF AccountsInv, AccountsTypeOK, RotateUserKey, Draw, Change
  <1>2. db.users[u] \in User /\ db.users[u].key \in Keys \cup {NoKey}
    BY <1>1 DEF State, User
  <1>3. Follows(db, s, {}) /\ s.users[u] \in User
    BY <1>1, <1>2, RevokedIfAnyFollows
  <1> HIDE DEF s
  <1>4. Follows(s, db', {k})
    BY <1>1, <1>3, WithUserKeyFollows DEF Follows
  <1>5. Follows(db, db', {k})
    BY <1>3, <1>4, FollowsRevoked
  <1> QED
    BY <1>1, <1>5, HandlerKeeps

LEMMA AccountsInvRotateDeviceKey ==
    ASSUME AccountsInv, NEW d \in Devices, NEW k \in Keys, RotateDeviceKey(d, k)
    PROVE  AccountsInv'
  <1> DEFINE s == RevokedIfAny(db, db.devices[d].key)
             device == [s.devices[d] EXCEPT !.key = k]
             rec == [type |-> "responder", who |-> d]
  <1>1. /\ db \in State /\ InHand(db) /\ db.devices[d] # Unknown
        /\ k \in Keys \ minted /\ minted' = minted \cup {k}
        /\ db' = [s EXCEPT !.devices[d].key = k, !.apiKeys[k] = rec]
        /\ UNCHANGED <<saved, revoked, configured>>
    BY DEF AccountsInv, AccountsTypeOK, RotateDeviceKey, Draw, Change
  <1>2. db.devices[d] \in Device /\ db.devices[d].key \in Keys \cup {NoKey}
    BY <1>1 DEF State, Device
  <1>3. Follows(db, s, {}) /\ s.devices[d] \in Device
    BY <1>1, <1>2, RevokedIfAnyFollows
  <1>4. device \in Device /\ device.key = k
    BY <1>3 DEF Device
  <1> HIDE DEF s, rec
  <1>5. s \in State /\ InHand(s)
    BY <1>3 DEF Follows
  <1>6. /\ db'.users = s.users /\ db'.apiKeys = [s.apiKeys EXCEPT ![k] = rec]
        /\ db'.devices = [s.devices EXCEPT ![d] = device]
        /\ db' = [users |-> db'.users, devices |-> db'.devices, apiKeys |-> db'.apiKeys]
    <2>1. s = [users |-> s.users, devices |-> s.devices, apiKeys |-> s.apiKeys]
      BY <1>5 DEF State
    <2>2. /\ db'.users = s.users /\ db'.apiKeys = [s.apiKeys EXCEPT ![k] = rec]
          /\ db'.devices = [s.devices EXCEPT ![d] = device]
      BY <1>1, <2>1
    <2>3. db' = [s EXCEPT !.devices = db'.devices, !.apiKeys = db'.apiKeys]
      BY <1>1, <2>1
    <2>4. db' = [users |-> db'.users, devices |-> db'.devices, apiKeys |-> db'.apiKeys]
      BY <2>1, <2>2, <2>3
    <2> QED
      BY <2>2, <2>4
  <1> HIDE DEF device
  <1>7. Follows(s, db', {k})
    BY <1>4, <1>5, <1>6, DeviceKeyFollows DEF rec
  <1>8. Follows(db, db', {k})
    BY <1>3, <1>7, FollowsRevoked
  <1> QED
    BY <1>1, <1>8, HandlerKeeps

LEMMA AccountsInvRevoke ==
    ASSUME AccountsInv, NEW k \in Keys \cup AdminKeys, Revoke(k)
    PROVE  AccountsInv'
  <1>1. Follows(db, db', {})
    BY RevokedFollows DEF AccountsInv, AccountsTypeOK, Revoke, Change
  <1> QED
    BY <1>1, HandlerKeeps DEF Revoke, Change

LEMMA AccountsInvEnrollDevice ==
    ASSUME AccountsInv, NEW u \in Users, NEW d \in Devices, NEW k \in Keys, EnrollDevice(u, d, k)
    PROVE  AccountsInv'
  <1> DEFINE device == [owner |-> u, key |-> k]
             rec == [type |-> "responder", who |-> d]
             s == [db EXCEPT !.devices[d] = device, !.apiKeys[k] = rec]
  <1>1. /\ db \in State /\ InHand(db)
        /\ k \in Keys \ minted /\ minted' = minted \cup {k}
        /\ db' = WithRole(s, u, "responder") /\ UNCHANGED <<saved, revoked, configured>>
    BY DEF AccountsInv, AccountsTypeOK, EnrollDevice, Draw, Change
  <1>2. device \in Device /\ device.key = k /\ "responder" \in Roles
    BY DEF Device, Roles
  <1>3. /\ s.users = db.users /\ s.apiKeys = [db.apiKeys EXCEPT ![k] = rec]
        /\ s.devices = [db.devices EXCEPT ![d] = device]
        /\ s = [users |-> s.users, devices |-> s.devices, apiKeys |-> s.apiKeys]
    <2>1. db = [users |-> db.users, devices |-> db.devices, apiKeys |-> db.apiKeys]
      BY <1>1 DEF State
    <2> HIDE DEF device, rec
    <2>2. /\ s.users = db.users /\ s.apiKeys = [db.apiKeys EXCEPT ![k] = rec]
          /\ s.devices = [db.devices EXCEPT ![d] = device]
      BY <2>1
    <2>3. s = [db EXCEPT !.devices = s.devices, !.apiKeys = s.apiKeys]
      BY <2>1
    <2>4. s = [users |-> s.users, devices |-> s.devices, apiKeys |-> s.apiKeys]
      <3> HIDE DEF s
      <3> QED
        BY <2>1, <2>2, <2>3
    <2> QED
      BY <2>2, <2>4
  <1> HIDE DEF s, device
  <1>4. Follows(db, s, {k})
    BY <1>1, <1>2, <1>3, DeviceKeyFollows
  <1>5. Follows(s, db', {})
    BY <1>1, <1>2, <1>4, WithRoleFollows DEF Follows
  <1>6. Follows(db, db', {k})
    BY <1>4, <1>5, FollowsTransitive
  <1> QED
    BY <1>1, <1>6, HandlerKeeps

\* Submitting again registers a key for the device: the one it names, which
\* authenticates already, or a new one.
LEMMA AccountsInvSubmitAgain ==
    ASSUME AccountsInv, NEW d \in Devices, SubmitAgain(d)
    PROVE  AccountsInv'
  <1> DEFINE registered(k) == [db EXCEPT !.apiKeys[k] = [type |-> "responder", who |-> d]]
  <1>1. /\ db \in State /\ InHand(db) /\ db.devices[d] # Unknown
        /\ UNCHANGED <<saved, revoked, configured>>
    BY DEF AccountsInv, AccountsTypeOK, SubmitAgain, Change
  <1>2. /\ db.devices[d] \in Device /\ db.devices[d].owner \in Users
        /\ db.devices[d].key \in Keys \cup {NoKey}
    BY <1>1 DEF State, Device
  <1>3. ASSUME NEW k \in Keys
        PROVE  Follows(db, WithRole(registered(k), db.devices[d].owner, "responder"), {k})
    <2> DEFINE s == registered(k)
               device == [owner |-> db.devices[d].owner, key |-> k]
    <2>1. /\ s.users = db.users
          /\ s.apiKeys = [db.apiKeys EXCEPT ![k] = [type |-> "responder", who |-> d]]
          /\ s.devices = db.devices
          /\ s = [users |-> s.users, devices |-> s.devices, apiKeys |-> s.apiKeys]
      <3>1. db = [users |-> db.users, devices |-> db.devices, apiKeys |-> db.apiKeys]
        BY <1>1 DEF State
      <3>2. /\ s.users = db.users /\ s.devices = db.devices
            /\ s.apiKeys = [db.apiKeys EXCEPT ![k] = [type |-> "responder", who |-> d]]
        BY <3>1
      <3>3. s = [db EXCEPT !.apiKeys = s.apiKeys]
        BY <3>1
      <3>4. s = [users |-> s.users, devices |-> s.devices, apiKeys |-> s.apiKeys]
        <4> HIDE DEF s
        <4> QED
          BY <3>1, <3>2, <3>3
      <3> QED
        BY <3>2, <3>4
    <2>2. device \in Device /\ device.key = k /\ "responder" \in Roles
      BY <1>2 DEF Device, Roles
    <2> HIDE DEF s, device
    <2>3. Follows(db, s, {k})
      BY <1>1, <2>1, <2>2, DeviceKeyFollows
    <2>4. Follows(s, WithRole(s, db.devices[d].owner, "responder"), {})
      BY <1>2, <2>2, <2>3, WithRoleFollows DEF Follows
    <2>5. Follows(db, WithRole(s, db.devices[d].owner, "responder"), {k})
      BY <2>3, <2>4, FollowsTransitive
    <2> QED
      BY <2>5 DEF s
  <1>4. CASE db.devices[d].key # NoKey
    <2>1. /\ db' = WithRole(registered(db.devices[d].key), db.devices[d].owner, "responder")
          /\ minted' = minted
      BY <1>4 DEF SubmitAgain, Change
    <2> HIDE DEF registered
    <2>2. db.devices[d].key \in Keys /\ db.devices[d].key \in Live(db)
      BY <1>1, <1>2, <1>4 DEF InHand
    <2>3. Follows(db, db', {db.devices[d].key})
      BY <1>3, <2>1, <2>2
    <2>4. Follows(db, db', {})
      BY <2>2, <2>3 DEF Follows
    <2> QED
      BY <1>1, <2>1, <2>4, HandlerKeeps
  <1>5. CASE db.devices[d].key = NoKey
    <2>1. PICK k \in Keys : /\ k \notin minted /\ minted' = minted \cup {k}
                            /\ db' = WithRole(registered(k), db.devices[d].owner, "responder")
      BY <1>5 DEF SubmitAgain, Change, Draw
    <2> HIDE DEF registered
    <2>2. Follows(db, db', {k})
      BY <1>3, <2>1
    <2> QED
      BY <1>1, <2>1, <2>2, HandlerKeeps
  <1> QED
    BY <1>4, <1>5

LEMMA AccountsInvSave == AccountsInv /\ SaveAccounts => AccountsInv'
  <1> SUFFICES ASSUME AccountsInv, SaveAccounts PROVE AccountsInv'
    OBVIOUS
  <1>1. AccountsTypeOK'
    BY DEF AccountsInv, AccountsTypeOK, SaveAccounts, Live
  <1>2. /\ Live(db)' = Live(db) /\ Admins(db)' = Admins(db) /\ InHand(db)' = InHand(db)
        /\ Live(saved)' = Live(db) /\ Admins(saved)' = Admins(db) /\ InHand(saved)' = InHand(db)
        /\ revoked' = revoked \cup (Live(saved) \ Live(db))
        /\ UNCHANGED <<minted, configured>>
    BY DEF SaveAccounts, Live, Admins, InHand
  <1> QED
    BY <1>1, <1>2 DEF AccountsInv

\* The restart: only the configured key is an admin's, and what else
\* authenticates did so before.
LEMMA AccountsInvRestart ==
    ASSUME AccountsInv, NEW key \in AdminKeys \cup {Unset}, RestartPlatform(key)
    PROVE  AccountsInv'
  <1>1. /\ saved \in State /\ InHand(saved) /\ AccountsTypeOK
        /\ db' = Hydrated(saved, key) /\ saved' = saved /\ configured' = key
        /\ minted' = minted /\ revoked' = revoked \ {key}
    BY DEF AccountsInv, AccountsTypeOK, RestartPlatform
  <1>2. Live(saved)' = Live(saved) /\ Admins(saved)' = Admins(saved) /\ InHand(saved)'
    BY <1>1 DEF Live, Admins, InHand
  <1>3. CASE key = Unset
    <2>1. db' = saved
      BY <1>1, <1>3 DEF Hydrated
    <2>2. Live(db)' = Live(saved) /\ Admins(db)' = Admins(saved) /\ InHand(db)'
      BY <1>1, <2>1 DEF Live, Admins, InHand
    <2>3. AccountsTypeOK'
      BY <1>1, <2>1 DEF AccountsTypeOK
    <2> QED
      BY <1>1, <1>2, <1>3, <2>2, <2>3 DEF AccountsInv
  <1>4. CASE key # Unset
    <2> DEFINE t == Hydrated(saved, key)
    <2>1. /\ key \in AdminKeys /\ key \notin Keys
          /\ t.users = saved.users /\ t.devices = saved.devices
          /\ t.apiKeys = [k \in Keys \cup AdminKeys |->
                             IF k = key THEN AdminRecord
                             ELSE IF saved.apiKeys[k] = AdminRecord THEN NoRecord
                             ELSE saved.apiKeys[k]]
          /\ t = [users |-> t.users, devices |-> t.devices, apiKeys |-> t.apiKeys]
      BY <1>1, <1>4, AccountsAssumption DEF AccountsAssumption, Hydrated, State
    <2> HIDE DEF t
    <2>2. t \in State
      <3>1. t.apiKeys \in [Keys \cup AdminKeys ->
                        CallerRecord \cup DeviceRecord \cup {AdminRecord, NoRecord}]
        BY <1>1, <2>1 DEF State
      <3> QED
        BY <1>1, <2>1, <3>1 DEF State
    <2>3. \A k \in Keys \cup AdminKeys :
             /\ k = key => t.apiKeys[k] = AdminRecord
             /\ k # key /\ saved.apiKeys[k] = AdminRecord => t.apiKeys[k] = NoRecord
             /\ k # key /\ saved.apiKeys[k] # AdminRecord => t.apiKeys[k] = saved.apiKeys[k]
      BY <2>1
    <2>4. Admins(t) \subseteq {key}
      <3>1. \A k \in Keys \cup AdminKeys :
              saved.apiKeys[k] \in CallerRecord \cup DeviceRecord \cup {AdminRecord, NoRecord}
        BY <1>1 DEF State
      <3> QED
        BY <2>3, <3>1, RecordTypes DEF Admins, Live
    <2>5. Live(t) \subseteq Live(saved) \cup {key}
      BY <2>3, RecordTypes DEF Live
    <2>6. InHand(t)
      <3> SUFFICES ASSUME NEW d \in Devices, t.devices[d] # Unknown, t.devices[d].key # NoKey
                   PROVE  t.devices[d].key \in Live(t)
        BY DEF InHand
      <3> DEFINE k == t.devices[d].key
      <3>1. k \in Live(saved) /\ k \in Keys
        BY <1>1, <2>1 DEF InHand, State, Device
      <3>2. saved.apiKeys[k] # AdminRecord
        BY <3>1, RecordTypes, AccountsAssumption
        DEF AccountsInv, Admins, AccountsAssumption
      <3> QED
        BY <2>1, <2>3, <3>1, <3>2 DEF Live
    <2>7. /\ db' = t /\ Live(db)' = Live(t) /\ Admins(db)' = Admins(t) /\ InHand(db)'
      BY <1>1, <2>6 DEF Live, Admins, InHand, t
    <2>8. AccountsTypeOK'
      BY <1>1, <2>2, <2>7 DEF AccountsTypeOK
    <2> QED
      BY <1>1, <1>2, <2>1, <2>4, <2>5, <2>7, <2>8 DEF AccountsInv
  <1> QED
    BY <1>3, <1>4

LEMMA AccountsInvStep == AccountsInv /\ [AccountsNext]_accountVars => AccountsInv'
  <1> SUFFICES ASSUME AccountsInv, [AccountsNext]_accountVars PROVE AccountsInv'
    OBVIOUS
  <1>1. ASSUME NEW u \in Users, NEW k \in Keys, Register(u, k) PROVE AccountsInv'
    BY <1>1, AccountsInvRegister
  <1>2. ASSUME NEW u \in Users, NEW role \in Roles, GrantRole(u, role) PROVE AccountsInv'
    BY <1>2, AccountsInvGrantRole
  <1>3. ASSUME NEW u \in Users, NEW k \in Keys, RotateUserKey(u, k) PROVE AccountsInv'
    BY <1>3, AccountsInvRotateUserKey
  <1>4. ASSUME NEW d \in Devices, NEW k \in Keys, RotateDeviceKey(d, k) PROVE AccountsInv'
    BY <1>4, AccountsInvRotateDeviceKey
  <1>5. ASSUME NEW k \in Keys \cup AdminKeys, Revoke(k) PROVE AccountsInv'
    BY <1>5, AccountsInvRevoke
  <1>6. ASSUME NEW u \in Users, NEW d \in Devices, NEW k \in Keys, EnrollDevice(u, d, k)
        PROVE  AccountsInv'
    BY <1>6, AccountsInvEnrollDevice
  <1>7. ASSUME NEW d \in Devices, SubmitAgain(d) PROVE AccountsInv'
    BY <1>7, AccountsInvSubmitAgain
  <1>8. CASE SaveAccounts
    BY <1>8, AccountsInvSave
  <1>9. ASSUME NEW key \in AdminKeys \cup {Unset}, RestartPlatform(key) PROVE AccountsInv'
    BY <1>9, AccountsInvRestart
  <1>10. CASE UNCHANGED accountVars
    BY <1>10
    DEF accountVars, AccountsInv, AccountsTypeOK, InHand, Live, Admins
  <1> QED
    BY <1>1, <1>2, <1>3, <1>4, <1>5, <1>6, <1>7, <1>8, <1>9, <1>10 DEF AccountsNext

LEMMA AccountsInvHolds == AccountsSpec => []AccountsInv
  BY AccountsInvInit, AccountsInvStep, PTL DEF AccountsSpec

(* Users, devices and keys have their types in memory and in the snapshot  *)
(* through every handler and every restart (platform-api, server.js).      *)
THEOREM AccountsTyped == AccountsSpec => []AccountsTypeOK
  <1>1. AccountsInv => AccountsTypeOK
    BY DEF AccountsInv
  <1> QED
    BY <1>1, AccountsInvHolds, PTL

(* A key whose revocation or rotation was answered never authenticates     *)
(* again, however many users, devices, restarts and admin keys there are:  *)
(* a submission registers only the key its device names, and a device      *)
(* names only keys that authenticate (submitCatalogHotline, revokeApiKey). *)
THEOREM RevokedKeysStayOut == AccountsSpec => []RevokedStaysOut
  <1>1. AccountsInv => RevokedStaysOut
    BY DEF AccountsInv, RevokedStaysOut
  <1> QED
    BY <1>1, AccountsInvHolds, PTL

(* At most one admin key authenticates after any restarts, and it is the   *)
(* configured one when one is (hydratePlatformState).                      *)
THEOREM OneAdminKeyAlways == AccountsSpec => []OneAdminKey
  <1>1. ASSUME AccountsInv PROVE OneAdminKey
    <2>1. Cardinality(Admins(db)) <= 1
      <3>1. CASE Admins(db) = {}
        BY <3>1, FS_EmptySet
      <3>2. CASE Admins(db) # {}
        <4>1. PICK k \in Admins(db) : TRUE
          BY <3>2
        <4>2. Admins(db) = {k}
          BY <1>1, <4>1 DEF AccountsInv
        <4> QED
          BY <4>2, FS_Singleton
      <3> QED
        BY <3>1, <3>2
    <2> QED
      BY <1>1, <2>1 DEF AccountsInv, OneAdminKey
  <1> QED
    BY <1>1, AccountsInvHolds, PTL

-----------------------------------------------------------------------------
(* Review tests *)

\* A job that runs or has ended has its record, and from the moment the
\* verdict is audited the audit trail ends with it.
Audited(t) ==
    /\ stage[t] \in Working \cup {"done"} => test[t] \in TestRecord
    /\ stage[t] \in {"closing", "recording", "done"} => audited[t] = test[t].verdict

ReviewInv ==
    /\ ReviewTypeOK
    /\ \A t \in Tests : Audited(t)

\* A record of a test under a verdict.
LEMMA CompletedRecord ==
    ASSUME NEW rec \in TestRecord, NEW verdict \in Outcomes
    PROVE  /\ [rec EXCEPT !.status = "completed", !.verdict = verdict] \in TestRecord
           /\ [rec EXCEPT !.status = "completed", !.verdict = verdict].verdict = verdict
  BY DEF TestRecord

LEMMA ReviewInvInit == ReviewInit => ReviewInv
  <1> SUFFICES ASSUME ReviewInit PROVE ReviewInv
    OBVIOUS
  <1>1. ReviewTypeOK
    BY ReviewAssumption
    DEF ReviewAssumption, ReviewInit, ReviewTypeOK, Stage, Message
  <1>2. \A t \in Tests : Audited(t)
    BY DEF ReviewInit, Audited, Working
  <1> QED
    BY <1>1, <1>2 DEF ReviewInv

\* A step of the job of one test, which leaves the other tests alone.
LEMMA JobKeeps ==
    ASSUME ReviewInv, NEW t \in Tests, NEW at \in Stage, GoTo(t, at),
           NEW rec \in TestRecord, NEW verdict \in Outcomes \cup {None},
           test' = test \/ test' = [test EXCEPT ![t] = rec],
           audited' = audited \/ audited' = [audited EXCEPT ![t] = verdict],
           at \in Working \cup {"done"} => test'[t] \in TestRecord,
           at \in {"closing", "recording", "done"} => audited'[t] = test'[t].verdict
    PROVE  /\ test' \in [Tests -> TestRecord \cup {None}]
           /\ audited' \in [Tests -> Outcomes \cup {None}]
           /\ stage' \in [Tests -> Stage]
           /\ \A u \in Tests : Audited(u)'
  <1>1. /\ test \in [Tests -> TestRecord \cup {None}]
        /\ audited \in [Tests -> Outcomes \cup {None}]
        /\ stage \in [Tests -> Stage] /\ \A u \in Tests : Audited(u)
    BY DEF ReviewInv, ReviewTypeOK
  <1>2. /\ test' \in [Tests -> TestRecord \cup {None}]
        /\ audited' \in [Tests -> Outcomes \cup {None}]
        /\ stage' \in [Tests -> Stage] /\ stage'[t] = at
    BY <1>1 DEF GoTo
  <1>3. \A u \in Tests : u # t =>
           test'[u] = test[u] /\ audited'[u] = audited[u] /\ stage'[u] = stage[u]
    BY <1>1 DEF GoTo
  <1>4. ASSUME NEW u \in Tests PROVE Audited(u)'
    <2>1. CASE u = t
      BY <1>2, <2>1 DEF Audited
    <2>2. CASE u # t
      BY <1>1, <1>3, <2>2 DEF Audited
    <2> QED
      BY <2>1, <2>2
  <1> QED
    BY <1>2, <1>4

LEMMA ReviewInvStart ==
    ASSUME ReviewInv, NEW t \in Tests, NEW q \in Requests, Start(t, q)
    PROVE  ReviewInv'
  <1> DEFINE rec == [request |-> q, status |-> "running", verdict |-> None]
  <1>1. /\ test' = [test EXCEPT ![t] = rec] /\ audited' = audited
        /\ UNCHANGED <<inbox, tasked>>
        /\ ReviewTypeOK
    BY DEF Start, ReviewInv
  <1>2. rec \in TestRecord
    BY DEF TestRecord
  <1> HIDE DEF rec
  <1>3. test'[t] \in TestRecord
    BY <1>1, <1>2 DEF ReviewTypeOK
  <1>4. PICK at \in {"sending", "dead"} : GoTo(t, at)
    BY DEF Start
  <1>5. /\ test' \in [Tests -> TestRecord \cup {None}]
        /\ audited' \in [Tests -> Outcomes \cup {None}]
        /\ stage' \in [Tests -> Stage]
        /\ \A u \in Tests : Audited(u)'
    <2>1. at \in Stage /\ None \in Outcomes \cup {None}
      BY DEF Stage
    <2> QED
      BY <1>1, <1>2, <1>3, <1>4, <2>1, JobKeeps
  <1>6. failures' \in 0 .. MaxTestFailures
    BY <1>1, ReviewAssumption DEF Start, ReviewTypeOK, ReviewAssumption
  <1>7. stored' = stored \/ stored' = [test |-> test', audited |-> audited']
    BY DEF Start, SaveTests
  <1> QED
    BY <1>1, <1>5, <1>6, <1>7 DEF ReviewInv, ReviewTypeOK

\* What the relay and the device do moves messages and no test.
LEMMA ReviewInvRelay ==
    ASSUME ReviewInv, UNCHANGED <<test, stage, tasked, stored, audited, failures>>,
           inbox' \in [Requests -> [Outcomes -> Message]]
    PROVE  ReviewInv'
  BY DEF ReviewInv, ReviewTypeOK, Audited

LEMMA ReviewInvAnswer ==
    ASSUME ReviewInv, NEW q \in Requests, NEW outcome \in Outcomes, Answer(q, outcome)
    PROVE  ReviewInv'
  <1>1. inbox' \in [Requests -> [Outcomes -> Message]]
    BY DEF Answer, ReviewInv, ReviewTypeOK, Message
  <1> QED
    BY <1>1, ReviewInvRelay DEF Answer

LEMMA ReviewInvLeaseEnds ==
    ASSUME ReviewInv, NEW q \in Requests, LeaseEnds(q)
    PROVE  ReviewInv'
  <1>1. inbox' \in [Requests -> [Outcomes -> Message]]
    BY DEF LeaseEnds, ReviewInv, ReviewTypeOK, Message
  <1> QED
    BY <1>1, ReviewInvRelay DEF LeaseEnds

LEMMA ReviewInvSendTask ==
    ASSUME ReviewInv, NEW t \in Tests, SendTask(t)
    PROVE  ReviewInv'
  <1>1. /\ ReviewTypeOK /\ stage[t] = "sending" /\ test[t] \in TestRecord
    BY DEF ReviewInv, Audited, SendTask, At, Working, Stage
  <1>2. GoTo(t, "polling") /\ UNCHANGED <<test, inbox, stored, audited, failures>>
        /\ tasked' = tasked \cup {test[t].request}
    BY DEF SendTask
  <1>3. "polling" \in Stage
    BY DEF Stage
  <1>4. stage' \in [Tests -> Stage] /\ \A u \in Tests : Audited(u)'
    BY <1>1, <1>2, <1>3, JobKeeps
  <1>5. test[t].request \in Requests
    BY <1>1 DEF TestRecord
  <1> QED
    BY <1>1, <1>2, <1>4, <1>5 DEF ReviewInv, ReviewTypeOK

LEMMA ReviewInvPollResult ==
    ASSUME ReviewInv, NEW t \in Tests, PollResult(t)
    PROVE  ReviewInv'
  <1>1. /\ ReviewTypeOK /\ stage[t] = "polling" /\ test[t] \in TestRecord
        /\ UNCHANGED <<test, tasked, stored, audited, failures>>
    BY DEF ReviewInv, Audited, PollResult, At, Working, Stage
  <1>2. PICK at \in {"acking pass", "acking fail"} : GoTo(t, at)
    BY DEF PollResult
  <1>3. stage' \in [Tests -> Stage] /\ \A u \in Tests : Audited(u)'
    <2>1. at \in Stage
      BY DEF Stage
    <2> QED
      BY <1>1, <1>2, <2>1, JobKeeps
  <1>4. inbox' \in [Requests -> [Outcomes -> Message]]
    <2>1. test[t].request \in Requests
      BY <1>1 DEF TestRecord
    <2> DEFINE leased == [x \in Outcomes |-> IF inbox[test[t].request][x] = "visible"
                                              THEN "leased" ELSE inbox[test[t].request][x]]
    <2>2. inbox' = [inbox EXCEPT ![test[t].request] = leased]
      BY DEF PollResult
    <2>3. leased \in [Outcomes -> Message]
      BY <1>1, <2>1 DEF ReviewTypeOK, Message
    <2> HIDE DEF leased
    <2> QED
      BY <1>1, <2>1, <2>2, <2>3 DEF ReviewTypeOK
  <1> QED
    BY <1>1, <1>3, <1>4 DEF ReviewInv, ReviewTypeOK

LEMMA ReviewInvJudge ==
    ASSUME ReviewInv, NEW t \in Tests, NEW outcome \in Outcomes, Judge(t, outcome)
    PROVE  ReviewInv'
  <1> DEFINE rec == [test[t] EXCEPT !.status = "completed", !.verdict = outcome]
  <1>1. /\ ReviewTypeOK /\ test[t] \in TestRecord
        /\ UNCHANGED <<tasked, stored, audited, failures>> /\ GoTo(t, "saving")
        /\ test' = [test EXCEPT ![t] = rec]
    BY DEF ReviewInv, Audited, Judge, At, Working, Stage, Completed
  <1>2. rec \in TestRecord
    BY <1>1, CompletedRecord
  <1> HIDE DEF rec
  <1>3. test'[t] \in TestRecord /\ "saving" \in Stage
    BY <1>1, <1>2 DEF ReviewTypeOK, Stage
  <1>4. /\ test' \in [Tests -> TestRecord \cup {None}]
        /\ stage' \in [Tests -> Stage] /\ \A u \in Tests : Audited(u)'
    BY <1>1, <1>2, <1>3, JobKeeps
  <1>5. inbox' \in [Requests -> [Outcomes -> Message]]
    <2>1. test[t].request \in Requests
      BY <1>1 DEF TestRecord
    <2> QED
      BY <1>1, <2>1 DEF Judge, ReviewTypeOK, Message
  <1> QED
    BY <1>1, <1>4, <1>5 DEF ReviewInv, ReviewTypeOK

LEMMA ReviewInvTimeOut ==
    ASSUME ReviewInv, NEW t \in Tests, TimeOut(t)
    PROVE  ReviewInv'
  <1> DEFINE rec == [test[t] EXCEPT !.status = "completed", !.verdict = "fail"]
  <1>1. /\ ReviewTypeOK /\ test[t] \in TestRecord
        /\ UNCHANGED <<inbox, tasked, stored, audited, failures>> /\ GoTo(t, "saving")
        /\ test' = [test EXCEPT ![t] = rec]
    BY DEF ReviewInv, Audited, TimeOut, At, Working, Stage, Completed
  <1>2. rec \in TestRecord
    BY <1>1, CompletedRecord DEF Outcomes
  <1> HIDE DEF rec
  <1>3. test'[t] \in TestRecord /\ "saving" \in Stage
    BY <1>1, <1>2 DEF ReviewTypeOK, Stage
  <1>4. /\ test' \in [Tests -> TestRecord \cup {None}]
        /\ stage' \in [Tests -> Stage] /\ \A u \in Tests : Audited(u)'
    BY <1>1, <1>2, <1>3, JobKeeps
  <1> QED
    BY <1>1, <1>4 DEF ReviewInv, ReviewTypeOK

LEMMA ReviewInvSaveVerdict ==
    ASSUME ReviewInv, NEW t \in Tests, SaveVerdict(t)
    PROVE  ReviewInv'
  <1>1. /\ ReviewTypeOK /\ test[t] \in TestRecord
        /\ UNCHANGED <<test, inbox, tasked, failures>> /\ GoTo(t, "closing")
        /\ audited' = [audited EXCEPT ![t] = test[t].verdict]
        /\ stored' = [test |-> test, audited |-> audited]
    BY DEF ReviewInv, Audited, SaveVerdict, At, Working, Stage, Audit
  <1>2. /\ audited'[t] = test'[t].verdict /\ "closing" \in Stage
        /\ test[t].verdict \in Outcomes \cup {None}
    BY <1>1 DEF ReviewTypeOK, Stage, TestRecord
  <1>3. /\ audited' \in [Tests -> Outcomes \cup {None}]
        /\ stage' \in [Tests -> Stage] /\ \A u \in Tests : Audited(u)'
    BY <1>1, <1>2, JobKeeps
  <1> QED
    BY <1>1, <1>3 DEF ReviewInv, ReviewTypeOK

LEMMA ReviewInvSaveAudit ==
    ASSUME ReviewInv, NEW t \in Tests, SaveAudit(t) \/ SaveError(t)
    PROVE  ReviewInv'
  <1>1. /\ ReviewTypeOK /\ test[t] \in TestRecord /\ audited[t] = test[t].verdict
        /\ UNCHANGED <<test, inbox, tasked, audited, failures>> /\ GoTo(t, "done")
        /\ stored' = [test |-> test', audited |-> audited']
    BY DEF ReviewInv, Audited, SaveAudit, SaveError, At, Working, Stage, SaveTests
  <1>2. "done" \in Stage
    BY DEF Stage
  <1>3. stage' \in [Tests -> Stage] /\ \A u \in Tests : Audited(u)'
    BY <1>1, <1>2, JobKeeps
  <1> QED
    BY <1>1, <1>3 DEF ReviewInv, ReviewTypeOK

\* The error path overturns the verdict and audits that in the same step.
LEMMA ReviewInvStepFails ==
    ASSUME ReviewInv, NEW t \in Tests, StepFails(t)
    PROVE  ReviewInv'
  <1> DEFINE rec == [test[t] EXCEPT !.status = "completed", !.verdict = "fail"]
  <1>1. /\ ReviewTypeOK /\ test[t] \in TestRecord
        /\ UNCHANGED <<inbox, tasked, stored>> /\ GoTo(t, "recording")
        /\ test' = [test EXCEPT ![t] = rec] /\ audited' = [audited EXCEPT ![t] = "fail"]
    BY DEF ReviewInv, Audited, StepFails, Caught, Completed, Audit
  <1>2. rec \in TestRecord /\ rec.verdict = "fail" /\ "fail" \in Outcomes
    BY <1>1, CompletedRecord DEF Outcomes
  <1> HIDE DEF rec
  <1>3. /\ test'[t] \in TestRecord /\ audited'[t] = test'[t].verdict
        /\ "recording" \in Stage /\ "fail" \in Outcomes \cup {None}
    BY <1>1, <1>2 DEF ReviewTypeOK, Stage
  <1>4. /\ test' \in [Tests -> TestRecord \cup {None}]
        /\ audited' \in [Tests -> Outcomes \cup {None}]
        /\ stage' \in [Tests -> Stage] /\ \A u \in Tests : Audited(u)'
    BY <1>1, <1>2, <1>3, JobKeeps
  <1>5. failures' \in 0 .. MaxTestFailures
    BY <1>1, ReviewAssumption DEF StepFails, ReviewTypeOK, ReviewAssumption
  <1> QED
    BY <1>1, <1>4, <1>5 DEF ReviewInv, ReviewTypeOK

LEMMA ReviewInvRestart == ReviewInv /\ RestartJobs => ReviewInv'
  <1> SUFFICES ASSUME ReviewInv, RestartJobs PROVE ReviewInv'
    OBVIOUS
  <1>1. ReviewTypeOK'
    <2>1. /\ stored.test \in [Tests -> TestRecord \cup {None}]
          /\ stored.audited \in [Tests -> Outcomes \cup {None}]
      BY DEF ReviewInv, ReviewTypeOK
    <2>2. stage' \in [Tests -> Stage]
      BY DEF RestartJobs, Stage
    <2>3. failures' \in 0 .. MaxTestFailures
      BY ReviewAssumption DEF ReviewInv, ReviewTypeOK, RestartJobs, ReviewAssumption
    <2> QED
      BY <2>1, <2>2, <2>3 DEF ReviewInv, ReviewTypeOK, RestartJobs
  <1>2. \A t \in Tests : stage'[t] \in {"idle", "dead"}
    BY DEF RestartJobs
  <1>3. \A t \in Tests : Audited(t)'
    BY <1>2 DEF Audited, Working
  <1> QED
    BY <1>1, <1>3 DEF ReviewInv

LEMMA ReviewInvStep == ReviewInv /\ [ReviewNext]_reviewVars => ReviewInv'
  <1> SUFFICES ASSUME ReviewInv, [ReviewNext]_reviewVars PROVE ReviewInv'
    OBVIOUS
  <1>1. ASSUME NEW t \in Tests, NEW q \in Requests, Start(t, q) PROVE ReviewInv'
    BY <1>1, ReviewInvStart
  <1>2. ASSUME NEW q \in Requests, NEW o \in Outcomes, Answer(q, o) PROVE ReviewInv'
    BY <1>2, ReviewInvAnswer
  <1>3. ASSUME NEW q \in Requests, LeaseEnds(q) PROVE ReviewInv'
    BY <1>3, ReviewInvLeaseEnds
  <1>4. ASSUME NEW t \in Tests, PollResult(t) PROVE ReviewInv'
    BY <1>4, ReviewInvPollResult
  <1>5. ASSUME NEW t \in Tests, StepFails(t) PROVE ReviewInv'
    BY <1>5, ReviewInvStepFails
  <1>6. ASSUME NEW t \in Tests, Job(t) PROVE ReviewInv'
    <2>1. ASSUME NEW o \in Outcomes, Judge(t, o) PROVE ReviewInv'
      BY <2>1, ReviewInvJudge
    <2>2. CASE SendTask(t)
      BY <2>2, ReviewInvSendTask
    <2>3. CASE TimeOut(t)
      BY <2>3, ReviewInvTimeOut
    <2>4. CASE SaveVerdict(t)
      BY <2>4, ReviewInvSaveVerdict
    <2>5. CASE SaveAudit(t) \/ SaveError(t)
      BY <2>5, ReviewInvSaveAudit
    <2> QED
      BY <1>6, <2>1, <2>2, <2>3, <2>4, <2>5 DEF Job
  <1>7. CASE RestartJobs
    BY <1>7, ReviewInvRestart
  <1>8. CASE UNCHANGED reviewVars
    BY <1>8 DEF reviewVars, ReviewInv, ReviewTypeOK, Audited
  <1> QED
    BY <1>1, <1>2, <1>3, <1>4, <1>5, <1>6, <1>7, <1>8 DEF ReviewNext

LEMMA ReviewInvHolds == ReviewSpec => []ReviewInv
  BY ReviewInvInit, ReviewInvStep, PTL DEF ReviewSpec

(* Tests, their snapshot, the relay's messages and the jobs have their     *)
(* types, and a job that runs has its record.                              *)
THEOREM ReviewTyped == ReviewSpec => []ReviewTypeOK
  <1>1. ReviewInv => ReviewTypeOK
    BY DEF ReviewInv
  <1> QED
    BY <1>1, ReviewInvHolds, PTL

(* For every number of tests, requests and failures: the audit trail of a  *)
(* job that has run to its end ends with the verdict its test shows, also  *)
(* when the job failed after its first verdict was audited (the catch of   *)
(* the review job in server.js).                                           *)
THEOREM AuditTrailAgrees == ReviewSpec => []AuditEndsWithVerdict
  <1>1. ReviewInv => AuditEndsWithVerdict
    BY DEF ReviewInv, Audited, AuditEndsWithVerdict
  <1> QED
    BY <1>1, ReviewInvHolds, PTL

-----------------------------------------------------------------------------
(* The artifact channel *)

\* While a patient sender has a request under way there is no other.  During
\* an upload nothing is committed and nothing answered, and once the store has
\* renamed the file, the bytes are those of the upload; a commit names what
\* the last upload was answered for.
UploadAlone(u) ==
    /\ upload[u].at = "free" => upload[u] = Free
    /\ upload[u].at # "free" =>
          /\ \A v \in Uploads : upload[v].at # "free" => v = u
          /\ upload[u].content \in Contents
    /\ upload[u].at \in {"receiving", "renamed", "saving"} =>
          acked = NoBytes /\ record.lifecycle # "committed"
    /\ upload[u].at = "committing" => acked = upload[u].content
    /\ upload[u].at \in {"renamed", "saving"} => bytes = upload[u].content

PatientInv ==
    /\ ArtifactTypeOK
    /\ \A u \in Uploads : UploadAlone(u)
    /\ acked # NoBytes => bytes = acked
    /\ record.lifecycle = "committed" => record.checksum = bytes
    /\ kept.lifecycle = "committed" => record.lifecycle = "committed" /\ kept.checksum = bytes

LEMMA FreeUpload == Free \in Put /\ Free.at = "free"
  BY DEF Free, Put, Known

LEMMA NoContentIsNoBytes == \A c \in Contents : c # NoBytes
  BY ArtifactAssumption DEF ArtifactAssumption

LEMMA AllocatedRecord ==
    /\ NoArtifact \in ArtifactRecord /\ NoArtifact.lifecycle = "absent"
    /\ [NoArtifact EXCEPT !.lifecycle = "allocated"] \in ArtifactRecord
    /\ [NoArtifact EXCEPT !.lifecycle = "allocated"].lifecycle = "allocated"
  BY DEF NoArtifact, ArtifactRecord, Known

LEMMA ObservedRecord ==
    ASSUME NEW rec \in ArtifactRecord, NEW c \in Known
    PROVE  /\ [rec EXCEPT !.observed = c] \in ArtifactRecord
           /\ [rec EXCEPT !.observed = c].lifecycle = rec.lifecycle
           /\ [rec EXCEPT !.observed = c].checksum = rec.checksum
  BY DEF ArtifactRecord

LEMMA CommittedRecord ==
    ASSUME NEW rec \in ArtifactRecord, NEW c \in Known
    PROVE  /\ [rec EXCEPT !.lifecycle = "committed", !.checksum = c] \in ArtifactRecord
           /\ [rec EXCEPT !.lifecycle = "committed", !.checksum = c].lifecycle = "committed"
           /\ [rec EXCEPT !.lifecycle = "committed", !.checksum = c].checksum = c
  BY DEF ArtifactRecord

LEMMA PatientInvInit == ArtifactInit => PatientInv
  <1> SUFFICES ASSUME ArtifactInit PROVE PatientInv
    OBVIOUS
  <1>1. ArtifactTypeOK
    BY FreeUpload, AllocatedRecord DEF ArtifactInit, ArtifactTypeOK, Known
  <1>2. \A u \in Uploads : UploadAlone(u)
    BY FreeUpload DEF ArtifactInit, UploadAlone
  <1> QED
    BY <1>1, <1>2, AllocatedRecord DEF ArtifactInit, PatientInv

\* Allocating, saving and the grant's end touch neither uploads nor bytes.
LEMMA PatientInvRecord ==
    ASSUME PatientInv, Allocate \/ GrantExpires \/ SaveArtifact
    PROVE  PatientInv'
  <1>1. ArtifactTypeOK /\ UNCHANGED <<bytes, upload, acked>> /\ expired' \in BOOLEAN
    BY DEF PatientInv, ArtifactTypeOK, Allocate, GrantExpires, SaveArtifact
  <1>2. \/ record' = record
        \/ /\ record' \in ArtifactRecord
           /\ record.lifecycle = "absent" /\ record'.lifecycle = "allocated"
    BY AllocatedRecord DEF Allocate, GrantExpires, SaveArtifact
  <1>3. kept' = kept \/ kept' = record'
    BY DEF Allocate, GrantExpires, SaveArtifact, Keep
  <1>4. record' \in ArtifactRecord /\ kept' \in ArtifactRecord
    BY <1>1, <1>2, <1>3 DEF ArtifactTypeOK
  <1>5. \A u \in Uploads : UploadAlone(u)'
    BY <1>1, <1>2 DEF PatientInv, UploadAlone
  <1> QED
    BY <1>1, <1>2, <1>3, <1>4, <1>5 DEF PatientInv, ArtifactTypeOK

LEMMA PatientInvBegin ==
    ASSUME Patient, PatientInv, NEW u \in Uploads, NEW c \in Contents, BeginUpload(u, c)
    PROVE  PatientInv'
  <1> DEFINE put == [at |-> "receiving", content |-> c]
  <1>1. /\ \A v \in Uploads : upload[v] = Free
        /\ record.lifecycle = "allocated"
        /\ upload' = [upload EXCEPT ![u] = put] /\ acked' = NoBytes
        /\ UNCHANGED <<record, kept, bytes, expired>>
        /\ ArtifactTypeOK
    BY DEF BeginUpload, PatientInv
  <1>2. put \in Put /\ put.at = "receiving" /\ put.content = c
    BY DEF Put, Known
  <1> HIDE DEF put
  <1>3. upload' \in [Uploads -> Put]
    BY <1>1, <1>2 DEF ArtifactTypeOK
  <1>4. /\ upload'[u] = put
        /\ \A v \in Uploads : v # u => upload'[v] = Free
    BY <1>1 DEF ArtifactTypeOK
  <1>5. ASSUME NEW v \in Uploads PROVE UploadAlone(v)'
    <2>1. CASE v = u
      BY <1>1, <1>2, <1>4, <2>1, FreeUpload DEF UploadAlone
    <2>2. CASE v # u
      BY <1>4, <2>2, FreeUpload DEF UploadAlone
    <2> QED
      BY <2>1, <2>2
  <1>6. NoBytes \in Known
    BY DEF Known
  <1> QED
    BY <1>1, <1>3, <1>5, <1>6 DEF PatientInv, ArtifactTypeOK

LEMMA PatientInvRefuse ==
    ASSUME PatientInv, NEW u \in Uploads, RefuseBody(u)
    PROVE  PatientInv'
  <1>1. /\ upload' \in [Uploads -> Put]
        /\ \A v \in Uploads : upload'[v] = upload[v] \/ upload'[v] = Free
        /\ UNCHANGED <<record, kept, bytes, acked, expired>>
    BY FreeUpload DEF RefuseBody, PatientInv, ArtifactTypeOK
  <1>2. ASSUME NEW v \in Uploads PROVE UploadAlone(v)'
    <2>1. CASE upload'[v] = Free
      BY <2>1, FreeUpload DEF UploadAlone
    <2>2. CASE upload'[v] = upload[v]
      <3>1. UploadAlone(v)
        BY DEF PatientInv
      <3>2. \A w \in Uploads : upload'[w].at # "free" => upload[w].at # "free"
        BY <1>1, FreeUpload
      <3> QED
        BY <1>1, <2>2, <3>1, <3>2 DEF UploadAlone
    <2> QED
      BY <1>1, <2>1, <2>2
  <1> QED
    BY <1>1, <1>2 DEF PatientInv, ArtifactTypeOK

\* An upload goes on: its stage moves, its content and the others stay.
LEMMA MoveFields ==
    ASSUME ArtifactTypeOK, NEW u \in Uploads, NEW at \in {"receiving", "renamed", "saving"},
           Move(u, at)
    PROVE  /\ upload' \in [Uploads -> Put]
           /\ upload'[u].at = at /\ upload'[u].content = upload[u].content
           /\ \A v \in Uploads : v # u => upload'[v] = upload[v]
  <1>1. upload[u] \in Put /\ upload' = [upload EXCEPT ![u] = [upload[u] EXCEPT !.at = at]]
    BY DEF ArtifactTypeOK, Move
  <1>2. /\ [upload[u] EXCEPT !.at = at] \in Put
        /\ [upload[u] EXCEPT !.at = at].at = at
        /\ [upload[u] EXCEPT !.at = at].content = upload[u].content
    BY <1>1 DEF Put
  <1> QED
    BY <1>1, <1>2 DEF ArtifactTypeOK

LEMMA PatientInvStore ==
    ASSUME PatientInv, NEW u \in Uploads, StoreBytes(u)
    PROVE  PatientInv'
  <1>1. /\ ArtifactTypeOK /\ upload[u].at = "receiving" /\ UploadAlone(u)
        /\ bytes' = upload[u].content /\ Move(u, "renamed")
        /\ UNCHANGED <<record, kept, acked, expired>>
    BY DEF PatientInv, StoreBytes
  <1>2. /\ upload' \in [Uploads -> Put]
        /\ upload'[u].at = "renamed" /\ upload'[u].content = upload[u].content
        /\ \A v \in Uploads : v # u => upload'[v] = upload[v]
    BY <1>1, MoveFields
  <1>3. /\ acked = NoBytes /\ record.lifecycle # "committed" /\ kept.lifecycle # "committed"
        /\ upload[u].content \in Contents
        /\ \A v \in Uploads : upload[v].at # "free" => v = u
    BY <1>1 DEF UploadAlone, PatientInv
  <1>4. \A v \in Uploads : UploadAlone(v)'
    BY <1>1, <1>2, <1>3 DEF PatientInv, UploadAlone
  <1> QED
    BY <1>1, <1>2, <1>3, <1>4 DEF PatientInv, ArtifactTypeOK, Known

LEMMA PatientInvObserve ==
    ASSUME PatientInv, NEW u \in Uploads, Observe(u)
    PROVE  PatientInv'
  <1>1. /\ ArtifactTypeOK /\ upload[u].at = "renamed" /\ UploadAlone(u)
        /\ record' = [record EXCEPT !.observed = upload[u].content] /\ Move(u, "saving")
        /\ UNCHANGED <<kept, bytes, acked, expired>>
    BY DEF PatientInv, Observe
  <1>2. /\ upload' \in [Uploads -> Put]
        /\ upload'[u].at = "saving" /\ upload'[u].content = upload[u].content
        /\ \A v \in Uploads : v # u => upload'[v] = upload[v]
    BY <1>1, MoveFields
  <1>3. /\ record' \in ArtifactRecord /\ record'.lifecycle = record.lifecycle
        /\ record'.checksum = record.checksum
    <2>1. record \in ArtifactRecord /\ upload[u].content \in Known
      BY <1>1 DEF ArtifactTypeOK, UploadAlone, Known
    <2> QED
      BY <1>1, <2>1, ObservedRecord
  <1>4. \A v \in Uploads : UploadAlone(v)'
    BY <1>1, <1>2, <1>3 DEF PatientInv, UploadAlone
  <1> QED
    BY <1>1, <1>2, <1>3, <1>4 DEF PatientInv, ArtifactTypeOK

\* The answer goes out: no upload is left, and what was answered is stored.
LEMMA PatientInvFinish ==
    ASSUME PatientInv, NEW u \in Uploads, FinishUpload(u)
    PROVE  PatientInv'
  <1>1. /\ ArtifactTypeOK /\ upload[u].at = "saving" /\ UploadAlone(u)
        /\ upload' = [upload EXCEPT ![u] = Free] /\ acked' = upload[u].content
        /\ UNCHANGED <<record, bytes, expired>> /\ kept' = record
    BY DEF PatientInv, FinishUpload, Keep
  <1>2. /\ upload' \in [Uploads -> Put] /\ acked' \in Known
    BY <1>1, FreeUpload DEF ArtifactTypeOK, UploadAlone, Known
  <1>3. \A v \in Uploads : upload'[v] = Free
    BY <1>1 DEF PatientInv, UploadAlone, ArtifactTypeOK
  <1>4. \A v \in Uploads : UploadAlone(v)'
    BY <1>3, FreeUpload DEF UploadAlone
  <1>5. bytes = acked'
    BY <1>1 DEF UploadAlone
  <1> QED
    BY <1>1, <1>2, <1>4, <1>5 DEF PatientInv, ArtifactTypeOK

LEMMA PatientInvBeginCommit ==
    ASSUME Patient, PatientInv, NEW u \in Uploads, NEW c \in Contents, BeginCommit(u, c)
    PROVE  PatientInv'
  <1> DEFINE put == [at |-> "committing", content |-> c]
  <1>1. /\ ArtifactTypeOK /\ acked = c /\ \A v \in Uploads : upload[v] = Free
        /\ upload' = [upload EXCEPT ![u] = put]
        /\ UNCHANGED <<record, kept, bytes, acked, expired>>
    BY DEF BeginCommit, PatientInv
  <1>2. put \in Put /\ put.at = "committing" /\ put.content = c
    BY DEF Put, Known
  <1> HIDE DEF put
  <1>3. upload' \in [Uploads -> Put]
    BY <1>1, <1>2 DEF ArtifactTypeOK
  <1>4. /\ upload'[u] = put
        /\ \A v \in Uploads : v # u => upload'[v] = Free
    BY <1>1 DEF ArtifactTypeOK
  <1>5. ASSUME NEW v \in Uploads PROVE UploadAlone(v)'
    <2>1. CASE v = u
      BY <1>1, <1>2, <1>4, <2>1, FreeUpload DEF UploadAlone
    <2>2. CASE v # u
      BY <1>4, <2>2, FreeUpload DEF UploadAlone
    <2> QED
      BY <2>1, <2>2
  <1> QED
    BY <1>1, <1>3, <1>5 DEF PatientInv, ArtifactTypeOK

LEMMA PatientInvCommit ==
    ASSUME PatientInv, NEW u \in Uploads, Commit(u)
    PROVE  PatientInv'
  <1> DEFINE c == upload[u].content
  <1>1. /\ ArtifactTypeOK /\ upload[u].at = "committing" /\ UploadAlone(u)
        /\ record' = [record EXCEPT !.lifecycle = "committed", !.checksum = c]
        /\ upload' = [upload EXCEPT ![u] = Free]
        /\ UNCHANGED <<kept, bytes, acked, expired>>
    BY DEF PatientInv, Commit
  <1>2. /\ c \in Contents /\ acked = c
        /\ \A v \in Uploads : upload[v].at # "free" => v = u
    BY <1>1 DEF UploadAlone
  <1>3. record' \in ArtifactRecord /\ record'.lifecycle = "committed" /\ record'.checksum = c
    <2>1. record \in ArtifactRecord /\ c \in Known
      BY <1>1, <1>2 DEF ArtifactTypeOK, Known
    <2> QED
      BY <1>1, <2>1, CommittedRecord
  <1>4. upload' \in [Uploads -> Put] /\ \A v \in Uploads : upload'[v] = Free
    BY <1>1, <1>2, FreeUpload DEF PatientInv, UploadAlone, ArtifactTypeOK
  <1>5. \A v \in Uploads : UploadAlone(v)'
    BY <1>4, FreeUpload DEF UploadAlone
  <1>6. bytes = c
    BY <1>2, NoContentIsNoBytes DEF PatientInv
  <1> QED
    BY <1>1, <1>2, <1>3, <1>4, <1>5, <1>6 DEF PatientInv, ArtifactTypeOK

LEMMA PatientInvCrash == PatientInv /\ Crash => PatientInv'
  <1> SUFFICES ASSUME PatientInv, Crash PROVE PatientInv'
    OBVIOUS
  <1>1. /\ record' = kept /\ UNCHANGED <<kept, bytes, acked, expired>>
        /\ upload' \in [Uploads -> Put] /\ \A u \in Uploads : upload'[u] = Free
    BY FreeUpload DEF Crash
  <1>2. \A u \in Uploads : UploadAlone(u)'
    BY <1>1, FreeUpload DEF UploadAlone
  <1> QED
    BY <1>1, <1>2 DEF PatientInv, ArtifactTypeOK

LEMMA PatientInvStep ==
    ASSUME Patient
    PROVE  PatientInv /\ [ArtifactNext]_artifactVars => PatientInv'
  <1> SUFFICES ASSUME PatientInv, [ArtifactNext]_artifactVars PROVE PatientInv'
    OBVIOUS
  <1>1. CASE Allocate \/ GrantExpires \/ SaveArtifact
    BY <1>1, PatientInvRecord
  <1>2. CASE Crash
    BY <1>2, PatientInvCrash
  <1>3. ASSUME NEW u \in Uploads, NEW c \in Contents, BeginUpload(u, c) PROVE PatientInv'
    BY <1>3, PatientInvBegin
  <1>4. ASSUME NEW u \in Uploads, RefuseBody(u) PROVE PatientInv'
    BY <1>4, PatientInvRefuse
  <1>5. ASSUME NEW u \in Uploads, StoreBytes(u) PROVE PatientInv'
    BY <1>5, PatientInvStore
  <1>6. ASSUME NEW u \in Uploads, Observe(u) PROVE PatientInv'
    BY <1>6, PatientInvObserve
  <1>7. ASSUME NEW u \in Uploads, FinishUpload(u) PROVE PatientInv'
    BY <1>7, PatientInvFinish
  <1>8. ASSUME NEW u \in Uploads, NEW c \in Contents, BeginCommit(u, c) PROVE PatientInv'
    BY <1>8, PatientInvBeginCommit
  <1>9. ASSUME NEW u \in Uploads, Commit(u) PROVE PatientInv'
    BY <1>9, PatientInvCommit
  <1>10. CASE UNCHANGED artifactVars
    BY <1>10 DEF artifactVars, PatientInv, ArtifactTypeOK, UploadAlone
  <1> QED
    BY <1>1, <1>2, <1>3, <1>4, <1>5, <1>6, <1>7, <1>8, <1>9, <1>10 DEF ArtifactNext

(* For a patient sender, every number of uploads and contents, and every   *)
(* crash: a committed artifact is served with the bytes of the checksum    *)
(* beside it (PUT content and POST commit of server.js over the artifact   *)
(* store's write and rename).  Without the hypothesis it is false.         *)
THEOREM PatientSenderServed ==
    ASSUME Patient
    PROVE  ArtifactSpec => []ServedAsCommitted
  <1>1. PatientInv => ServedAsCommitted
    BY DEF PatientInv, ServedAsCommitted
  <1> QED
    BY <1>1, PatientInvInit, PatientInvStep, PTL DEF ArtifactSpec

\* Any sender: the records and the uploads keep their types.
LEMMA ArtifactTypeStep == ArtifactTypeOK /\ [ArtifactNext]_artifactVars => ArtifactTypeOK'
  <1> SUFFICES ASSUME ArtifactTypeOK, [ArtifactNext]_artifactVars PROVE ArtifactTypeOK'
    OBVIOUS
  <1>a. NoBytes \in Known /\ Contents \subseteq Known /\ Free \in Put
    BY FreeUpload DEF Known
  <1>1. CASE Allocate \/ GrantExpires \/ SaveArtifact
    <2>1. record' = record \/ record' \in ArtifactRecord
      BY <1>1, AllocatedRecord DEF Allocate, GrantExpires, SaveArtifact
    <2> QED
      BY <1>1, <2>1 DEF Allocate, GrantExpires, SaveArtifact, Keep, ArtifactTypeOK
  <1>2. CASE Crash
    BY <1>2, <1>a DEF Crash, ArtifactTypeOK
  <1>3. ASSUME NEW u \in Uploads, NEW c \in Contents, BeginUpload(u, c) \/ BeginCommit(u, c)
        PROVE  ArtifactTypeOK'
    <2>1. \A at \in {"receiving", "committing"} : [at |-> at, content |-> c] \in Put
      BY <1>a DEF Put
    <2> QED
      BY <1>3, <1>a, <2>1 DEF BeginUpload, BeginCommit, ArtifactTypeOK
  <1>4. ASSUME NEW u \in Uploads, RefuseBody(u) \/ FinishUpload(u) PROVE ArtifactTypeOK'
    <2>1. upload[u].content \in Known
      BY DEF ArtifactTypeOK, Put
    <2> QED
      BY <1>4, <1>a, <2>1 DEF RefuseBody, FinishUpload, Keep, ArtifactTypeOK
  <1>5. ASSUME NEW u \in Uploads, StoreBytes(u) \/ Observe(u) PROVE ArtifactTypeOK'
    <2>1. upload[u].content \in Known /\ record \in ArtifactRecord
      BY DEF ArtifactTypeOK, Put
    <2>2. [record EXCEPT !.observed = upload[u].content] \in ArtifactRecord
      BY <2>1, ObservedRecord
    <2>3. upload' \in [Uploads -> Put]
      BY <1>5, MoveFields DEF StoreBytes, Observe
    <2> QED
      BY <1>5, <2>1, <2>2, <2>3 DEF StoreBytes, Observe, ArtifactTypeOK
  <1>6. ASSUME NEW u \in Uploads, Commit(u) PROVE ArtifactTypeOK'
    <2>1. upload[u].content \in Known /\ record \in ArtifactRecord
      BY DEF ArtifactTypeOK, Put
    <2>2. record' \in ArtifactRecord
      BY <1>6, <2>1, CommittedRecord DEF Commit
    <2> QED
      BY <1>6, <1>a, <2>2 DEF Commit, ArtifactTypeOK
  <1>7. CASE UNCHANGED artifactVars
    BY <1>7 DEF artifactVars, ArtifactTypeOK
  <1> QED
    BY <1>1, <1>2, <1>3, <1>4, <1>5, <1>6, <1>7 DEF ArtifactNext

\* The records, the bytes and the uploads of an artifact are typed for any
\* sender, any number of overlapping uploads and crashes at any await.
THEOREM ArtifactTyped == ArtifactSpec => []ArtifactTypeOK
  <1>1. ArtifactInit => ArtifactTypeOK
    BY PatientInvInit DEF PatientInv
  <1> QED
    BY <1>1, ArtifactTypeStep, PTL DEF ArtifactSpec

-----------------------------------------------------------------------------
(* The alert loop *)

LEMMA AlertTypeInit == AlertInit => AlertTypeOK
  <1> SUFFICES ASSUME AlertInit PROVE AlertTypeOK
    OBVIOUS
  <1>1. tracked \in Tracked /\ alertsKept \in Tracked
    BY DEF AlertInit, Tracked
  <1>2. told \in [Problems -> {"nothing", "problem", "resolved"}]
    BY DEF AlertInit
  <1>3. 0 \in 0 .. MaxAlertFailures
    BY AlertAssumption DEF AlertAssumption
  <1> QED
    BY <1>1, <1>2, <1>3 DEF AlertInit, AlertTypeOK

LEMMA AlertTypeStep == AlertTypeOK /\ [AlertNext]_alertVars => AlertTypeOK'
  <1> SUFFICES ASSUME AlertTypeOK, [AlertNext]_alertVars PROVE AlertTypeOK'
    OBVIOUS
  <1>a. Fail => alertFailures' \in 0 .. MaxAlertFailures
    BY AlertAssumption DEF Fail, AlertTypeOK, AlertAssumption
  <1>1. CASE StartPass
    <2>1. fire' \subseteq Problems /\ resolve' \subseteq Problems
      BY <1>1 DEF StartPass, AlertTypeOK
    <2>2. tracked' \in Tracked
      BY <1>1 DEF StartPass, AlertTypeOK, Tracked
    <2> QED
      BY <1>1, <2>1, <2>2 DEF StartPass, AlertTypeOK
  <1>2. CASE EndPass
    BY <1>2, <1>a DEF EndPass, AlertTypeOK
  <1>3. ASSUME NEW p \in Problems, Deliver(p) PROVE AlertTypeOK'
    <2>1. /\ pass' = "delivering" /\ fire' \subseteq fire /\ resolve' \subseteq resolve
          /\ alertFailures' \in 0 .. MaxAlertFailures
          /\ UNCHANGED <<open, enabled, tracked, alertsKept>>
      BY <1>3, <1>a DEF Deliver, AlertTypeOK
    <2>2. told' \in [Problems -> {"nothing", "problem", "resolved"}]
      BY <1>3 DEF Deliver, AlertTypeOK
    <2> QED
      BY <2>1, <2>2 DEF AlertTypeOK
  <1>4. CASE SaveAlerts
    BY <1>4 DEF SaveAlerts, AlertTypeOK
  <1>5. CASE RestartLoop
    BY <1>5, <1>a DEF RestartLoop, AlertTypeOK
  <1>6. ASSUME NEW p \in Problems, Appears(p) \/ Clears(p) PROVE AlertTypeOK'
    BY <1>6 DEF Appears, Clears, AlertTypeOK
  <1>7. ASSUME NEW p \in Problems, GrowOld(p) PROVE AlertTypeOK'
    BY <1>7 DEF GrowOld, AlertTypeOK, Tracked
  <1>8. ASSUME NEW on \in BOOLEAN, Configure(on) PROVE AlertTypeOK'
    BY <1>8 DEF Configure, AlertTypeOK
  <1>9. CASE UNCHANGED alertVars
    BY <1>9 DEF alertVars, AlertTypeOK
  <1> QED
    BY <1>1, <1>2, <1>3, <1>4, <1>5, <1>6, <1>7, <1>8, <1>9 DEF AlertNext, Progress

\* What the alert loop tracks, keeps, owes and has told stays typed for any
\* number of problems, whatever comes, goes, fails or restarts while a pass
\* delivers (evaluateAlerts, runAlertPass).
THEOREM AlertsTyped == AlertSpec => []AlertTypeOK
  BY AlertTypeInit, AlertTypeStep, PTL DEF AlertSpec

-----------------------------------------------------------------------------
(* The services together *)

\* What a service does when it moves, and that it rests when another one does.
ServicesNext ==
    /\ [CatalogNext]_catalogVars
    /\ [AccountsNext]_accountVars
    /\ [ReviewNext]_reviewVars
    /\ [TimelineNext]_timelineVars
    /\ [ArtifactNext]_artifactVars
    /\ [AlertNext]_alertVars
    /\ [GatewayNext]_gatewayVars

LEMMA EachMovesOrRests == [Next]_vars => ServicesNext
  <1> SUFFICES ASSUME [Next]_vars PROVE ServicesNext
    OBVIOUS
  <1>1. CASE UNCHANGED vars
    BY <1>1 DEF vars, ServicesNext
  <1>2. CASE Next
    <2>1. /\ part = "catalog" => CatalogNext
          /\ part = "accounts" => AccountsNext
          /\ part = "review" => ReviewNext
          /\ part = "timeline" => TimelineNext
          /\ part = "artifact" => ArtifactNext
          /\ part = "alert" => AlertNext
          /\ part = "gateway" => GatewayNext
      BY <1>2 DEF Next
    <2>2. /\ part = "catalog" \/ UNCHANGED catalogVars
          /\ part = "accounts" \/ UNCHANGED accountVars
          /\ part = "review" \/ UNCHANGED reviewVars
          /\ part = "timeline" \/ UNCHANGED timelineVars
          /\ part = "artifact" \/ UNCHANGED artifactVars
          /\ part = "alert" \/ UNCHANGED alertVars
          /\ part = "gateway" \/ UNCHANGED gatewayVars
      BY <1>2 DEF Next, Frame
    <2> QED
      BY <2>1, <2>2 DEF ServicesNext
  <1> QED
    BY <1>1, <1>2

\* Seen from each service, a behaviour of the composition is one of the
\* service's own specification, so what is proved of a service holds in it.
THEOREM ServicesCompose ==
    Spec => /\ CatalogSpec /\ AccountsSpec /\ TimelineSpec /\ ArtifactSpec /\ GatewaySpec
            /\ ReviewInit /\ [][ReviewNext]_reviewVars
            /\ AlertInit /\ [][AlertNext]_alertVars
  <1>1. Init => /\ CatalogInit /\ AccountsInit /\ ReviewInit /\ TimelineInit
                /\ ArtifactInit /\ AlertInit /\ GatewayInit
    BY DEF Init
  <1>2. [Next]_vars => ServicesNext
    BY EachMovesOrRests
  <1>3. ServicesNext =>
            /\ [CatalogNext]_catalogVars /\ [AccountsNext]_accountVars
            /\ [ReviewNext]_reviewVars /\ [TimelineNext]_timelineVars
            /\ [ArtifactNext]_artifactVars /\ [AlertNext]_alertVars
            /\ [GatewayNext]_gatewayVars
    BY DEF ServicesNext
  <1> QED
    BY <1>1, <1>2, <1>3, PTL
    DEF Spec, CatalogSpec, AccountsSpec, TimelineSpec, ArtifactSpec, GatewaySpec

\* Whichever service moves, all of them stay typed.
THEOREM ServicesTyped == Spec => []TypeOK
  <1>1. /\ CatalogTypeOK /\ AccountsTypeOK /\ ReviewTypeOK /\ TimelineTypeOK
        /\ ArtifactTypeOK /\ AlertTypeOK /\ GatewayTypeOK
        => TypeOK
    BY DEF TypeOK
  <1>2. ReviewInit /\ [][ReviewNext]_reviewVars => []ReviewTypeOK
    <2>1. ReviewInv => ReviewTypeOK
      BY DEF ReviewInv
    <2> QED
      BY <2>1, ReviewInvInit, ReviewInvStep, PTL
  <1>3. AlertInit /\ [][AlertNext]_alertVars => []AlertTypeOK
    BY AlertTypeInit, AlertTypeStep, PTL
  <1> QED
    BY <1>1, <1>2, <1>3, ServicesCompose, CatalogTyped, AccountsTyped, TimelineIsBounded,
       ArtifactTyped, GatewayTypes, PTL
============================================================================
