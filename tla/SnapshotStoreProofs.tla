------------------------- MODULE SnapshotStoreProofs -------------------------
(***************************************************************************)
(* Theorems about the snapshot store, for any number of savers, entries    *)
(* and edits: what overlapping saves can do to the rows on the disk, and   *)
(* what a restart loads when saves have not overlapped.                    *)
(***************************************************************************)
EXTENDS SnapshotStore, TLAPS

-----------------------------------------------------------------------------
(* The transactions *)

Deleting == {"lock", "insert", "commit"}   \* the DELETE has found its rows
Holding == {"insert", "commit"}            \* and holds them

\* Of one save: the objects it alone still holds are of replaced entries and
\* no newer than memory; the edit it will answer for is in what it would write
\* and in the row it has written; the rows it has found are on the disk, its
\* own among them.
SaveOK(w) ==
    Active(w) =>
        /\ \A k \in Keys : tx[w].old[k] <= live[k] /\ (tx[w].old[k] > 0 => k \in Replaced)
        /\ tx[w].edit <= Contents(w)[tx[w].key]
        /\ tx[w].at \in Deleting => /\ tx[w].doomed \subseteq Present
                                    /\ w \in Present => w \in tx[w].doomed
        /\ tx[w].at = "commit" => tx[w].new \in States /\ tx[w].edit <= tx[w].new[tx[w].key]

\* No row is held by two saves.
Disjoint ==
    \A v, w \in Savers : v # w /\ tx[v].at \in Holding /\ tx[w].at \in Holding =>
        tx[v].doomed \cap tx[w].doomed = {}

SavesInv ==
    /\ TypeOK
    /\ \A k \in Keys : answered[k] <= live[k]
    /\ \A w \in Savers : SaveOK(w)
    /\ Disjoint

LEMMA StateTypes ==
    /\ NoRow \notin States
    /\ \A s \in States, k \in Keys : s[k] \in Nat /\ s[k] <= MaxEdits
    /\ MaxEdits \in Nat
  BY SnapshotStoreAssumption DEF SnapshotStoreAssumption, States

LEMMA SaveTypes ==
    /\ Idle.at = "idle" /\ Idle \notin Save
    /\ \A s \in Save : s # Idle /\ s.at \in Steps /\ s.key \in Keys /\ s.edit \in Nat
  BY SnapshotStoreAssumption DEF SnapshotStoreAssumption, Idle, Save, Steps

LEMMA ActiveSaves ==
    ASSUME TypeOK, NEW w \in Savers
    PROVE  /\ Active(w) => tx[w] \in Save
           /\ tx[w].at \in Steps => Active(w)
           /\ ~Active(w) => tx[w].at = "idle"
  BY SaveTypes DEF TypeOK, Active, Steps

\* What a save would write is a state, between nothing and what memory has.
LEMMA ContentsTyped ==
    ASSUME TypeOK, NEW w \in Savers, Active(w)
    PROVE  /\ Contents(w) \in States /\ tx[w].key \in Keys /\ tx[w].edit \in Nat
           /\ \A k \in Keys : /\ Contents(w)[k] = IF k \in tx[w].keys THEN live[k] ELSE tx[w].old[k]
                             /\ Contents(w)[k] \in Nat /\ tx[w].old[k] \in Nat /\ live[k] \in Nat
  <1>1. tx[w] \in Save /\ tx[w].old \in States /\ live \in States
    BY ActiveSaves DEF Save, TypeOK
  <1>2. \A k \in Keys : tx[w].old[k] \in 0 .. MaxEdits /\ live[k] \in 0 .. MaxEdits
    BY <1>1 DEF States
  <1>3. Contents(w) \in States
    BY <1>2 DEF Contents, States
  <1> QED
    BY <1>1, <1>3, StateTypes, SaveTypes DEF Contents

LEMMA SameContents ==
    ASSUME NEW w \in Savers, live' = live, tx'[w].keys = tx[w].keys, tx'[w].old = tx[w].old
    PROVE  Contents(w)' = Contents(w)
  BY DEF Contents

LEMMA DeleteEffect ==
    ASSUME TypeOK, NEW w \in Savers, Delete(w)
    PROVE  /\ Active(w) /\ tx[w].at = "delete"
           /\ tx' \in [Savers -> Save \cup {Idle}] /\ tx'[w] # Idle
           /\ tx'[w].at = "lock" /\ tx'[w].doomed = Present /\ tx'[w].new = tx[w].new
           /\ tx'[w].key = tx[w].key /\ tx'[w].edit = tx[w].edit
           /\ tx'[w].keys = tx[w].keys /\ tx'[w].old = tx[w].old /\ tx'[w].alone = tx[w].alone
           /\ \A v \in Savers : v # w => tx'[v] = tx[v]
           /\ UNCHANGED <<live, rows, answered, apart>>
  <1> DEFINE s == [tx[w] EXCEPT !.at = "lock", !.doomed = Present]
  <1>1. Active(w) /\ tx[w] \in Save /\ tx[w].at = "delete"
    BY ActiveSaves DEF Delete, Steps
  <1>2. /\ s \in Save /\ s.at = "lock" /\ s.doomed = Present /\ s.new = tx[w].new
        /\ s.key = tx[w].key /\ s.edit = tx[w].edit
        /\ s.keys = tx[w].keys /\ s.old = tx[w].old /\ s.alone = tx[w].alone
    BY <1>1 DEF Save, Steps, Present
  <1>3. tx' = [tx EXCEPT ![w] = s] /\ UNCHANGED <<live, rows, answered, apart>>
    BY <1>1 DEF Delete, TypeOK
  <1> HIDE DEF s
  <1>4. /\ tx' \in [Savers -> Save \cup {Idle}] /\ tx'[w] = s
        /\ \A v \in Savers : v # w => tx'[v] = tx[v]
    BY <1>2, <1>3 DEF TypeOK
  <1> QED
    BY <1>1, <1>2, <1>3, <1>4, SaveTypes

LEMMA LockEffect ==
    ASSUME TypeOK, NEW w \in Savers, Lock(w)
    PROVE  /\ Active(w) /\ tx[w].at = "lock"
           /\ tx' \in [Savers -> Save \cup {Idle}] /\ tx'[w] # Idle
           /\ tx'[w].at = "insert" /\ tx'[w].doomed = tx[w].doomed /\ tx'[w].new = tx[w].new
           /\ tx'[w].key = tx[w].key /\ tx'[w].edit = tx[w].edit
           /\ tx'[w].keys = tx[w].keys /\ tx'[w].old = tx[w].old /\ tx'[w].alone = tx[w].alone
           /\ \A v \in Savers : v # w => tx'[v] = tx[v]
           /\ UNCHANGED <<live, rows, answered, apart>>
  <1> DEFINE s == [tx[w] EXCEPT !.at = "insert"]
  <1>1. Active(w) /\ tx[w] \in Save /\ tx[w].at = "lock"
    BY ActiveSaves DEF Lock, Steps
  <1>2. /\ s \in Save /\ s.at = "insert" /\ s.doomed = tx[w].doomed /\ s.new = tx[w].new
        /\ s.key = tx[w].key /\ s.edit = tx[w].edit
        /\ s.keys = tx[w].keys /\ s.old = tx[w].old /\ s.alone = tx[w].alone
    BY <1>1 DEF Save, Steps
  <1>3. tx' = [tx EXCEPT ![w] = s] /\ UNCHANGED <<live, rows, answered, apart>>
    BY <1>1 DEF Lock, TypeOK
  <1> HIDE DEF s
  <1>4. /\ tx' \in [Savers -> Save \cup {Idle}] /\ tx'[w] = s
        /\ \A v \in Savers : v # w => tx'[v] = tx[v]
    BY <1>2, <1>3 DEF TypeOK
  <1> QED
    BY <1>1, <1>2, <1>3, <1>4, SaveTypes

LEMMA InsertEffect ==
    ASSUME TypeOK, NEW w \in Savers, Insert(w)
    PROVE  /\ Active(w) /\ tx[w].at = "insert"
           /\ tx' \in [Savers -> Save \cup {Idle}] /\ tx'[w] # Idle
           /\ tx'[w].at = "commit" /\ tx'[w].doomed = tx[w].doomed
           /\ tx'[w].new = Contents(w) /\ Contents(w) \in States
           /\ tx'[w].key = tx[w].key /\ tx'[w].edit = tx[w].edit
           /\ tx'[w].keys = tx[w].keys /\ tx'[w].old = tx[w].old /\ tx'[w].alone = tx[w].alone
           /\ \A v \in Savers : v # w => tx'[v] = tx[v]
           /\ UNCHANGED <<live, rows, answered, apart>>
  <1> DEFINE new == Contents(w)
             s == [tx[w] EXCEPT !.at = "commit", !.new = new]
  <1>1. Active(w) /\ tx[w] \in Save /\ tx[w].at = "insert"
    BY ActiveSaves DEF Insert, Steps
  <1>2. new \in States
    BY <1>1, ContentsTyped
  <1>3. tx' = [tx EXCEPT ![w] = s] /\ UNCHANGED <<live, rows, answered, apart>>
    BY <1>1 DEF Insert, TypeOK
  <1> HIDE DEF new
  <1>4. /\ s \in Save /\ s.at = "commit" /\ s.doomed = tx[w].doomed /\ s.new = new
        /\ s.key = tx[w].key /\ s.edit = tx[w].edit
        /\ s.keys = tx[w].keys /\ s.old = tx[w].old /\ s.alone = tx[w].alone
    BY <1>1, <1>2 DEF Save, Steps
  <1> HIDE DEF s
  <1>5. /\ tx' \in [Savers -> Save \cup {Idle}] /\ tx'[w] = s
        /\ \A v \in Savers : v # w => tx'[v] = tx[v]
    BY <1>3, <1>4 DEF TypeOK
  <1> QED
    BY <1>1, <1>2, <1>3, <1>4, <1>5, SaveTypes DEF new

\* Replacing an entry's object changes nothing of what the saves under way
\* would write.
LEMMA ReplaceEffect ==
    ASSUME TypeOK, NEW k \in Keys, Replace(k)
    PROVE  /\ k \in Replaced /\ live' \in States
           /\ \A q \in Keys : live[q] <= live'[q]
           /\ tx' \in [Savers -> Save \cup {Idle}]
           /\ \A w \in Savers :
                 /\ tx'[w] # Idle <=> Active(w)
                 /\ tx'[w].at = tx[w].at /\ tx'[w].doomed = tx[w].doomed
                 /\ tx'[w].new = tx[w].new /\ tx'[w].key = tx[w].key
                 /\ tx'[w].edit = tx[w].edit /\ tx'[w].alone = tx[w].alone
           /\ \A w \in Savers, q \in Keys : Active(w) =>
                 /\ tx'[w].old[q] = tx[w].old[q] \/ (q = k /\ tx'[w].old[q] = live[q])
                 /\ Contents(w)'[q] = Contents(w)[q]
           /\ UNCHANGED <<rows, answered, apart>>
  <1> DEFINE lists(w) == Active(w) /\ k \in tx[w].keys
             after(w) == [tx[w] EXCEPT !.keys = @ \ {k}, !.old[k] = live[k]]
  <1>1. /\ k \in Replaced /\ live[k] < MaxEdits /\ live \in States
        /\ live' = [live EXCEPT ![k] = live[k] + 1]
        /\ UNCHANGED <<rows, answered, apart>>
    BY DEF Replace, TypeOK
  <1>2. tx' = [w \in Savers |-> IF lists(w) THEN after(w) ELSE tx[w]]
    BY DEF Replace
  <1>3. /\ live' \in States /\ \A q \in Keys : live[q] <= live'[q]
        /\ \A q \in Keys : q # k => live'[q] = live[q]
    BY <1>1, StateTypes DEF States
  <1>4. ASSUME NEW w \in Savers, lists(w)
        PROVE  /\ after(w) \in Save /\ after(w).at = tx[w].at /\ after(w).doomed = tx[w].doomed
               /\ after(w).new = tx[w].new /\ after(w).key = tx[w].key
               /\ after(w).edit = tx[w].edit /\ after(w).alone = tx[w].alone
               /\ after(w).keys = tx[w].keys \ {k}
               /\ \A q \in Keys : after(w).old[q] = IF q = k THEN live[k] ELSE tx[w].old[q]
    <2> DEFINE old == [tx[w].old EXCEPT ![k] = live[k]]
               keys == tx[w].keys \ {k}
    <2>1. tx[w] \in Save /\ tx[w].old \in States /\ tx[w].keys \in SUBSET Keys
      BY <1>4, ActiveSaves DEF Save
    <2>2. /\ old \in States /\ keys \in SUBSET Keys
          /\ \A q \in Keys : old[q] = IF q = k THEN live[k] ELSE tx[w].old[q]
      BY <1>1, <2>1 DEF States
    <2>3. after(w) = [tx[w] EXCEPT !.keys = keys, !.old = old]
      BY <2>1 DEF Save
    <2> HIDE DEF old, keys, after
    <2>4. /\ after(w) \in Save /\ after(w).at = tx[w].at /\ after(w).doomed = tx[w].doomed
          /\ after(w).new = tx[w].new /\ after(w).key = tx[w].key
          /\ after(w).edit = tx[w].edit /\ after(w).alone = tx[w].alone
          /\ after(w).keys = keys /\ after(w).old = old
      BY <2>1, <2>2, <2>3 DEF Save
    <2> QED
      BY <2>2, <2>4 DEF keys
  <1> HIDE DEF after
  <1>5. \A w \in Savers : tx'[w] = IF lists(w) THEN after(w) ELSE tx[w]
    BY <1>2
  <1>6. tx' \in [Savers -> Save \cup {Idle}]
    BY <1>2, <1>4 DEF TypeOK
  <1>7. ASSUME NEW w \in Savers
        PROVE  /\ tx'[w] # Idle <=> Active(w)
               /\ tx'[w].at = tx[w].at /\ tx'[w].doomed = tx[w].doomed
               /\ tx'[w].new = tx[w].new /\ tx'[w].key = tx[w].key
               /\ tx'[w].edit = tx[w].edit /\ tx'[w].alone = tx[w].alone
    <2>1. CASE lists(w)
      BY <1>4, <1>5, <2>1, SaveTypes
    <2>2. CASE ~lists(w)
      BY <1>5, <2>2 DEF Active
    <2> QED
      BY <2>1, <2>2
  <1>8. ASSUME NEW w \in Savers, NEW q \in Keys, Active(w)
        PROVE  /\ tx'[w].old[q] = tx[w].old[q] \/ (q = k /\ tx'[w].old[q] = live[q])
               /\ Contents(w)'[q] = Contents(w)[q]
    <2>1. CASE lists(w)
      BY <1>3, <1>4, <1>5, <2>1 DEF Contents
    <2>2. CASE ~lists(w)
      BY <1>3, <1>5, <1>8, <2>2 DEF Contents
    <2> QED
      BY <2>1, <2>2
  <1> QED
    BY <1>1, <1>3, <1>6, <1>7, <1>8

\* A save that begins finds nothing yet; the others learn that they have met.
LEMMA BeginEffect ==
    ASSUME TypeOK, NEW w \in Savers, NEW k \in Keys, Begin(w, k)
    PROVE  /\ ~Active(w) /\ live[k] > 0
           /\ tx' \in [Savers -> Save \cup {Idle}] /\ tx'[w] # Idle
           /\ tx'[w].at = "delete" /\ tx'[w].key = k /\ tx'[w].edit = live[k]
           /\ tx'[w].keys = Listed /\ tx'[w].old = Nothing
           /\ tx'[w].alone = TRUE => \A v \in Savers : ~Active(v)
           /\ \A v \in Savers : v # w =>
                 /\ tx'[v] # Idle <=> Active(v)
                 /\ Active(v) => tx'[v].alone # TRUE
                 /\ tx'[v].at = tx[v].at /\ tx'[v].doomed = tx[v].doomed
                 /\ tx'[v].new = tx[v].new /\ tx'[v].key = tx[v].key
                 /\ tx'[v].edit = tx[v].edit
                 /\ tx'[v].keys = tx[v].keys /\ tx'[v].old = tx[v].old
           /\ apart' \in BOOLEAN /\ UNCHANGED <<live, rows, answered>>
  <1> DEFINE met == \E v \in Savers : Active(v)
             first == [at |-> "delete", key |-> k, edit |-> live[k], keys |-> Listed,
                       old |-> Nothing, doomed |-> {}, new |-> NoRow, alone |-> ~met]
             after(v) == [tx[v] EXCEPT !.alone = FALSE]
  <1>1. /\ ~Active(w) /\ live[k] > 0
        /\ tx' = [v \in Savers |-> IF v = w THEN first
                                   ELSE IF Active(v) THEN after(v) ELSE Idle]
        /\ UNCHANGED <<live, rows, answered>>
    BY DEF Begin, Active
  <1>2. /\ first \in Save /\ first.at = "delete" /\ first.key = k /\ first.edit = live[k]
        /\ first.keys = Listed /\ first.old = Nothing /\ (first.alone = TRUE => ~met)
    <2>1. live[k] \in 0 .. MaxEdits /\ Listed \in SUBSET Keys /\ Nothing \in States
      BY StateTypes DEF TypeOK, States, Listed, Nothing
    <2>2. (~met) \in BOOLEAN /\ ((~met) = TRUE => ~met)
      BY Zenon
    <2> DEFINE none == ~met
    <2>3. none \in BOOLEAN /\ (none = TRUE => ~met)
      BY <2>2
    <2> HIDE DEF met, none
    <2>4. [at |-> "delete", key |-> k, edit |-> live[k], keys |-> Listed, old |-> Nothing,
           doomed |-> {}, new |-> NoRow, alone |-> none] \in Save
      BY <2>1, <2>3 DEF Save, Steps
    <2> QED
      BY <2>3, <2>4 DEF none
  <1>3. ASSUME NEW v \in Savers, Active(v)
        PROVE  /\ after(v) \in Save /\ after(v).alone = FALSE
               /\ after(v).at = tx[v].at /\ after(v).doomed = tx[v].doomed
               /\ after(v).new = tx[v].new /\ after(v).key = tx[v].key
               /\ after(v).edit = tx[v].edit /\ after(v).keys = tx[v].keys
               /\ after(v).old = tx[v].old
    <2>1. tx[v] \in Save
      BY <1>3, ActiveSaves
    <2> QED
      BY <2>1 DEF Save
  <1> HIDE DEF met, first, after
  <1>4. /\ tx'[w] = first
        /\ \A v \in Savers : v # w => tx'[v] = IF Active(v) THEN after(v) ELSE Idle
    BY <1>1
  <1>5. tx' \in [Savers -> Save \cup {Idle}]
    BY <1>1, <1>2, <1>3
  <1>6. ASSUME NEW v \in Savers, v # w
        PROVE  /\ tx'[v] # Idle <=> Active(v)
               /\ Active(v) => tx'[v].alone # TRUE
               /\ tx'[v].at = tx[v].at /\ tx'[v].doomed = tx[v].doomed
               /\ tx'[v].new = tx[v].new /\ tx'[v].key = tx[v].key
               /\ tx'[v].edit = tx[v].edit
               /\ tx'[v].keys = tx[v].keys /\ tx'[v].old = tx[v].old
    <2>1. CASE Active(v)
      BY <1>3, <1>4, <1>6, <2>1, SaveTypes
    <2>2. CASE ~Active(v)
      BY <1>4, <1>6, <2>2 DEF Active
    <2> QED
      BY <2>1, <2>2
  <1> QED
    <2>1. tx'[w] # Idle /\ (tx'[w].alone = TRUE => \A v \in Savers : ~Active(v))
      BY <1>2, <1>4, SaveTypes DEF met
    <2>2. apart' \in BOOLEAN
      BY Zenon DEF Begin, TypeOK
    <2> QED
      BY <1>1, <1>2, <1>4, <1>5, <1>6, <2>1, <2>2

\* A commit: its row is there, those it found are not, and no other save
\* finds them any more.
LEMMA CommitEffect ==
    ASSUME TypeOK, NEW w \in Savers, Commit(w)
    PROVE  /\ Active(w) /\ tx[w].at = "commit"
           /\ tx' \in [Savers -> Save \cup {Idle}] /\ tx'[w] = Idle
           /\ \A v \in Savers : v # w =>
                 /\ tx'[v] # Idle <=> Active(v)
                 /\ Active(v) => tx'[v].doomed = tx[v].doomed \ tx[w].doomed
                 /\ tx'[v].at = tx[v].at /\ tx'[v].alone = tx[v].alone
                 /\ tx'[v].new = tx[v].new /\ tx'[v].key = tx[v].key
                 /\ tx'[v].edit = tx[v].edit
                 /\ tx'[v].keys = tx[v].keys /\ tx'[v].old = tx[v].old
           /\ rows' = [v \in Savers |-> IF v = w THEN tx[w].new
                                        ELSE IF v \in tx[w].doomed THEN NoRow ELSE rows[v]]
           /\ answered' = [answered EXCEPT ![tx[w].key] =
                              IF @ < tx[w].edit THEN tx[w].edit ELSE @]
           /\ apart' = (apart \/ tx[w].alone)
           /\ live' = live
  <1> DEFINE after(v) == [tx[v] EXCEPT !.doomed = tx[v].doomed \ tx[w].doomed]
  <1>1. /\ tx[w].at = "commit" /\ Active(w)
        /\ tx' = [v \in Savers |-> IF v = w THEN Idle
                                   ELSE IF Active(v) THEN after(v) ELSE Idle]
    BY ActiveSaves DEF Commit, Steps
  <1>2. ASSUME NEW v \in Savers, Active(v)
        PROVE  /\ after(v) \in Save /\ after(v).doomed = tx[v].doomed \ tx[w].doomed
               /\ after(v).at = tx[v].at /\ after(v).alone = tx[v].alone
               /\ after(v).new = tx[v].new /\ after(v).key = tx[v].key
               /\ after(v).edit = tx[v].edit /\ after(v).keys = tx[v].keys
               /\ after(v).old = tx[v].old
    <2>1. tx[v] \in Save
      BY <1>2, ActiveSaves
    <2> QED
      BY <2>1 DEF Save
  <1> HIDE DEF after
  <1>3. /\ tx'[w] = Idle
        /\ \A v \in Savers : v # w => tx'[v] = IF Active(v) THEN after(v) ELSE Idle
    BY <1>1
  <1>4. tx' \in [Savers -> Save \cup {Idle}]
    BY <1>1, <1>2
  <1>5. ASSUME NEW v \in Savers, v # w
        PROVE  /\ tx'[v] # Idle <=> Active(v)
               /\ Active(v) => tx'[v].doomed = tx[v].doomed \ tx[w].doomed
               /\ tx'[v].at = tx[v].at /\ tx'[v].alone = tx[v].alone
               /\ tx'[v].new = tx[v].new /\ tx'[v].key = tx[v].key
               /\ tx'[v].edit = tx[v].edit
               /\ tx'[v].keys = tx[v].keys /\ tx'[v].old = tx[v].old
    <2>1. CASE Active(v)
      BY <1>2, <1>3, <1>5, <2>1, SaveTypes
    <2>2. CASE ~Active(v)
      BY <1>3, <1>5, <2>2 DEF Active
    <2> QED
      BY <2>1, <2>2
  <1> QED
    BY <1>1, <1>3, <1>4, <1>5 DEF Commit

-----------------------------------------------------------------------------
(* The rows and the saves *)

LEMMA SavesInvInit == Init => SavesInv
  <1> SUFFICES ASSUME Init PROVE SavesInv
    OBVIOUS
  <1>1. TypeOK
    BY StateTypes DEF Init, TypeOK, States, Nothing
  <1>2. \A w \in Savers : ~Active(w) /\ tx[w].at = "idle"
    BY SaveTypes DEF Init, Active
  <1> QED
    BY <1>1, <1>2 DEF Init, SavesInv, SaveOK, Disjoint, Holding, Nothing

\* An edit in place reaches the saves that list the entry.
LEMMA EditGrows ==
    ASSUME TypeOK, NEW k \in Keys, Edit(k), NEW w \in Savers, Active(w), NEW q \in Keys
    PROVE  Contents(w)[q] <= Contents(w)'[q] /\ Contents(w)'[q] \in Nat
  <1>1. /\ live[q] \in Nat /\ live'[q] \in Nat /\ live[q] <= live'[q] /\ tx' = tx
    BY StateTypes DEF Edit, TypeOK, States
  <1>2. tx[w].old[q] \in Nat
    BY ContentsTyped
  <1> QED
    BY <1>1, <1>2 DEF Contents

LEMMA EditKeepsSaves ==
    ASSUME SavesInv, NEW k \in Keys, Edit(k)
    PROVE  SavesInv' /\ \A q \in Keys : live[q] <= live'[q]
  <1>1. /\ live \in States /\ live[k] < MaxEdits /\ live' = [live EXCEPT ![k] = live[k] + 1]
        /\ UNCHANGED <<rows, tx, answered, apart>>
    BY DEF Edit, SavesInv, TypeOK
  <1>2. live' \in States /\ \A q \in Keys : live[q] <= live'[q]
    BY <1>1, StateTypes DEF States
  <1>3. TypeOK'
    BY <1>1, <1>2 DEF SavesInv, TypeOK
  <1>4. \A q \in Keys : answered'[q] <= live'[q]
    BY <1>1, <1>2, StateTypes DEF SavesInv, TypeOK
  <1>5. ASSUME NEW w \in Savers PROVE SaveOK(w)'
    <2>1. CASE Active(w)
      <3>1. SaveOK(w) /\ tx[w].key \in Keys /\ tx[w].edit \in Nat
        BY <2>1, ContentsTyped DEF SavesInv
      <3>2. \A q \in Keys : /\ tx[w].old[q] <= live'[q]
                            /\ tx[w].old[q] > 0 => q \in Replaced
        BY <1>2, <2>1, <3>1, ContentsTyped, StateTypes DEF SavesInv, SaveOK
      <3>3. tx[w].edit <= Contents(w)'[tx[w].key]
        <4>1. Contents(w)[tx[w].key] <= Contents(w)'[tx[w].key]
          BY <2>1, <3>1, EditGrows DEF SavesInv
        <4>2. /\ Contents(w)[tx[w].key] \in Nat /\ Contents(w)'[tx[w].key] \in Nat
              /\ tx[w].edit <= Contents(w)[tx[w].key]
          BY <2>1, <3>1, EditGrows, ContentsTyped DEF SavesInv, SaveOK
        <4> QED
          BY <3>1, <4>1, <4>2
      <3> QED
        BY <1>1, <2>1, <3>1, <3>2, <3>3 DEF SaveOK, Active, Present
    <2>2. CASE ~Active(w)
      BY <1>1, <2>2 DEF SaveOK, Active
    <2> QED
      BY <2>1, <2>2
  <1> QED
    BY <1>1, <1>2, <1>3, <1>4, <1>5 DEF SavesInv, Disjoint

LEMMA ReplaceKeepsSaves ==
    ASSUME SavesInv, NEW k \in Keys, Replace(k)
    PROVE  SavesInv'
  <1>1. TypeOK /\ answered \in States /\ live \in States /\ apart \in BOOLEAN
    BY DEF SavesInv, TypeOK
  <1>2. /\ k \in Replaced /\ live' \in States
        /\ \A q \in Keys : live[q] <= live'[q]
        /\ tx' \in [Savers -> Save \cup {Idle}]
        /\ UNCHANGED <<rows, answered, apart>>
    BY <1>1, ReplaceEffect
  <1>3. TypeOK'
    BY <1>1, <1>2 DEF SavesInv, TypeOK
  <1>4. \A q \in Keys : answered'[q] <= live'[q]
    BY <1>1, <1>2, StateTypes DEF SavesInv
  <1>5. ASSUME NEW w \in Savers PROVE SaveOK(w)'
    <2>1. /\ tx'[w] # Idle <=> Active(w)
          /\ tx'[w].at = tx[w].at /\ tx'[w].doomed = tx[w].doomed
          /\ tx'[w].new = tx[w].new /\ tx'[w].key = tx[w].key
          /\ tx'[w].edit = tx[w].edit
      BY <1>1, ReplaceEffect
    <2> SUFFICES ASSUME Active(w) PROVE SaveOK(w)'
      BY <2>1 DEF SaveOK, Active
    <2>2. SaveOK(w) /\ tx[w].key \in Keys
      BY <1>1, ContentsTyped DEF SavesInv
    <2>3. ASSUME NEW q \in Keys
          PROVE  tx'[w].old[q] <= live'[q] /\ (tx'[w].old[q] > 0 => q \in Replaced)
      <3>1. /\ tx[w].old[q] \in Nat /\ live[q] \in Nat /\ live'[q] \in Nat
            /\ tx[w].old[q] <= live[q] /\ (tx[w].old[q] > 0 => q \in Replaced)
        BY <1>1, <1>2, <2>2, ContentsTyped, StateTypes DEF SaveOK
      <3>2. tx'[w].old[q] = tx[w].old[q] \/ (q = k /\ tx'[w].old[q] = live[q])
        BY <1>1, ReplaceEffect
      <3> QED
        BY <1>2, <3>1, <3>2
    <2>4. tx'[w].edit <= Contents(w)'[tx'[w].key]
      BY <1>1, <2>1, <2>2, ReplaceEffect DEF SaveOK
    <2>5. Present' = Present
      BY <1>2 DEF Present
    <2> QED
      BY <2>1, <2>2, <2>3, <2>4, <2>5 DEF SaveOK
  <1>6. Disjoint'
    <2>1. \A w \in Savers : tx'[w].at = tx[w].at /\ tx'[w].doomed = tx[w].doomed
      BY <1>1, ReplaceEffect
    <2> QED
      BY <2>1 DEF SavesInv, Disjoint, Holding
  <1> QED
    BY <1>3, <1>4, <1>5, <1>6 DEF SavesInv

\* A step that changes neither memory, rows nor answers keeps what it keeps
\* of each save.
LEMMA SavesInvOf ==
    ASSUME SavesInv, UNCHANGED <<live, rows, answered>>,
           tx' \in [Savers -> Save \cup {Idle}], apart' \in BOOLEAN,
           \A w \in Savers : SaveOK(w)', Disjoint'
    PROVE  SavesInv'
  BY DEF SavesInv, TypeOK

\* A save begins with all that memory has.
LEMMA BeginContents ==
    ASSUME live \in States, live' = live, NEW w \in Savers,
           tx'[w].keys = Listed, tx'[w].old = Nothing, NEW k \in Keys
    PROVE  Contents(w)'[k] = live[k] /\ live[k] \in Nat
  <1>1. live[k] \in Nat /\ (k \notin Listed => live[k] = 0)
    BY StateTypes DEF Listed
  <1> QED
    BY <1>1 DEF Contents, Nothing

LEMMA BeginKeepsSaves ==
    ASSUME SavesInv, NEW w \in Savers, NEW k \in Keys, Begin(w, k)
    PROVE  SavesInv'
  <1>1. TypeOK /\ live \in States /\ apart \in BOOLEAN
    BY DEF SavesInv, TypeOK
  <1>2. /\ tx' \in [Savers -> Save \cup {Idle}]
        /\ tx'[w].at = "delete" /\ tx'[w].key = k /\ tx'[w].edit = live[k]
        /\ tx'[w].keys = Listed /\ tx'[w].old = Nothing /\ live[k] > 0
        /\ \A v \in Savers : v # w =>
              /\ tx'[v] # Idle <=> Active(v)
              /\ tx'[v].at = tx[v].at /\ tx'[v].doomed = tx[v].doomed
              /\ tx'[v].new = tx[v].new /\ tx'[v].key = tx[v].key
              /\ tx'[v].edit = tx[v].edit
              /\ tx'[v].keys = tx[v].keys /\ tx'[v].old = tx[v].old
        /\ apart' \in BOOLEAN /\ UNCHANGED <<live, rows, answered>>
    <2>1. apart' \in BOOLEAN /\ UNCHANGED <<live, rows, answered>> /\ live[k] > 0
      BY <1>1, BeginEffect, Zenon
    <2>2. /\ tx' \in [Savers -> Save \cup {Idle}]
          /\ tx'[w].at = "delete" /\ tx'[w].key = k /\ tx'[w].edit = live[k]
          /\ tx'[w].keys = Listed /\ tx'[w].old = Nothing
      BY <1>1, BeginEffect, Zenon
    <2>3. ASSUME NEW v \in Savers, v # w
          PROVE  /\ tx'[v] # Idle <=> Active(v)
                 /\ tx'[v].at = tx[v].at /\ tx'[v].doomed = tx[v].doomed
                 /\ tx'[v].new = tx[v].new /\ tx'[v].key = tx[v].key
                 /\ tx'[v].edit = tx[v].edit
                 /\ tx'[v].keys = tx[v].keys /\ tx'[v].old = tx[v].old
      <3>1. tx'[v] # Idle <=> Active(v)
        BY <1>1, <2>3, BeginEffect, Zenon
      <3>2. tx'[v].at = tx[v].at /\ tx'[v].doomed = tx[v].doomed
        BY <1>1, <2>3, BeginEffect, Zenon
      <3>3. tx'[v].new = tx[v].new /\ tx'[v].key = tx[v].key
        BY <1>1, <2>3, BeginEffect, Zenon
      <3>4. tx'[v].edit = tx[v].edit
        BY <1>1, <2>3, BeginEffect, Zenon
      <3>5. tx'[v].keys = tx[v].keys
        BY <1>1, <2>3, BeginEffect, Zenon
      <3>6. tx'[v].old = tx[v].old
        BY <1>1, <2>3, BeginEffect, Zenon
      <3> QED
        BY <3>1, <3>2, <3>3, <3>4, <3>5, <3>6
    <2> QED
      BY <2>1, <2>2, <2>3
  <1>3. SaveOK(w)'
    BY <1>1, <1>2, BeginContents, StateTypes DEF SaveOK, Deleting, Nothing
  <1>4. ASSUME NEW v \in Savers, v # w PROVE SaveOK(v)'
    BY <1>2, <1>4 DEF SavesInv, SaveOK, Active, Present, Contents
  <1>5. Disjoint'
    BY <1>2 DEF SavesInv, Disjoint, Holding
  <1> QED
    BY <1>2, <1>3, <1>4, <1>5, SavesInvOf

LEMMA DeleteKeepsSaves ==
    ASSUME SavesInv, NEW w \in Savers, Delete(w)
    PROVE  SavesInv'
  <1>1. TypeOK /\ apart \in BOOLEAN
    BY DEF SavesInv, TypeOK
  <1>2. /\ Active(w) /\ tx[w].at = "delete"
        /\ tx' \in [Savers -> Save \cup {Idle}]
        /\ tx'[w].at = "lock" /\ tx'[w].doomed = Present
        /\ tx'[w].key = tx[w].key /\ tx'[w].edit = tx[w].edit
        /\ tx'[w].keys = tx[w].keys /\ tx'[w].old = tx[w].old
        /\ \A v \in Savers : v # w => tx'[v] = tx[v]
        /\ UNCHANGED <<live, rows, answered, apart>>
    BY <1>1, DeleteEffect
  <1>3. SaveOK(w)'
    BY <1>2, SameContents DEF SavesInv, SaveOK, Present
  <1>4. ASSUME NEW v \in Savers, v # w PROVE SaveOK(v)'
    BY <1>2, <1>4 DEF SavesInv, SaveOK, Active, Present, Contents
  <1>5. Disjoint'
    BY <1>2 DEF SavesInv, Disjoint, Holding
  <1> QED
    BY <1>1, <1>2, <1>3, <1>4, <1>5, SavesInvOf

LEMMA LockKeepsSaves ==
    ASSUME SavesInv, NEW w \in Savers, Lock(w)
    PROVE  SavesInv'
  <1>1. TypeOK /\ apart \in BOOLEAN
    BY DEF SavesInv, TypeOK
  <1>2. /\ Active(w) /\ tx[w].at = "lock"
        /\ tx' \in [Savers -> Save \cup {Idle}]
        /\ tx'[w].at = "insert" /\ tx'[w].doomed = tx[w].doomed
        /\ tx'[w].key = tx[w].key /\ tx'[w].edit = tx[w].edit
        /\ tx'[w].keys = tx[w].keys /\ tx'[w].old = tx[w].old
        /\ \A v \in Savers : v # w => tx'[v] = tx[v]
        /\ UNCHANGED <<live, rows, answered, apart>>
    BY <1>1, LockEffect
  <1>3. SaveOK(w)'
    BY <1>2, SameContents DEF SavesInv, SaveOK, Present, Deleting
  <1>4. ASSUME NEW v \in Savers, v # w PROVE SaveOK(v)'
    BY <1>2, <1>4 DEF SavesInv, SaveOK, Active, Present, Contents
  <1>5. \A v \in Savers \ {w} : tx[v].at \in Holding => tx[v].doomed \cap tx[w].doomed = {}
    BY DEF Lock, Locks, Holding
  <1>6. Disjoint'
    <2> SUFFICES ASSUME NEW v \in Savers, NEW u \in Savers, v # u,
                        tx'[v].at \in Holding, tx'[u].at \in Holding
                 PROVE  tx'[v].doomed \cap tx'[u].doomed = {}
      BY DEF Disjoint
    <2>1. CASE v = w
      BY <1>2, <1>5, <2>1
    <2>2. CASE u = w
      BY <1>2, <1>5, <2>2
    <2>3. CASE v # w /\ u # w
      BY <1>2, <2>3 DEF SavesInv, Disjoint
    <2> QED
      BY <2>1, <2>2, <2>3
  <1> QED
    BY <1>1, <1>2, <1>3, <1>4, <1>6, SavesInvOf

LEMMA InsertKeepsSaves ==
    ASSUME SavesInv, NEW w \in Savers, Insert(w)
    PROVE  SavesInv'
  <1>1. TypeOK /\ apart \in BOOLEAN
    BY DEF SavesInv, TypeOK
  <1>2. /\ Active(w) /\ tx[w].at = "insert"
        /\ tx' \in [Savers -> Save \cup {Idle}]
        /\ tx'[w].at = "commit" /\ tx'[w].doomed = tx[w].doomed
        /\ tx'[w].new = Contents(w) /\ tx'[w].new \in States
        /\ tx'[w].key = tx[w].key /\ tx'[w].edit = tx[w].edit
        /\ tx'[w].keys = tx[w].keys /\ tx'[w].old = tx[w].old
        /\ \A v \in Savers : v # w => tx'[v] = tx[v]
        /\ UNCHANGED <<live, rows, answered, apart>>
    BY <1>1, InsertEffect
  <1>3. SaveOK(w)'
    <2>1. SaveOK(w) /\ Contents(w)' = Contents(w)
      BY <1>2, SameContents DEF SavesInv
    <2> QED
      BY <1>2, <2>1 DEF SaveOK, Present, Deleting
  <1>4. ASSUME NEW v \in Savers, v # w PROVE SaveOK(v)'
    BY <1>2, <1>4 DEF SavesInv, SaveOK, Active, Present, Contents
  <1>5. Disjoint'
    <2> SUFFICES ASSUME NEW v \in Savers, NEW u \in Savers, v # u,
                        tx'[v].at \in Holding, tx'[u].at \in Holding
                 PROVE  tx'[v].doomed \cap tx'[u].doomed = {}
      BY DEF Disjoint
    <2>1. /\ tx[v].at \in Holding /\ tx[u].at \in Holding
          /\ tx'[v].doomed = tx[v].doomed /\ tx'[u].doomed = tx[u].doomed
      BY <1>2 DEF Holding
    <2> QED
      BY <2>1 DEF SavesInv, Disjoint
  <1> QED
    BY <1>1, <1>2, <1>3, <1>4, <1>5, SavesInvOf

\* What a commit leaves on the disk, and what it answers.
LEMMA CommitLeaves ==
    ASSUME SavesInv, NEW w \in Savers, Commit(w)
    PROVE  /\ rows' \in [Savers -> States \cup {NoRow}] /\ rows'[w] = tx[w].new
           /\ tx[w].new \in States /\ Present' = (Present \ tx[w].doomed) \cup {w}
           /\ \A v \in Present \ tx[w].doomed : v # w /\ rows'[v] = rows[v]
           /\ answered' \in States /\ live' = live
           /\ \A k \in Keys : /\ answered[k] <= answered'[k] /\ answered'[k] <= live[k]
                              /\ answered'[k] = answered[k] \/ answered'[k] <= tx[w].new[k]
  <1>1. /\ Active(w) /\ tx[w].at = "commit" /\ live' = live
        /\ rows' = [v \in Savers |-> IF v = w THEN tx[w].new
                                     ELSE IF v \in tx[w].doomed THEN NoRow ELSE rows[v]]
        /\ answered' = [answered EXCEPT ![tx[w].key] =
                           IF answered[tx[w].key] < tx[w].edit THEN tx[w].edit
                           ELSE answered[tx[w].key]]
    BY ActiveSaves DEF Commit, SavesInv, Steps
  <1>2. /\ tx[w].key \in Keys /\ tx[w].edit \in Nat /\ tx[w].edit <= live[tx[w].key]
        /\ tx[w].new \in States /\ tx[w].edit <= tx[w].new[tx[w].key]
        /\ (w \in Present => w \in tx[w].doomed)
    <2>1. SaveOK(w) /\ TypeOK
      BY DEF SavesInv
    <2>2. tx[w].edit <= live[tx[w].key]
      BY <1>1, <2>1, ContentsTyped DEF SaveOK
    <2> QED
      BY <1>1, <2>1, <2>2, ContentsTyped DEF SaveOK, Deleting
  <1>3. /\ rows \in [Savers -> States \cup {NoRow}] /\ live \in States /\ answered \in States
        /\ \A k \in Keys : answered[k] <= live[k]
    BY DEF SavesInv, TypeOK
  <1>4. rows' \in [Savers -> States \cup {NoRow}] /\ rows'[w] = tx[w].new
    BY <1>1, <1>2, <1>3
  <1>5. Present' = (Present \ tx[w].doomed) \cup {w}
    BY <1>1, <1>2, <1>4, StateTypes DEF Present
  <1>6. \A v \in Present \ tx[w].doomed : v # w /\ rows'[v] = rows[v]
    BY <1>1, <1>2 DEF Present
  <1>7. /\ \A k \in Keys : k # tx[w].key => answered'[k] = answered[k]
        /\ answered'[tx[w].key] = IF answered[tx[w].key] < tx[w].edit THEN tx[w].edit
                                  ELSE answered[tx[w].key]
        /\ DOMAIN answered' = Keys
    BY <1>1, <1>2, <1>3 DEF States
  <1>8. \A k \in Keys : /\ answered[k] <= answered'[k] /\ answered'[k] <= live[k]
                        /\ answered'[k] = answered[k] \/ answered'[k] <= tx[w].new[k]
                        /\ answered'[k] \in 0 .. MaxEdits
    BY <1>2, <1>3, <1>7, StateTypes
  <1>9. answered' \in States
    BY <1>1, <1>3, <1>8 DEF States
  <1> QED
    BY <1>1, <1>2, <1>4, <1>5, <1>6, <1>8, <1>9

\* The other saves after a commit: none finds a row that is gone or has just
\* been written.
LEMMA CommitOthers ==
    ASSUME SavesInv, NEW w \in Savers, Commit(w), NEW v \in Savers, v # w
    PROVE  /\ tx'[v] # Idle <=> Active(v)
           /\ Active(v) => tx'[v].doomed = tx[v].doomed \ tx[w].doomed
           /\ tx'[v].at = tx[v].at /\ tx'[v].alone = tx[v].alone
           /\ tx'[v].new = tx[v].new /\ tx'[v].key = tx[v].key
           /\ tx'[v].edit = tx[v].edit
           /\ tx'[v].keys = tx[v].keys /\ tx'[v].old = tx[v].old
  <1> TypeOK
    BY DEF SavesInv
  <1>1. tx'[v] # Idle <=> Active(v)
    BY CommitEffect, Zenon
  <1>2. Active(v) => tx'[v].doomed = tx[v].doomed \ tx[w].doomed
    BY CommitEffect, Zenon
  <1>3. tx'[v].at = tx[v].at /\ tx'[v].alone = tx[v].alone
    BY CommitEffect, Zenon
  <1>4. tx'[v].new = tx[v].new /\ tx'[v].key = tx[v].key
    BY CommitEffect, Zenon
  <1>5. tx'[v].edit = tx[v].edit
    BY CommitEffect, Zenon
  <1>6. tx'[v].keys = tx[v].keys /\ tx'[v].old = tx[v].old
    BY CommitEffect, Zenon
  <1> QED
    BY <1>1, <1>2, <1>3, <1>4, <1>5, <1>6

LEMMA CommitKeepsSaves ==
    ASSUME SavesInv, NEW w \in Savers, Commit(w)
    PROVE  SavesInv'
  <1>1. tx' \in [Savers -> Save \cup {Idle}] /\ tx'[w] = Idle /\ apart' \in BOOLEAN
    <2>1. tx' \in [Savers -> Save \cup {Idle}] /\ tx'[w] = Idle /\ Active(w)
      BY CommitEffect, Zenon DEF SavesInv
    <2>2. tx[w].alone \in BOOLEAN
      BY <2>1, ActiveSaves DEF SavesInv, Save
    <2>3. apart' = (apart \/ tx[w].alone) /\ apart \in BOOLEAN
      BY Zenon DEF Commit, SavesInv, TypeOK
    <2>4. apart' \in BOOLEAN
      BY <2>2, <2>3, Zenon
    <2> QED
      BY <2>1, <2>4
  <1>2. TypeOK'
    BY <1>1, CommitLeaves DEF SavesInv, TypeOK
  <1>3. SaveOK(w)'
    BY <1>1 DEF SaveOK, Active
  <1>4. ASSUME NEW v \in Savers, v # w PROVE SaveOK(v)'
    <2> SUFFICES ASSUME Active(v) PROVE SaveOK(v)'
      BY <1>4, CommitOthers DEF SaveOK, Active
    <2>1. /\ tx'[v].doomed = tx[v].doomed \ tx[w].doomed
          /\ tx'[v].at = tx[v].at /\ tx'[v].new = tx[v].new /\ tx'[v].key = tx[v].key
          /\ tx'[v].edit = tx[v].edit
          /\ tx'[v].keys = tx[v].keys /\ tx'[v].old = tx[v].old
      BY <1>4, CommitOthers
    <2>2. live' = live /\ Present' = (Present \ tx[w].doomed) \cup {w}
      BY CommitLeaves
    <2>3. SaveOK(v) /\ Contents(v)' = Contents(v)
      BY <2>1, <2>2, SameContents DEF SavesInv
    <2> QED
      BY <1>4, <2>1, <2>2, <2>3 DEF SaveOK
  <1>5. Disjoint'
    <2> SUFFICES ASSUME NEW v \in Savers, NEW u \in Savers, v # u,
                        tx'[v].at \in Holding, tx'[u].at \in Holding
                 PROVE  tx'[v].doomed \cap tx'[u].doomed = {}
      BY DEF Disjoint
    <2>1. v # w /\ u # w
      BY <1>1, SaveTypes DEF Holding
    <2>2. tx[v].at \in Holding /\ tx[u].at \in Holding /\ Active(v) /\ Active(u)
      BY <2>1, CommitOthers, ActiveSaves DEF SavesInv, Holding, Steps
    <2>3. /\ tx'[v].doomed = tx[v].doomed \ tx[w].doomed
          /\ tx'[u].doomed = tx[u].doomed \ tx[w].doomed
      BY <2>1, <2>2, CommitOthers
    <2> QED
      BY <2>2, <2>3 DEF SavesInv, Disjoint
  <1> QED
    BY <1>2, <1>3, <1>4, <1>5, CommitLeaves DEF SavesInv

LEMMA RollbackEffect ==
    ASSUME TypeOK, NEW w \in Savers, Rollback(w)
    PROVE  /\ tx' \in [Savers -> Save \cup {Idle}] /\ tx'[w] = Idle
           /\ \A v \in Savers : v # w => tx'[v] = tx[v]
           /\ UNCHANGED <<live, rows, answered, apart>>
  BY DEF Rollback, TypeOK

LEMMA RollbackKeepsSaves ==
    ASSUME SavesInv, NEW w \in Savers, Rollback(w)
    PROVE  SavesInv'
  <1>1. TypeOK /\ apart \in BOOLEAN
    BY DEF SavesInv, TypeOK
  <1>2. /\ tx' \in [Savers -> Save \cup {Idle}] /\ tx'[w] = Idle
        /\ \A v \in Savers : v # w => tx'[v] = tx[v]
        /\ UNCHANGED <<live, rows, answered, apart>>
    BY <1>1, RollbackEffect
  <1>3. SaveOK(w)'
    BY <1>2 DEF SaveOK, Active
  <1>4. ASSUME NEW v \in Savers, v # w PROVE SaveOK(v)'
    BY <1>2, <1>4 DEF SavesInv, SaveOK, Active, Present, Contents
  <1>5. Disjoint'
    BY <1>2, SaveTypes DEF SavesInv, Disjoint, Holding
  <1> QED
    BY <1>1, <1>2, <1>3, <1>4, <1>5, SavesInvOf

\* A restart drops every save and forgets what the loaded row does not know.
LEMMA RestartEffect ==
    ASSUME TypeOK, Restart
    PROVE  /\ live' \in States /\ answered' \in States /\ UNCHANGED <<rows, apart>>
           /\ \A k \in Keys : answered'[k] <= live'[k] /\ answered'[k] <= answered[k]
           /\ \A w \in Savers : tx'[w] = Idle
           /\ tx' \in [Savers -> Save \cup {Idle}]
  <1>1. live' \in States
    <2>1. CASE live' = Nothing
      BY <2>1, StateTypes DEF States, Nothing
    <2>2. CASE \E w \in Present : live' = rows[w]
      BY <2>2 DEF TypeOK, Present
    <2> QED
      BY <2>1, <2>2 DEF Restart
  <1>2. answered' = [k \in Keys |-> IF answered[k] <= live'[k] THEN answered[k] ELSE live'[k]]
    BY DEF Restart
  <1>3. \A k \in Keys : /\ answered'[k] <= live'[k] /\ answered'[k] <= answered[k]
                        /\ answered'[k] \in 0 .. MaxEdits
    BY <1>1, <1>2, StateTypes DEF TypeOK, States
  <1>4. answered' \in States
    BY <1>2, <1>3 DEF States
  <1> QED
    BY <1>1, <1>3, <1>4 DEF Restart

LEMMA RestartKeepsSaves ==
    ASSUME SavesInv, Restart
    PROVE  SavesInv'
  <1>1. /\ TypeOK' /\ \A k \in Keys : answered'[k] <= live'[k]
        /\ \A w \in Savers : tx'[w] = Idle
    BY RestartEffect DEF SavesInv, TypeOK
  <1>2. \A w \in Savers : SaveOK(w)'
    BY <1>1 DEF SaveOK, Active
  <1>3. Disjoint'
    BY <1>1, SaveTypes DEF Disjoint, Holding
  <1> QED
    BY <1>1, <1>2, <1>3 DEF SavesInv

LEMMA SavesInvStep == SavesInv /\ [Next]_vars => SavesInv'
  <1> SUFFICES ASSUME SavesInv, [Next]_vars PROVE SavesInv'
    OBVIOUS
  <1>0. CASE \E k \in Keys : Replace(k)
    BY <1>0, ReplaceKeepsSaves
  <1>1. CASE \E k \in Keys : Edit(k)
    BY <1>1, EditKeepsSaves
  <1>2. CASE \E w \in Savers, k \in Keys : Begin(w, k)
    BY <1>2, BeginKeepsSaves
  <1>3. CASE \E w \in Savers : Delete(w)
    BY <1>3, DeleteKeepsSaves
  <1>4. CASE \E w \in Savers : Lock(w)
    BY <1>4, LockKeepsSaves
  <1>5. CASE \E w \in Savers : Insert(w)
    BY <1>5, InsertKeepsSaves
  <1>6. CASE \E w \in Savers : Commit(w)
    BY <1>6, CommitKeepsSaves
  <1>7. CASE \E w \in Savers : Rollback(w)
    BY <1>7, RollbackKeepsSaves
  <1>8. CASE Restart
    BY <1>8, RestartKeepsSaves
  <1>9. CASE UNCHANGED vars
    BY <1>9 DEF vars, SavesInv, TypeOK, SaveOK, Disjoint, Active, Present, Deleting, Contents
  <1> QED
    BY <1>0, <1>1, <1>2, <1>3, <1>4, <1>5, <1>6, <1>7, <1>8, <1>9 DEF Next, Progress

\* The saves that are out and the rows on the disk keep their types.
THEOREM SavesTyped == Spec => []TypeOK
  <1>1. SavesInv => TypeOK
    BY DEF SavesInv
  <1> QED
    BY <1>1, SavesInvInit, SavesInvStep, PTL DEF Spec

-----------------------------------------------------------------------------
(* Overlapping saves *)

\* A row that has the entry with every answered edit, or not at all.
Good(s, k) == s[k] = 0 \/ answered[k] <= s[k]

Writers == {w \in Savers : tx[w].at = "commit"}

\* Whichever of the saves about to commit do commit, in whatever order, what
\* they leave on the disk has a good row for each entry: one of theirs, or one
\* that none of them has found.  With none of them it is the property.
KeptBy(A, k) ==
    \/ \E x \in A : Good(tx[x].new, k)
    \/ \E v \in Present : (\A x \in A : v \notin tx[x].doomed) /\ Good(rows[v], k)

KeptInv ==
    \A A \in SUBSET Writers, k \in Keys \ Replaced : answered[k] > 0 => KeptBy(A, k)

\* A step that makes no save ready to commit and answers no client.
LEMMA KeptOf ==
    ASSUME KeptInv, UNCHANGED <<rows, answered>>,
           \A v \in Writers' : /\ v \in Writers /\ tx'[v].new = tx[v].new
                               /\ tx'[v].doomed = tx[v].doomed
    PROVE  KeptInv'
  <1> SUFFICES ASSUME NEW A \in SUBSET Writers', NEW k \in Keys \ Replaced, answered'[k] > 0
               PROVE  KeptBy(A, k)'
    BY DEF KeptInv
  <1>1. KeptBy(A, k)
    BY DEF KeptInv
  <1>2. \A x \in A : tx'[x].new = tx[x].new /\ tx'[x].doomed = tx[x].doomed
    OBVIOUS
  <1> QED
    BY <1>1, <1>2 DEF KeptBy, Good, Present

LEMMA InsertKeepsKept ==
    ASSUME SavesInv, KeptInv, NEW w \in Savers, Insert(w)
    PROVE  KeptInv'
  <1>1. TypeOK /\ live \in States /\ answered \in States /\ \A k \in Keys : answered[k] <= live[k]
    BY DEF SavesInv, TypeOK
  <1>2. /\ Active(w) /\ tx'[w].new = Contents(w)
        /\ \A v \in Savers : v # w => tx'[v] = tx[v]
        /\ UNCHANGED <<rows, answered>>
    BY <1>1, InsertEffect
  <1> SUFFICES ASSUME NEW A \in SUBSET Writers', NEW k \in Keys \ Replaced, answered'[k] > 0
               PROVE  KeptBy(A, k)'
    BY DEF KeptInv
  <1>3. CASE w \in A
    <2>1. Contents(w)[k] = live[k] \/ Contents(w)[k] = 0
      <3>1. tx[w].old[k] = 0
        BY <1>1, <1>2, ContentsTyped DEF SavesInv, SaveOK
      <3> QED
        BY <3>1 DEF Contents
    <2>2. Good(tx[w].new, k)'
      BY <1>1, <1>2, <2>1 DEF Good
    <2> QED
      BY <1>3, <2>2 DEF KeptBy
  <1>4. CASE w \notin A
    <2>1. \A x \in A : x \in Writers /\ tx'[x] = tx[x]
      BY <1>2, <1>4 DEF Writers
    <2>2. KeptBy(A, k)
      BY <1>2, <2>1 DEF KeptInv
    <2> QED
      BY <1>2, <2>1, <2>2 DEF KeptBy, Good, Present
  <1> QED
    BY <1>3, <1>4

LEMMA CommitKeepsKept ==
    ASSUME SavesInv, KeptInv, NEW w \in Savers, Commit(w)
    PROVE  KeptInv'
  <1> SUFFICES ASSUME NEW A \in SUBSET Writers', NEW k \in Keys \ Replaced, answered'[k] > 0
               PROVE  KeptBy(A, k)'
    BY DEF KeptInv
  <1>1. /\ Active(w) /\ w \in Writers /\ tx'[w] = Idle
    BY CommitEffect, Zenon DEF SavesInv, Writers
  <1>2. /\ rows'[w] = tx[w].new /\ tx[w].new \in States
        /\ Present' = (Present \ tx[w].doomed) \cup {w}
        /\ \A v \in Present \ tx[w].doomed : v # w /\ rows'[v] = rows[v]
        /\ answered[k] <= answered'[k] /\ answered[k] \in Nat /\ answered'[k] \in Nat
        /\ answered'[k] = answered[k] \/ answered'[k] <= tx[w].new[k]
    BY CommitLeaves, StateTypes DEF SavesInv, TypeOK
  <1>3. ASSUME NEW x \in A
        PROVE  /\ x \in Writers /\ x # w /\ tx'[x].new = tx[x].new
               /\ tx'[x].doomed = tx[x].doomed \ tx[w].doomed
    <2>1. x \in Savers /\ tx'[x].at = "commit" /\ x # w
      BY <1>1, SaveTypes DEF Writers
    <2>2. tx[x].at = "commit" /\ tx'[x].new = tx[x].new
      BY <2>1, CommitOthers
    <2>3. Active(x)
      BY <2>1, <2>2, ActiveSaves DEF SavesInv, Steps
    <2> QED
      BY <2>1, <2>2, <2>3, CommitOthers DEF Writers
  <1>4. \A x \in A : w \notin tx'[x].doomed
    <2> SUFFICES ASSUME NEW x \in A, w \in tx'[x].doomed PROVE FALSE
      OBVIOUS
    <2>1. x \in Writers /\ w \in tx[x].doomed /\ w \notin tx[w].doomed
      BY <1>3
    <2>2. tx[x].doomed \subseteq Present /\ (w \in Present => w \in tx[w].doomed)
      BY <1>1, <2>1, ActiveSaves DEF SavesInv, SaveOK, Writers, Deleting, Steps
    <2> QED
      BY <2>1, <2>2
  <1>5. CASE tx[w].new[k] = 0 \/ answered'[k] <= tx[w].new[k]
    BY <1>2, <1>4, <1>5 DEF KeptBy, Good
  <1>6. CASE ~ (tx[w].new[k] = 0 \/ answered'[k] <= tx[w].new[k])
    <2>1. answered'[k] = answered[k] /\ ~ Good(tx[w].new, k)
      BY <1>2, <1>6 DEF Good
    <2>2. A \cup {w} \in SUBSET Writers
      BY <1>1, <1>3
    <2>3. KeptBy(A \cup {w}, k)
      BY <2>1, <2>2 DEF KeptInv
    <2>4. CASE \E x \in A \cup {w} : Good(tx[x].new, k)
      <3>1. PICK x \in A : Good(tx[x].new, k)
        BY <2>1, <2>4
      <3>2. Good(tx[x].new, k)'
        BY <1>3, <2>1, <3>1 DEF Good
      <3> QED
        BY <3>2 DEF KeptBy
    <2>5. CASE \E v \in Present : /\ \A x \in A \cup {w} : v \notin tx[x].doomed
                                  /\ Good(rows[v], k)
      <3>1. PICK v \in Present : /\ \A x \in A \cup {w} : v \notin tx[x].doomed
                                 /\ Good(rows[v], k)
        BY <2>5
      <3>2. v \in Present' /\ rows'[v] = rows[v] /\ \A x \in A : v \notin tx'[x].doomed
        BY <1>2, <1>3, <3>1
      <3>3. Good(rows[v], k)'
        BY <2>1, <3>1, <3>2 DEF Good
      <3> QED
        BY <3>2, <3>3 DEF KeptBy
    <2> QED
      BY <2>3, <2>4, <2>5 DEF KeptBy
  <1> QED
    BY <1>5, <1>6

LEMMA RestartKeepsKept ==
    ASSUME SavesInv, KeptInv, Restart
    PROVE  KeptInv'
  <1>1. /\ \A w \in Savers : tx'[w] = Idle
        /\ answered \in States /\ answered' \in States
        /\ \A k \in Keys : answered'[k] <= answered[k]
    BY RestartEffect DEF SavesInv, TypeOK
  <1>2. rows' = rows
    BY DEF Restart
  <1> SUFFICES ASSUME NEW A \in SUBSET Writers', NEW k \in Keys \ Replaced, answered'[k] > 0
               PROVE  KeptBy(A, k)'
    BY DEF KeptInv
  <1>3. A = {}
    BY <1>1, SaveTypes DEF Writers
  <1>4. answered[k] \in Nat /\ answered'[k] \in Nat /\ answered'[k] <= answered[k]
    BY <1>1, StateTypes
  <1>5. KeptBy({}, k)
    BY <1>4 DEF KeptInv
  <1>6. PICK v \in Present : Good(rows[v], k)
    BY <1>5 DEF KeptBy
  <1>7. rows[v][k] \in Nat
    BY <1>6, StateTypes DEF SavesInv, TypeOK, Present
  <1>8. Good(rows[v], k)'
    BY <1>2, <1>4, <1>6, <1>7 DEF Good
  <1> QED
    BY <1>2, <1>3, <1>6, <1>8 DEF KeptBy, Present

LEMMA KeptInvStep == SavesInv /\ KeptInv /\ [Next]_vars => KeptInv'
  <1> SUFFICES ASSUME SavesInv, KeptInv, [Next]_vars PROVE KeptInv'
    OBVIOUS
  <1> TypeOK
    BY DEF SavesInv
  <1>0. CASE \E k \in Keys : Replace(k)
    <2>1. PICK k \in Keys : Replace(k)
      BY <1>0
    <2>2. UNCHANGED <<rows, answered>>
      BY <2>1, ReplaceEffect
    <2>3. \A w \in Savers : /\ tx'[w].at = tx[w].at /\ tx'[w].new = tx[w].new
                            /\ tx'[w].doomed = tx[w].doomed
      BY <2>1, ReplaceEffect
    <2> QED
      BY <2>2, <2>3, KeptOf DEF Writers
  <1>1. CASE \E k \in Keys : Edit(k)
    BY <1>1, KeptOf DEF Edit, Writers
  <1>2. CASE \E w \in Savers, k \in Keys : Begin(w, k)
    <2>1. PICK w \in Savers, k \in Keys : Begin(w, k)
      BY <1>2
    <2>2. tx'[w].at = "delete" /\ UNCHANGED <<rows, answered>>
      BY <2>1, BeginEffect, Zenon
    <2>3. \A v \in Savers : v # w =>
                 /\ tx'[v] # Idle <=> Active(v)
                 /\ Active(v) => tx'[v].alone # TRUE
                 /\ tx'[v].at = tx[v].at /\ tx'[v].doomed = tx[v].doomed
                 /\ tx'[v].new = tx[v].new /\ tx'[v].key = tx[v].key
                 /\ tx'[v].edit = tx[v].edit
                 /\ tx'[v].keys = tx[v].keys /\ tx'[v].old = tx[v].old
      BY <2>1, BeginEffect, Zenon
    <2> QED
      BY <2>2, <2>3, KeptOf DEF Writers
  <1>3. CASE \E w \in Savers : Delete(w)
    <2>1. PICK w \in Savers : Delete(w)
      BY <1>3
    <2>2. /\ tx'[w].at = "lock" /\ UNCHANGED <<rows, answered>>
          /\ \A v \in Savers : v # w => tx'[v] = tx[v]
      BY <2>1, DeleteEffect
    <2> QED
      BY <2>2, KeptOf DEF Writers
  <1>4. CASE \E w \in Savers : Lock(w)
    <2>1. PICK w \in Savers : Lock(w)
      BY <1>4
    <2>2. /\ tx'[w].at = "insert" /\ UNCHANGED <<rows, answered>>
          /\ \A v \in Savers : v # w => tx'[v] = tx[v]
      BY <2>1, LockEffect
    <2> QED
      BY <2>2, KeptOf DEF Writers
  <1>5. CASE \E w \in Savers : Insert(w)
    BY <1>5, InsertKeepsKept
  <1>6. CASE \E w \in Savers : Commit(w)
    BY <1>6, CommitKeepsKept
  <1>7. CASE \E w \in Savers : Rollback(w)
    <2>1. PICK w \in Savers : Rollback(w)
      BY <1>7
    <2>2. /\ tx'[w].at = "idle" /\ UNCHANGED <<rows, answered>>
          /\ \A v \in Savers : v # w => tx'[v] = tx[v]
      BY <2>1, RollbackEffect, SaveTypes
    <2> QED
      BY <2>2, KeptOf DEF Writers
  <1>8. CASE Restart
    BY <1>8, RestartKeepsKept
  <1>9. CASE UNCHANGED vars
    BY <1>9, KeptOf DEF vars, Writers
  <1> QED
    BY <1>0, <1>1, <1>2, <1>3, <1>4, <1>5, <1>6, <1>7, <1>8, <1>9 DEF Next, Progress

\* However saves overlap, fail or are cut off by a restart, an entry whose
\* object is kept is never left on the disk in older edits alone.
THEOREM EditsKeptOrForgotten == Spec => []KeptOrForgottenWhole
  <1>1. Init => KeptInv
    <2> SUFFICES ASSUME Init, NEW k \in Keys PROVE answered[k] = 0
      BY DEF KeptInv
    <2> QED
      BY DEF Init, Nothing
  <1>2. SavesInv /\ KeptInv => KeptOrForgottenWhole
    <2> SUFFICES ASSUME SavesInv, KeptInv, NEW k \in Keys \ Replaced, answered[k] > 0
                 PROVE  \E w \in Present : rows[w][k] = 0 \/ answered[k] <= rows[w][k]
      BY DEF KeptOrForgottenWhole
    <2>1. KeptBy({}, k)
      BY DEF KeptInv
    <2> QED
      BY <2>1 DEF KeptBy, Good
  <1> QED
    BY <1>1, <1>2, SavesInvInit, SavesInvStep, KeptInvStep, PTL DEF Spec

-----------------------------------------------------------------------------
(* Saves that do not overlap *)

\* A save that has met no other: the rest are idle, it has found every row
\* there is, and every answered edit is in what it would write and in the row
\* it has written.
AloneOK(w) ==
    Active(w) /\ tx[w].alone = TRUE =>
        /\ \A v \in Savers : v # w => ~Active(v)
        /\ tx[w].at \in Deleting => tx[w].doomed = Present
        /\ \A k \in Keys : answered[k] <= Contents(w)[k]
        /\ tx[w].at = "commit" => \A k \in Keys : answered[k] <= tx[w].new[k]

AloneInv ==
    /\ \A w \in Savers : AloneOK(w)
    /\ apart = TRUE => /\ \A w \in Savers : Active(w) => tx[w].alone = TRUE
                       /\ \A k \in Keys : answered[k] > 0 =>
                             /\ Present # {}
                             /\ \A w \in Present : answered[k] <= rows[w][k]

\* A step of a save that leaves the others, the rows and the answers alone.
LEMMA AloneOf ==
    ASSUME AloneInv, NEW w \in Savers, UNCHANGED <<live, rows, answered, apart>>,
           Active(w), tx'[w] # Idle => tx'[w].alone = tx[w].alone /\ AloneOK(w)',
           \A v \in Savers : v # w => tx'[v] = tx[v]
    PROVE  AloneInv'
  <1>1. ASSUME NEW v \in Savers PROVE AloneOK(v)'
    <2>1. CASE v = w
      BY <2>1 DEF AloneOK, Active
    <2>2. CASE v # w
      BY <2>2 DEF AloneInv, AloneOK, Active, Present, Contents
    <2> QED
      BY <2>1, <2>2
  <1>2. ASSUME apart' = TRUE, NEW v \in Savers, Active(v)' PROVE tx'[v].alone = TRUE
    BY <1>2 DEF AloneInv, Active
  <1> QED
    BY <1>1, <1>2 DEF AloneInv, Present

\* A step of memory: the saves stay where they are, and none would write less.
LEMMA AloneGrows ==
    ASSUME AloneInv, answered \in States, UNCHANGED <<rows, answered, apart>>,
           \A w \in Savers : /\ tx'[w] # Idle <=> Active(w)
                            /\ tx'[w].at = tx[w].at /\ tx'[w].doomed = tx[w].doomed
                            /\ tx'[w].new = tx[w].new /\ tx'[w].alone = tx[w].alone,
           \A w \in Savers, k \in Keys : Active(w) =>
               /\ Contents(w)[k] <= Contents(w)'[k]
               /\ Contents(w)[k] \in Nat /\ Contents(w)'[k] \in Nat
    PROVE  AloneInv'
  <1>1. ASSUME NEW w \in Savers PROVE AloneOK(w)'
    <2> SUFFICES ASSUME Active(w), tx[w].alone = TRUE PROVE AloneOK(w)'
      BY DEF AloneOK, Active
    <2>1. AloneOK(w)
      BY DEF AloneInv
    <2>2. \A k \in Keys : answered[k] <= Contents(w)'[k]
      BY <2>1, StateTypes DEF AloneOK
    <2> QED
      BY <2>1, <2>2 DEF AloneOK, Active, Present
  <1> QED
    BY <1>1 DEF AloneInv, Active, Present

LEMMA EditKeepsAlone ==
    ASSUME SavesInv, AloneInv, NEW k \in Keys, Edit(k)
    PROVE  AloneInv'
  <1>1. TypeOK /\ answered \in States
    BY DEF SavesInv, TypeOK
  <1>2. UNCHANGED <<rows, tx, answered, apart>>
    BY DEF Edit
  <1>3. \A w \in Savers, q \in Keys : Active(w) =>
           /\ Contents(w)[q] <= Contents(w)'[q]
           /\ Contents(w)[q] \in Nat /\ Contents(w)'[q] \in Nat
    BY <1>1, EditGrows, ContentsTyped
  <1> QED
    BY <1>1, <1>2, <1>3, AloneGrows DEF Active

LEMMA ReplaceKeepsAlone ==
    ASSUME SavesInv, AloneInv, NEW k \in Keys, Replace(k)
    PROVE  AloneInv'
  <1>1. TypeOK /\ answered \in States
    BY DEF SavesInv, TypeOK
  <1>2. UNCHANGED <<rows, answered, apart>>
    BY <1>1, ReplaceEffect
  <1>3. \A w \in Savers : /\ tx'[w] # Idle <=> Active(w)
                          /\ tx'[w].at = tx[w].at /\ tx'[w].doomed = tx[w].doomed
                          /\ tx'[w].new = tx[w].new /\ tx'[w].alone = tx[w].alone
    BY <1>1, ReplaceEffect
  <1>4. ASSUME NEW w \in Savers, NEW q \in Keys, Active(w)
        PROVE  /\ Contents(w)[q] <= Contents(w)'[q]
               /\ Contents(w)[q] \in Nat /\ Contents(w)'[q] \in Nat
    <2>1. Contents(w)'[q] = Contents(w)[q]
      BY <1>1, <1>4, ReplaceEffect
    <2> QED
      BY <1>1, <1>4, <2>1, ContentsTyped
  <1> QED
    BY <1>1, <1>2, <1>3, <1>4, AloneGrows

LEMMA BeginKeepsAlone ==
    ASSUME SavesInv, AloneInv, NEW w \in Savers, NEW k \in Keys, Begin(w, k)
    PROVE  AloneInv'
  <1> TypeOK
    BY DEF SavesInv
  <1>1. /\ tx'[w].at = "delete" /\ tx'[w].keys = Listed /\ tx'[w].old = Nothing
        /\ UNCHANGED <<live, rows, answered>>
    BY BeginEffect, Zenon
  <1>2. tx'[w].alone = TRUE => \A v \in Savers : ~Active(v)
    BY BeginEffect, Zenon
  <1>3. \A v \in Savers : v # w => (tx'[v] # Idle <=> Active(v))
    BY BeginEffect, Zenon
  <1>4. \A v \in Savers : v # w /\ Active(v) => tx'[v].alone # TRUE
    BY BeginEffect, Zenon
  <1>5. AloneOK(w)'
    <2>1. ASSUME NEW q \in Keys PROVE answered'[q] <= Contents(w)'[q]
      <3>1. Contents(w)'[q] = live[q]
        BY <1>1, BeginContents DEF TypeOK
      <3> QED
        BY <1>1, <3>1 DEF SavesInv
    <2>2. \A v \in Savers : v # w /\ tx'[w].alone = TRUE => ~Active(v)'
      BY <1>2, <1>3 DEF Active
    <2> QED
      BY <1>1, <2>1, <2>2 DEF AloneOK, Deleting
  <1>6. ASSUME NEW v \in Savers, v # w PROVE AloneOK(v)'
    BY <1>3, <1>4, <1>6 DEF AloneOK, Active
  <1>7. apart' = TRUE => apart = TRUE /\ \A v \in Savers : ~Active(v)
    BY Zenon DEF Begin, TypeOK
  <1>8. apart' = TRUE => tx'[w].alone = TRUE
    <2> SUFFICES ASSUME \A v \in Savers : ~Active(v) PROVE tx'[w].alone = TRUE
      BY <1>7
    <2> DEFINE met == \E v \in Savers : Active(v)
               first == [at |-> "delete", key |-> k, edit |-> live[k], keys |-> Listed,
                         old |-> Nothing, doomed |-> {}, new |-> NoRow, alone |-> ~met]
    <2>1. tx'[w] = first
      BY DEF Begin
    <2>2. first.alone = TRUE
      BY Zenon
    <2> QED
      BY <2>1, <2>2
  <1>9. \A v \in Savers : apart' = TRUE /\ v # w => ~Active(v)'
    BY <1>3, <1>7 DEF Active
  <1> QED
    BY <1>1, <1>5, <1>6, <1>7, <1>8, <1>9 DEF AloneInv, Present

LEMMA CommitKeepsAlone ==
    ASSUME SavesInv, AloneInv, NEW w \in Savers, Commit(w)
    PROVE  AloneInv'
  <1> TypeOK
    BY DEF SavesInv
  <1>1. Active(w) /\ tx[w].at = "commit" /\ tx'[w] = Idle
    BY CommitEffect, Zenon
  <1>2. \A v \in Savers : v # w => tx'[v].alone = tx[v].alone /\ (tx'[v] # Idle <=> Active(v))
    BY CommitOthers
  <1>3. /\ rows'[w] = tx[w].new /\ tx[w].new \in States
        /\ Present' = (Present \ tx[w].doomed) \cup {w}
        /\ \A k \in Keys : /\ answered[k] \in Nat /\ answered'[k] \in Nat
                           /\ answered'[k] = answered[k] \/ answered'[k] <= tx[w].new[k]
    BY CommitLeaves, StateTypes DEF SavesInv, TypeOK
  <1>4. ASSUME NEW v \in Savers PROVE AloneOK(v)'
    <2>1. CASE v = w
      BY <1>1, <2>1 DEF AloneOK, Active
    <2>2. CASE v # w
      <3>1. Active(v)' => Active(v) /\ tx'[v].alone = tx[v].alone
        BY <1>2, <2>2 DEF Active
      <3>2. ~(Active(v) /\ tx[v].alone = TRUE)
        BY <1>1, <2>2 DEF AloneInv, AloneOK
      <3> QED
        BY <3>1, <3>2 DEF AloneOK
    <2> QED
      BY <2>1, <2>2
  <1>5. CASE tx[w].alone = TRUE
    <2>1. /\ \A v \in Savers : v # w => ~Active(v)
          /\ tx[w].doomed = Present /\ \A k \in Keys : answered[k] <= tx[w].new[k]
      BY <1>1, <1>5 DEF AloneInv, AloneOK, Deleting
    <2>2. \A v \in Savers : ~Active(v)'
      BY <1>1, <1>2, <2>1 DEF Active
    <2>3. Present' = {w}
      BY <1>3, <2>1
    <2>4. \A k \in Keys : answered'[k] <= rows'[w][k]
      BY <1>3, <2>1
    <2> QED
      BY <1>4, <2>2, <2>3, <2>4 DEF AloneInv
  <1>6. CASE tx[w].alone # TRUE
    <2>1. apart # TRUE
      BY <1>1, <1>6 DEF AloneInv
    <2>2. tx[w].alone \in BOOLEAN /\ apart \in BOOLEAN
      BY <1>1, ActiveSaves DEF Save, TypeOK
    <2>3. apart' = (apart \/ tx[w].alone)
      BY DEF Commit
    <2>4. apart' # TRUE
      BY <1>6, <2>1, <2>2, <2>3, Zenon
    <2> QED
      BY <1>4, <2>4 DEF AloneInv
  <1> QED
    BY <1>5, <1>6

LEMMA RestartKeepsAlone ==
    ASSUME SavesInv, AloneInv, Restart
    PROVE  AloneInv'
  <1>1. /\ \A w \in Savers : tx'[w] = Idle
        /\ answered \in States /\ answered' \in States
        /\ \A k \in Keys : answered'[k] <= answered[k]
    BY RestartEffect DEF SavesInv, TypeOK
  <1>2. rows' = rows /\ apart' = apart
    BY DEF Restart
  <1>3. \A w \in Savers : ~Active(w)'
    BY <1>1 DEF Active
  <1>4. \A k \in Keys : answered[k] \in Nat /\ answered'[k] \in Nat
    BY <1>1, StateTypes
  <1>5. \A w \in Present, k \in Keys : rows[w][k] \in Nat
    BY StateTypes DEF SavesInv, TypeOK, Present
  <1>6. ASSUME apart' = TRUE, NEW k \in Keys, answered'[k] > 0
        PROVE  /\ Present' # {}
               /\ \A w \in Present' : answered'[k] <= rows'[w][k]
    <2>1. answered[k] > 0 /\ Present' = Present
      BY <1>1, <1>2, <1>4, <1>6 DEF Present
    <2>2. Present # {} /\ \A w \in Present : answered[k] <= rows[w][k]
      BY <1>2, <1>6, <2>1 DEF AloneInv
    <2> QED
      BY <1>1, <1>2, <1>4, <1>5, <2>1, <2>2
  <1> QED
    BY <1>3, <1>6 DEF AloneInv, AloneOK

LEMMA AloneInvStep == SavesInv /\ AloneInv /\ [Next]_vars => AloneInv'
  <1> SUFFICES ASSUME SavesInv, AloneInv, [Next]_vars PROVE AloneInv'
    OBVIOUS
  <1> TypeOK
    BY DEF SavesInv
  <1>0. CASE \E k \in Keys : Replace(k)
    BY <1>0, ReplaceKeepsAlone
  <1>1. CASE \E k \in Keys : Edit(k)
    BY <1>1, EditKeepsAlone
  <1>2. CASE \E w \in Savers, k \in Keys : Begin(w, k)
    BY <1>2, BeginKeepsAlone
  <1>3. CASE \E w \in Savers : Delete(w)
    <2>1. PICK w \in Savers : Delete(w)
      BY <1>3
    <2>2. /\ Active(w) /\ tx'[w] # Idle /\ tx'[w].at = "lock" /\ tx'[w].doomed = Present
          /\ tx'[w].keys = tx[w].keys /\ tx'[w].old = tx[w].old /\ tx'[w].alone = tx[w].alone
          /\ \A v \in Savers : v # w => tx'[v] = tx[v]
          /\ UNCHANGED <<live, rows, answered, apart>>
      BY <2>1, DeleteEffect
    <2>3. AloneOK(w)'
      BY <2>2, SameContents DEF AloneInv, AloneOK, Active, Present
    <2> QED
      BY <2>2, <2>3, AloneOf
  <1>4. CASE \E w \in Savers : Lock(w)
    <2>1. PICK w \in Savers : Lock(w)
      BY <1>4
    <2>2. /\ Active(w) /\ tx[w].at = "lock" /\ tx'[w] # Idle
          /\ tx'[w].at = "insert" /\ tx'[w].doomed = tx[w].doomed
          /\ tx'[w].keys = tx[w].keys /\ tx'[w].old = tx[w].old /\ tx'[w].alone = tx[w].alone
          /\ \A v \in Savers : v # w => tx'[v] = tx[v]
          /\ UNCHANGED <<live, rows, answered, apart>>
      BY <2>1, LockEffect
    <2>3. AloneOK(w)'
      BY <2>2, SameContents DEF AloneInv, AloneOK, Active, Present, Deleting
    <2> QED
      BY <2>2, <2>3, AloneOf
  <1>5. CASE \E w \in Savers : Insert(w)
    <2>1. PICK w \in Savers : Insert(w)
      BY <1>5
    <2>2. /\ Active(w) /\ tx[w].at = "insert" /\ tx'[w] # Idle
          /\ tx'[w].at = "commit" /\ tx'[w].doomed = tx[w].doomed
          /\ tx'[w].new = Contents(w)
          /\ tx'[w].keys = tx[w].keys /\ tx'[w].old = tx[w].old /\ tx'[w].alone = tx[w].alone
          /\ \A v \in Savers : v # w => tx'[v] = tx[v]
          /\ UNCHANGED <<live, rows, answered, apart>>
      BY <2>1, InsertEffect
    <2>3. AloneOK(w)'
      BY <2>2, SameContents DEF AloneInv, AloneOK, Active, Present, Deleting
    <2> QED
      BY <2>2, <2>3, AloneOf
  <1>6. CASE \E w \in Savers : Commit(w)
    BY <1>6, CommitKeepsAlone
  <1>7. CASE \E w \in Savers : Rollback(w)
    <2>1. PICK w \in Savers : Rollback(w)
      BY <1>7
    <2>2. /\ Active(w) /\ tx'[w] = Idle /\ UNCHANGED <<live, rows, answered, apart>>
          /\ \A v \in Savers : v # w => tx'[v] = tx[v]
      BY <2>1, RollbackEffect DEF Rollback
    <2> QED
      BY <2>2, AloneOf
  <1>8. CASE Restart
    BY <1>8, RestartKeepsAlone
  <1>9. CASE UNCHANGED vars
    BY <1>9 DEF vars, AloneInv, AloneOK, Active, Present, Contents
  <1> QED
    BY <1>0, <1>1, <1>2, <1>3, <1>4, <1>5, <1>6, <1>7, <1>8, <1>9 DEF Next, Progress

\* While no two saves overlap, and again after one that runs alone, a restart
\* loads every edit a client has been answered for.
THEOREM AnsweredEditsLoad == Spec => []AnsweredLoads
  <1>1. Init => AloneInv
    BY DEF Init, AloneInv, AloneOK, Active, Nothing
  <1>2. SavesInv /\ AloneInv => AnsweredLoads
    <2> SUFFICES ASSUME SavesInv, AloneInv, apart PROVE AnsweredLoads
      BY DEF AnsweredLoads
    <2>1. apart = TRUE
      BY Zenon DEF SavesInv, TypeOK
    <2> QED
      BY <2>1 DEF AloneInv, AnsweredLoads
  <1> QED
    BY <1>1, <1>2, SavesInvInit, SavesInvStep, AloneInvStep, PTL DEF Spec

-----------------------------------------------------------------------------
(* What the store promises to the handlers *)

\* Of a save that has met no other: what it has written is in memory; and as
\* long as no save has met another, what it would write and what it has
\* written are nowhere older than the disk.
WritesOK(w) ==
    Active(w) /\ tx[w].alone = TRUE =>
        /\ tx[w].at = "commit" => \A k \in Keys : tx[w].new[k] <= live[k]
        /\ apart = TRUE => \A v \in Present, k \in Keys :
              /\ rows[v][k] <= Contents(w)[k]
              /\ tx[w].at = "commit" => rows[v][k] <= tx[w].new[k]

\* Without overlaps there is one row, and memory has all of it.
OneRow ==
    /\ \A v, w \in Present : v = w
    /\ \A w \in Present, k \in Keys : rows[w][k] <= live[k]

KeepsInv ==
    /\ \A w \in Savers : WritesOK(w)
    /\ apart = TRUE => OneRow

LEMMA RowTypes ==
    ASSUME TypeOK
    PROVE  /\ \A k \in Keys : live[k] \in Nat
           /\ \A w \in Present, k \in Keys : rows[w] \in States /\ rows[w][k] \in Nat
  BY StateTypes DEF TypeOK, Present

\* A step of memory: the saves stay where they are, and none would write less.
LEMMA KeepsGrows ==
    ASSUME SavesInv, KeepsInv, UNCHANGED <<rows, apart>>, live' \in States,
           \A k \in Keys : live[k] <= live'[k],
           \A w \in Savers : /\ tx'[w] # Idle <=> Active(w)
                            /\ tx'[w].at = tx[w].at /\ tx'[w].new = tx[w].new
                            /\ tx'[w].alone = tx[w].alone,
           \A w \in Savers, k \in Keys : Active(w) =>
               /\ Contents(w)[k] <= Contents(w)'[k]
               /\ Contents(w)[k] \in Nat /\ Contents(w)'[k] \in Nat
    PROVE  KeepsInv'
  <1> TypeOK
    BY DEF SavesInv
  <1>1. \A q \in Keys : live[q] <= live'[q] /\ live[q] \in Nat /\ live'[q] \in Nat
    BY StateTypes DEF TypeOK
  <1>2. Present' = Present
    BY DEF Present
  <1>3. ASSUME NEW w \in Savers PROVE WritesOK(w)'
    <2> SUFFICES ASSUME Active(w), tx[w].alone = TRUE PROVE WritesOK(w)'
      BY DEF WritesOK, Active
    <2>1. WritesOK(w) /\ SaveOK(w)
      BY DEF KeepsInv, SavesInv
    <2>2. tx[w].at = "commit" => \A q \in Keys : tx[w].new[q] \in Nat
      BY <2>1, StateTypes DEF SaveOK
    <2>3. tx[w].at = "commit" => \A q \in Keys : tx[w].new[q] <= live'[q]
      BY <1>1, <2>1, <2>2 DEF WritesOK
    <2>4. apart = TRUE => \A v \in Present, q \in Keys : rows[v][q] <= Contents(w)'[q]
      BY <2>1, RowTypes DEF WritesOK
    <2> QED
      BY <1>2, <2>1, <2>3, <2>4 DEF WritesOK
  <1>4. apart' = TRUE => OneRow'
    <2> SUFFICES ASSUME apart = TRUE PROVE OneRow'
      OBVIOUS
    <2>1. OneRow
      BY DEF KeepsInv
    <2>2. \A w \in Present, q \in Keys : rows'[w][q] <= live'[q]
      BY <1>1, <2>1, RowTypes DEF OneRow
    <2> QED
      BY <1>2, <2>1, <2>2 DEF OneRow
  <1> QED
    BY <1>3, <1>4 DEF KeepsInv

LEMMA EditKeepsKeeps ==
    ASSUME SavesInv, KeepsInv, NEW k \in Keys, Edit(k)
    PROVE  KeepsInv'
  <1> TypeOK
    BY DEF SavesInv
  <1>1. live' \in States /\ \A q \in Keys : live[q] <= live'[q]
    BY EditKeepsSaves DEF SavesInv, TypeOK
  <1>2. UNCHANGED <<rows, tx, apart>>
    BY DEF Edit
  <1>3. \A w \in Savers, q \in Keys : Active(w) =>
           /\ Contents(w)[q] <= Contents(w)'[q]
           /\ Contents(w)[q] \in Nat /\ Contents(w)'[q] \in Nat
    BY EditGrows, ContentsTyped
  <1> QED
    BY <1>1, <1>2, <1>3, KeepsGrows DEF Active

LEMMA ReplaceKeepsKeeps ==
    ASSUME SavesInv, KeepsInv, NEW k \in Keys, Replace(k)
    PROVE  KeepsInv'
  <1> TypeOK
    BY DEF SavesInv
  <1>1. /\ live' \in States /\ \A q \in Keys : live[q] <= live'[q]
        /\ UNCHANGED <<rows, apart>>
    BY ReplaceEffect
  <1>2. \A w \in Savers : /\ tx'[w] # Idle <=> Active(w)
                          /\ tx'[w].at = tx[w].at /\ tx'[w].new = tx[w].new
                          /\ tx'[w].alone = tx[w].alone
    BY ReplaceEffect
  <1>3. ASSUME NEW w \in Savers, NEW q \in Keys, Active(w)
        PROVE  /\ Contents(w)[q] <= Contents(w)'[q]
               /\ Contents(w)[q] \in Nat /\ Contents(w)'[q] \in Nat
    <2>1. Contents(w)'[q] = Contents(w)[q]
      BY <1>3, ReplaceEffect
    <2> QED
      BY <1>3, <2>1, ContentsTyped
  <1> QED
    BY <1>1, <1>2, <1>3, KeepsGrows

\* A step of a save that leaves the others, memory and the rows alone.
LEMMA KeepsOf ==
    ASSUME KeepsInv, NEW w \in Savers, UNCHANGED <<live, rows, apart>>,
           Active(w), tx'[w] # Idle => WritesOK(w)',
           \A v \in Savers : v # w => tx'[v] = tx[v]
    PROVE  KeepsInv'
  <1>1. ASSUME NEW v \in Savers PROVE WritesOK(v)'
    <2>1. CASE v = w
      BY <2>1 DEF WritesOK, Active
    <2>2. CASE v # w
      BY <2>2 DEF KeepsInv, WritesOK, Active, Present, Contents
    <2> QED
      BY <2>1, <2>2
  <1>2. apart' = TRUE => OneRow'
    BY DEF KeepsInv, OneRow, Present
  <1> QED
    BY <1>1, <1>2 DEF KeepsInv

LEMMA BeginKeepsKeeps ==
    ASSUME SavesInv, KeepsInv, NEW w \in Savers, NEW k \in Keys, Begin(w, k)
    PROVE  KeepsInv'
  <1> TypeOK
    BY DEF SavesInv
  <1>1. /\ tx'[w].at = "delete" /\ tx'[w].keys = Listed /\ tx'[w].old = Nothing
        /\ UNCHANGED <<live, rows, answered>>
    BY BeginEffect, Zenon
  <1>2. \A v \in Savers : v # w => (tx'[v] # Idle <=> Active(v))
    BY BeginEffect, Zenon
  <1>3. \A v \in Savers : v # w /\ Active(v) => tx'[v].alone # TRUE
    BY BeginEffect, Zenon
  <1>4. apart' = TRUE => apart = TRUE
    BY Zenon DEF Begin, TypeOK
  <1>5. apart' = TRUE => OneRow /\ OneRow'
    BY <1>1, <1>4 DEF KeepsInv, OneRow, Present
  <1>6. WritesOK(w)'
    <2>1. ASSUME apart' = TRUE, NEW v \in Present, NEW q \in Keys
          PROVE  rows[v][q] <= Contents(w)'[q]
      <3>1. Contents(w)'[q] = live[q]
        BY <1>1, BeginContents DEF TypeOK
      <3> QED
        BY <1>5, <2>1, <3>1 DEF OneRow
    <2>2. Present' = Present
      BY <1>1 DEF Present
    <2> QED
      BY <1>1, <2>1, <2>2 DEF WritesOK
  <1>7. ASSUME NEW v \in Savers, v # w PROVE WritesOK(v)'
    BY <1>2, <1>3, <1>7 DEF WritesOK, Active
  <1> QED
    BY <1>5, <1>6, <1>7 DEF KeepsInv

LEMMA InsertKeepsKeeps ==
    ASSUME SavesInv, KeepsInv, NEW w \in Savers, Insert(w)
    PROVE  KeepsInv'
  <1> TypeOK
    BY DEF SavesInv
  <1>1. /\ Active(w) /\ tx'[w].new = Contents(w)
        /\ tx'[w].keys = tx[w].keys /\ tx'[w].old = tx[w].old /\ tx'[w].alone = tx[w].alone
        /\ \A v \in Savers : v # w => tx'[v] = tx[v]
        /\ UNCHANGED <<live, rows, answered, apart>>
    BY InsertEffect
  <1>2. Present' = Present /\ Contents(w)' = Contents(w)
    BY <1>1, SameContents DEF Present
  <1>3. \A k \in Keys : Contents(w)[k] <= live[k]
    BY <1>1, ContentsTyped DEF SavesInv, SaveOK
  <1>4. WritesOK(w)'
    BY <1>1, <1>2, <1>3 DEF KeepsInv, WritesOK, Active
  <1> QED
    BY <1>1, <1>4, KeepsOf

\* What the commit of a save that has met no other leaves: its row alone.
LEMMA AloneLeaves ==
    ASSUME SavesInv, AloneInv, NEW w \in Savers, Commit(w), tx[w].alone = TRUE
    PROVE  /\ Present' = {w} /\ rows'[w] = tx[w].new /\ live' = live
           /\ \A v \in Savers : ~Active(v)'
  <1> TypeOK
    BY DEF SavesInv
  <1>1. Active(w) /\ tx[w].at = "commit" /\ tx'[w] = Idle
    BY CommitEffect, Zenon
  <1>2. tx[w].doomed = Present /\ \A v \in Savers : v # w => ~Active(v)
    BY <1>1 DEF AloneInv, AloneOK, Deleting
  <1>3. \A v \in Savers : ~Active(v)'
    BY <1>1, <1>2, CommitOthers DEF Active
  <1> QED
    BY <1>2, <1>3, CommitLeaves

LEMMA CommitKeepsKeeps ==
    ASSUME SavesInv, AloneInv, KeepsInv, NEW w \in Savers, Commit(w)
    PROVE  KeepsInv'
  <1> TypeOK
    BY DEF SavesInv
  <1>1. Active(w) /\ tx[w].at = "commit" /\ tx'[w] = Idle
    BY CommitEffect, Zenon
  <1>2. CASE tx[w].alone = TRUE
    <2>1. \A k \in Keys : tx[w].new[k] <= live[k]
      BY <1>1, <1>2 DEF KeepsInv, WritesOK
    <2>2. /\ Present' = {w} /\ rows'[w] = tx[w].new /\ live' = live
          /\ \A v \in Savers : ~Active(v)'
      BY <1>2, AloneLeaves
    <2>3. OneRow'
      BY <2>1, <2>2 DEF OneRow
    <2> QED
      BY <2>2, <2>3 DEF KeepsInv, WritesOK
  <1>3. CASE tx[w].alone # TRUE
    <2>1. apart # TRUE
      BY <1>1, <1>3 DEF AloneInv
    <2>2. tx[w].alone \in BOOLEAN /\ apart \in BOOLEAN
      BY <1>1, ActiveSaves DEF Save, TypeOK
    <2>3. apart' = (apart \/ tx[w].alone)
      BY DEF Commit
    <2>4. apart' # TRUE
      BY <1>3, <2>1, <2>2, <2>3, Zenon
    <2>5. ASSUME NEW v \in Savers, Active(v)' PROVE tx'[v].alone # TRUE
      <3>1. v # w
        BY <1>1, <2>5 DEF Active
      <3>2. Active(v) /\ tx'[v].alone = tx[v].alone
        BY <2>5, <3>1, CommitOthers DEF Active
      <3> QED
        BY <1>1, <3>1, <3>2 DEF AloneInv, AloneOK
    <2> QED
      BY <2>4, <2>5 DEF KeepsInv, WritesOK
  <1> QED
    BY <1>2, <1>3

LEMMA RestartKeepsKeeps ==
    ASSUME SavesInv, KeepsInv, Restart
    PROVE  KeepsInv'
  <1> TypeOK
    BY DEF SavesInv
  <1>1. rows' = rows /\ apart' = apart /\ Present' = Present /\ \A w \in Savers : ~Active(w)'
    BY RestartEffect DEF Restart, Active, Present
  <1>2. ASSUME apart = TRUE PROVE OneRow'
    <2>1. OneRow
      BY <1>2 DEF KeepsInv
    <2>2. ASSUME NEW w \in Present, NEW k \in Keys PROVE rows[w][k] <= live'[k]
      <3>1. live' = rows[w]
        BY <2>1 DEF OneRow, Restart
      <3> QED
        BY <3>1, RowTypes
    <2> QED
      BY <1>1, <2>1, <2>2 DEF OneRow
  <1> QED
    BY <1>1, <1>2 DEF KeepsInv, WritesOK

LEMMA KeepsInvStep == SavesInv /\ AloneInv /\ KeepsInv /\ [Next]_vars => KeepsInv'
  <1> SUFFICES ASSUME SavesInv, AloneInv, KeepsInv, [Next]_vars PROVE KeepsInv'
    OBVIOUS
  <1> TypeOK
    BY DEF SavesInv
  <1>0. CASE \E k \in Keys : Replace(k)
    BY <1>0, ReplaceKeepsKeeps
  <1>1. CASE \E k \in Keys : Edit(k)
    BY <1>1, EditKeepsKeeps
  <1>2. CASE \E w \in Savers, k \in Keys : Begin(w, k)
    BY <1>2, BeginKeepsKeeps
  <1>3. CASE \E w \in Savers : Delete(w)
    <2>1. PICK w \in Savers : Delete(w)
      BY <1>3
    <2>2. /\ Active(w) /\ tx'[w].at = "lock" /\ tx'[w].keys = tx[w].keys
          /\ tx'[w].old = tx[w].old /\ tx'[w].alone = tx[w].alone
          /\ \A v \in Savers : v # w => tx'[v] = tx[v]
          /\ UNCHANGED <<live, rows, apart>>
      BY <2>1, DeleteEffect
    <2>3. WritesOK(w)'
      BY <2>2, SameContents DEF KeepsInv, WritesOK, Present
    <2> QED
      BY <2>2, <2>3, KeepsOf
  <1>4. CASE \E w \in Savers : Lock(w)
    <2>1. PICK w \in Savers : Lock(w)
      BY <1>4
    <2>2. /\ Active(w) /\ tx'[w].at = "insert" /\ tx'[w].keys = tx[w].keys
          /\ tx'[w].old = tx[w].old /\ tx'[w].alone = tx[w].alone
          /\ \A v \in Savers : v # w => tx'[v] = tx[v]
          /\ UNCHANGED <<live, rows, apart>>
      BY <2>1, LockEffect
    <2>3. WritesOK(w)'
      BY <2>2, SameContents DEF KeepsInv, WritesOK, Present
    <2> QED
      BY <2>2, <2>3, KeepsOf
  <1>5. CASE \E w \in Savers : Insert(w)
    BY <1>5, InsertKeepsKeeps
  <1>6. CASE \E w \in Savers : Commit(w)
    BY <1>6, CommitKeepsKeeps
  <1>7. CASE \E w \in Savers : Rollback(w)
    <2>1. PICK w \in Savers : Rollback(w)
      BY <1>7
    <2>2. /\ Active(w) /\ tx'[w] = Idle /\ UNCHANGED <<live, rows, apart>>
          /\ \A v \in Savers : v # w => tx'[v] = tx[v]
      BY <2>1, RollbackEffect DEF Rollback
    <2> QED
      BY <2>2, KeepsOf
  <1>8. CASE Restart
    BY <1>8, RestartKeepsKeeps
  <1>9. CASE UNCHANGED vars
    BY <1>9 DEF vars, KeepsInv, WritesOK, OneRow, Active, Present, Contents
  <1> QED
    BY <1>0, <1>1, <1>2, <1>3, <1>4, <1>5, <1>6, <1>7, <1>8, <1>9 DEF Next, Progress

\* What KeptState calls the saved state.
Saved == IF Present = {} THEN Nothing ELSE rows[CHOOSE w \in Present : TRUE]

LEMMA SavedIsTheRow ==
    /\ Present = {} => Saved = Nothing
    /\ \A w \in Present : (\A v \in Present : v = w) => Saved = rows[w]
  <1>1. ASSUME NEW w \in Present, \A v \in Present : v = w PROVE Saved = rows[w]
    <2>1. (CHOOSE v \in Present : TRUE) \in Present
      OBVIOUS
    <2> QED
      BY <1>1, <2>1 DEF Saved
  <1> QED
    BY <1>1 DEF Saved

\* A step that leaves memory, the rows and the answers alone saves nothing.
LEMMA RestIsNothing ==
    UNCHANGED <<live, rows, answered>> => UNCHANGED Kept!vars
  BY DEF Kept!vars, Present

LEMMA CommitIsSave ==
    ASSUME SavesInv, AloneInv, KeepsInv, apart, NEW w \in Savers, Commit(w)
    PROVE  Kept!Next
  <1> TypeOK
    BY DEF SavesInv
  <1>0. apart = TRUE
    BY Zenon DEF TypeOK
  <1>1. Active(w) /\ tx[w].at = "commit" /\ tx[w] \in Save
    BY ActiveSaves DEF Commit, Steps
  <1>2. tx[w].alone = TRUE
    BY <1>0, <1>1 DEF AloneInv
  <1> DEFINE s == tx[w].new
  <1>3. /\ tx[w].key \in Keys /\ tx[w].edit \in 0 .. MaxEdits
        /\ s \in States /\ tx[w].edit <= s[tx[w].key]
    BY <1>1 DEF SavesInv, SaveOK, Save
  <1>4. \A k \in Keys : s[k] <= live[k] /\ s[k] \in Nat
    BY <1>1, <1>2, <1>3, StateTypes DEF KeepsInv, WritesOK
  <1>5. \A v \in Present, k \in Keys : rows[v][k] <= s[k]
    BY <1>0, <1>1, <1>2 DEF KeepsInv, WritesOK
  <1>6. Saved' = s /\ live' = live
    <2>1. Present' = {w} /\ rows'[w] = s /\ live' = live
      BY <1>2, AloneLeaves
    <2>2. (CHOOSE v \in Present' : TRUE) = w
      BY <2>1
    <2> QED
      BY <2>1, <2>2 DEF Saved
  <1>7. \A k \in Keys : Saved[k] <= s[k]
    <2>1. CASE Present = {}
      BY <1>4, <2>1, SavedIsTheRow DEF Nothing
    <2>2. CASE Present # {}
      <3>1. PICK v \in Present : TRUE
        BY <2>2
      <3>2. Saved = rows[v]
        BY <1>0, <3>1, SavedIsTheRow DEF KeepsInv, OneRow
      <3> QED
        BY <1>5, <3>1, <3>2
    <2> QED
      BY <2>1, <2>2
  <1>8. answered' = [answered EXCEPT ![tx[w].key] = IF @ < tx[w].edit THEN tx[w].edit ELSE @]
    BY DEF Commit
  <1> HIDE DEF s
  <1>9. Kept!Save(tx[w].key, tx[w].edit, s)
    BY <1>3, <1>4, <1>6, <1>7, <1>8 DEF Kept!Save, Kept!Covers, Saved
  <1> QED
    BY <1>3, <1>9 DEF Kept!Next, Kept!States, States

LEMMA RestartLoadsSaved ==
    ASSUME SavesInv, AloneInv, KeepsInv, apart, Restart
    PROVE  Kept!Next
  <1> TypeOK
    BY DEF SavesInv
  <1>0. apart = TRUE
    BY Zenon DEF TypeOK
  <1>1. live' = Saved
    BY <1>0, SavedIsTheRow DEF Restart, KeepsInv, OneRow
  <1>2. \A k \in Keys : answered[k] <= live'[k]
    <2> SUFFICES ASSUME NEW k \in Keys PROVE answered[k] <= live'[k]
      OBVIOUS
    <2>1. answered[k] \in Nat /\ live'[k] \in Nat
      BY RestartEffect, StateTypes DEF TypeOK
    <2>2. answered[k] > 0 => /\ Present # {}
                             /\ \A w \in Present : answered[k] <= rows[w][k]
      BY <1>0 DEF AloneInv
    <2>3. answered[k] > 0 => \E w \in Present : live' = rows[w]
      BY <2>2 DEF Restart
    <2> QED
      BY <2>1, <2>2, <2>3
  <1>3. answered' = answered
    <2>1. answered = [k \in Keys |-> answered[k]]
      BY DEF TypeOK, States
    <2>2. answered' = [k \in Keys |-> answered[k]]
      BY <1>2 DEF Restart
    <2> QED
      BY <2>1, <2>2
  <1>4. Saved' = Saved
    BY DEF Restart, Saved, Present
  <1> QED
    BY <1>1, <1>3, <1>4 DEF Kept!Next, Kept!Restart, Saved

LEMMA StepIsKept ==
    ASSUME SavesInv, AloneInv, KeepsInv, apart, [Next]_vars
    PROVE  [Kept!Next]_Kept!vars
  <1> TypeOK
    BY DEF SavesInv
  <1>1. CASE \E k \in Keys : Edit(k)
    <2>1. PICK k \in Keys : Edit(k)
      BY <1>1
    <2>2. Saved' = Saved
      BY <2>1 DEF Edit, Saved, Present
    <2>3. Kept!Edit(k)
      BY <2>1, <2>2 DEF Edit, Kept!Edit, Saved
    <2> QED
      BY <2>3 DEF Kept!Next
  <1>0. CASE \E k \in Keys : Replace(k)
    <2>1. PICK k \in Keys : Replace(k)
      BY <1>0
    <2>2. Saved' = Saved
      <3>1. rows' = rows
        BY <2>1 DEF Replace
      <3> QED
        BY <3>1 DEF Saved, Present
    <2>3. live' = [live EXCEPT ![k] = @ + 1] /\ answered' = answered
      BY <2>1 DEF Replace
    <2>4. Kept!Edit(k)
      BY <2>2, <2>3 DEF Kept!Edit, Saved
    <2> QED
      BY <2>4 DEF Kept!Next
  <1>2. CASE \E w \in Savers : \/ \E k \in Keys : Begin(w, k)
                               \/ Delete(w) \/ Lock(w) \/ Insert(w) \/ Rollback(w)
    <2>1. UNCHANGED <<live, rows, answered>>
      BY <1>2 DEF Begin, Delete, Lock, Insert, Rollback
    <2> QED
      BY <2>1, RestIsNothing
  <1>3. CASE \E w \in Savers : Commit(w)
    BY <1>3, CommitIsSave
  <1>4. CASE Restart
    BY <1>4, RestartLoadsSaved
  <1>5. CASE UNCHANGED vars
    BY <1>5, RestIsNothing DEF vars
  <1> QED
    BY <1>0, <1>1, <1>2, <1>3, <1>4, <1>5 DEF Next, Progress

\* As long as no two saves overlap, the store does what KeptState promises,
\* step by step: whatever its statements do meanwhile, a save happens at once,
\* at its COMMIT, and a restart loads what was saved last.
THEOREM SavesHappenAtOnce == Spec => SavesAreAtomic
  <1>1. Init => AloneInv /\ KeepsInv
    BY DEF Init, AloneInv, AloneOK, KeepsInv, WritesOK, OneRow, Active, Present, Nothing
  <1>2. SavesInv /\ AloneInv /\ KeepsInv /\ [Next]_vars
           => [apart /\ apart' => [Kept!Next]_Kept!vars]_vars
    BY StepIsKept
  <1> QED
    BY <1>1, <1>2, SavesInvInit, SavesInvStep, AloneInvStep, KeepsInvStep, PTL
    DEF Spec, SavesAreAtomic

\* A platform whose saves never overlap therefore implements KeptState: a
\* client is never answered for an edit that a restart can forget.
THEOREM StoreKeepsItsPromise == Spec /\ []apart => Kept!Spec
  <1>1. Init => AloneInv /\ KeepsInv /\ Kept!Init
    <2>1. Init => AloneInv /\ KeepsInv
      BY DEF Init, AloneInv, AloneOK, KeepsInv, WritesOK, OneRow, Active, Present, Nothing
    <2>2. Init => Kept!Init
      BY DEF Init, Kept!Init, Present, Nothing
    <2> QED
      BY <2>1, <2>2
  <1>2. SavesInv /\ AloneInv /\ KeepsInv /\ apart /\ [Next]_vars => [Kept!Next]_Kept!vars
    BY StepIsKept
  <1> QED
    BY <1>1, <1>2, SavesInvInit, SavesInvStep, AloneInvStep, KeepsInvStep, PTL
    DEF Spec, Kept!Spec
============================================================================
