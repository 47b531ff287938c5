---------------------------- MODULE SnapshotStore ----------------------------
(***************************************************************************)
(* How the platform's state reaches the disk.  Every handler that changed  *)
(* something saves the whole state before it answers, and every save is a  *)
(* transaction of its own: BEGIN, DELETE the service's row, INSERT the new *)
(* one, COMMIT, at PostgreSQL's default isolation (read committed).  The   *)
(* table has no key, handlers do not wait for each other, and loadSnapshot *)
(* takes whichever row comes first.                                        *)
(*                                                                         *)
(* A state is the number of edits made to each of its entries; 0 means     *)
(* that the entry does not exist.  A save lists the objects of the entries *)
(* when it is called for and reads them when it is sent: it has the later  *)
(* edits made to an object in place, and not those that have put another   *)
(* object in its stead.                                                    *)
(***************************************************************************)
EXTENDS Integers, FiniteSets

CONSTANTS
    Keys,     \* entries of the state, such as requests
    Replaced, \* those whose object is not kept: catalog items, templates,
              \* submissions, API keys and review tests
    Savers,   \* saves that can be in flight at once (connections of the pool)
    MaxEdits, \* bound on the edits of one entry
    NoRow     \* of a saver none of whose rows is in the table

ASSUME SnapshotStoreAssumption ==
    /\ MaxEdits \in Nat \ {0}
    /\ IsFiniteSet(Savers)
    /\ Replaced \subseteq Keys
    /\ NoRow \notin [Keys -> Nat]

VARIABLES
    live,     \* the state in memory
    rows,     \* the committed row each saver's last transaction left
    tx,       \* the saves in flight
    answered, \* edits of each entry some client has had an answer for
    apart     \* history: no save has met another since the last one alone

vars == <<live, rows, tx, answered, apart>>

----------------------------------------------------------------------------
States == [Keys -> 0..MaxEdits]

Steps == {"delete", "lock", "insert", "commit"}

Save == [at     : Steps,
         key    : Keys,                \* the entry its handler changed
         edit   : 0..MaxEdits,         \* and the edit it will answer for
         keys   : SUBSET Keys,         \* entries it lists and shares with memory
         old    : States,              \* and those it lists that memory has replaced
         doomed : SUBSET Savers,       \* rows its DELETE has found
         new    : States \cup {NoRow},
         alone  : BOOLEAN]             \* history: it has met no other save

Idle == [at |-> "idle"]

Active(w) == tx[w] # Idle

Present == {w \in Savers : rows[w] # NoRow}

Listed == {k \in Keys : live[k] > 0}

Nothing == [k \in Keys |-> 0]

\* What JSON.stringify reads if it is now the save's turn.
Contents(w) == [k \in Keys |-> IF k \in tx[w].keys THEN live[k] ELSE tx[w].old[k]]

\* Mutant: a DELETE holds its rows while it still waits for others.
Locks_Waiting(w) == IF tx[w].at \in {"lock", "insert", "commit"} THEN tx[w].doomed ELSE {}

\* Rows a transaction has deleted stay locked until it ends.
Locks(w) == IF tx[w].at \in {"insert", "commit"} THEN tx[w].doomed ELSE {}

----------------------------------------------------------------------------
\* A handler makes an entry or changes its object, between two of its awaits.
Edit(k) ==
    /\ live[k] < MaxEdits
    /\ live' = [live EXCEPT ![k] = @ + 1]
    /\ UNCHANGED <<rows, tx, answered, apart>>

\* A handler puts another object in the place of an entry's (Map.set) or takes
\* the entry out (a revoked key): a save that lists the old one keeps it.
Replace(k) ==
    /\ k \in Replaced /\ live[k] > 0 /\ live[k] < MaxEdits
    /\ live' = [live EXCEPT ![k] = @ + 1]
    /\ tx' = [w \in Savers |->
                 IF Active(w) /\ k \in tx[w].keys
                 THEN [tx[w] EXCEPT !.keys = @ \ {k}, !.old[k] = live[k]] ELSE tx[w]]
    /\ UNCHANGED <<rows, answered, apart>>

\* serializePlatformState lists the entries; their objects are shared with
\* memory until JSON.stringify reads them, just before the INSERT.
Begin(w, k) ==
    LET met == \E v \in Savers : Active(v) IN
    /\ tx[w] = Idle /\ live[k] > 0
    /\ tx' = [v \in Savers |->
                 IF v = w
                 THEN [at |-> "delete", key |-> k, edit |-> live[k], keys |-> Listed,
                       old |-> Nothing, doomed |-> {}, new |-> NoRow, alone |-> ~met]
                 ELSE IF Active(v) THEN [tx[v] EXCEPT !.alone = FALSE] ELSE Idle]
    /\ apart' = (apart /\ ~met)
    /\ UNCHANGED <<live, rows, answered>>

\* Mutant: the DELETE names the rows of its own connection only.
Delete_Own(w) ==
    /\ tx[w].at = "delete"
    /\ tx' = [tx EXCEPT ![w].at = "lock", ![w].doomed = Present \cap {w}]
    /\ UNCHANGED <<live, rows, answered, apart>>

\* The DELETE finds the rows committed before it starts.
Delete(w) ==
    /\ tx[w].at = "delete"
    /\ tx' = [tx EXCEPT ![w].at = "lock", ![w].doomed = Present]
    /\ UNCHANGED <<live, rows, answered, apart>>

\* It waits for whoever has deleted one of them; a row whose deletion commits
\* is no longer there to delete.
Lock(w) ==
    /\ tx[w].at = "lock"
    /\ \A v \in Savers \ {w} : Locks(v) \cap tx[w].doomed = {}
    /\ tx' = [tx EXCEPT ![w].at = "insert"]
    /\ UNCHANGED <<live, rows, answered, apart>>

\* Mutant: the changed entry was copied when the save was called for.
Insert_Copied(w) ==
    /\ tx[w].at = "insert"
    /\ tx' = [tx EXCEPT ![w].at = "commit",
                         ![w].new = [Contents(w) EXCEPT ![tx[w].key] = tx[w].edit]]
    /\ UNCHANGED <<live, rows, answered, apart>>

\* An entry made after the save was called for is not in it.
Insert(w) ==
    /\ tx[w].at = "insert"
    /\ tx' = [tx EXCEPT ![w].at = "commit", ![w].new = Contents(w)]
    /\ UNCHANGED <<live, rows, answered, apart>>

\* COMMIT; then the handler answers its client.
Commit(w) ==
    /\ tx[w].at = "commit"
    /\ rows' = [v \in Savers |-> IF v = w THEN tx[w].new
                                 ELSE IF v \in tx[w].doomed THEN NoRow ELSE rows[v]]
    /\ tx' = [v \in Savers |->
                 IF v = w THEN Idle
                 ELSE IF Active(v) THEN [tx[v] EXCEPT !.doomed = @ \ tx[w].doomed] ELSE Idle]
    /\ answered' = [answered EXCEPT ![tx[w].key] = IF @ < tx[w].edit THEN tx[w].edit ELSE @]
    /\ apart' = (apart \/ tx[w].alone)
    /\ UNCHANGED live

\* Mutant: the transaction is over but what it claimed is not forgotten.
Rollback_Claims(w) ==
    /\ Active(w)
    /\ tx' = [tx EXCEPT ![w].at = "idle"]
    /\ UNCHANGED <<live, rows, answered, apart>>

\* Any statement fails: ROLLBACK, and the handler answers an error.
Rollback(w) ==
    /\ Active(w)
    /\ tx' = [tx EXCEPT ![w] = Idle]
    /\ UNCHANGED <<live, rows, answered, apart>>

\* The process restarts and hydrates from any of the rows; what that row does
\* not know is forgotten.
Restart ==
    /\ \/ Present = {} /\ live' = Nothing
       \/ \E w \in Present : live' = rows[w]
    /\ tx' = [w \in Savers |-> Idle]
    /\ answered' = [k \in Keys |-> IF answered[k] <= live'[k] THEN answered[k] ELSE live'[k]]
    /\ UNCHANGED <<rows, apart>>

----------------------------------------------------------------------------
Init ==
    /\ live = Nothing
    /\ rows = [w \in Savers |-> NoRow]
    /\ tx = [w \in Savers |-> Idle]
    /\ answered = Nothing
    /\ apart = TRUE

Progress(w) == Delete(w) \/ Lock(w) \/ Insert(w) \/ Commit(w)

Next ==
    \/ \E k \in Keys : Edit(k) \/ Replace(k)
    \/ \E w \in Savers : (\E k \in Keys : Begin(w, k)) \/ Progress(w) \/ Rollback(w)
    \/ Restart

Spec == Init /\ [][Next]_vars

\* The database executes the statements it is sent, and grants a row lock to
\* those who wait for it in turn.
FairSpec == Spec /\ \A w \in Savers : WF_vars(Progress(w)) /\ SF_vars(Lock(w))

----------------------------------------------------------------------------
(* Properties *)

TypeOK ==
    /\ live \in States
    /\ rows \in [Savers -> States \cup {NoRow}]
    /\ tx \in [Savers -> Save \cup {Idle}]
    /\ answered \in States
    /\ apart \in BOOLEAN

\* As long as no two saves overlap, a restart at any moment loads a state that
\* has every edit some client was answered for.  A save that runs alone mends
\* what earlier overlaps have left.
AnsweredLoads ==
    apart => \A k \in Keys : answered[k] > 0 =>
                /\ Present # {}
                /\ \A w \in Present : answered[k] <= rows[w][k]

\* The promise of KeptState, kept as long as no two saves overlap: DELETE and
\* INSERT, rollbacks and edits made meanwhile included, a save happens at the
\* moment of its COMMIT, saves no entry older than before, and a restart loses
\* nothing a client was answered for.
Kept == INSTANCE KeptState WITH
    saved <- IF Present = {} THEN Nothing ELSE rows[CHOOSE w \in Present : TRUE]

SavesAreAtomic == [][apart /\ apart' => [Kept!Next]_Kept!vars]_vars

\* Overlapping saves never leave an older edit alone on the disk, of an entry
\* whose object is kept (a request, a user, a device, a version, an artifact):
\* some row has it with every edit a client was answered for, or does not have
\* it at all.  (The second is a real loss: a save called for before the entry
\* existed has replaced the row of a later one.)  A replaced entry can be left
\* in an older edit alone, by a save that had listed its old object.
KeptOrForgottenWhole ==
    \A k \in Keys \ Replaced : answered[k] > 0 =>
        \E w \in Present : rows[w][k] = 0 \/ answered[k] <= rows[w][k]

\* Saves that delete the same row wait for each other but never in a circle:
\* every save ends.
SavesEnd == \A w \in Savers : Active(w) ~> ~Active(w)
=============================================================================
