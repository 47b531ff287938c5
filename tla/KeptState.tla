------------------------------ MODULE KeptState ------------------------------
(***************************************************************************)
(* What the snapshot store promises to the handlers of the platform.  A    *)
(* save happens at one moment: afterwards the entry its handler answers    *)
(* for is kept as the handler left it, or newer, and no entry is kept      *)
(* older than before.  A restart loads what is kept, and forgets no edit   *)
(* a client was answered for.                                              *)
(***************************************************************************)
EXTENDS Naturals

CONSTANTS
    Keys,     \* entries of the state, such as requests
    MaxEdits  \* bound on the edits of one entry

VARIABLES
    live,     \* the state in memory: how often each entry was edited
    saved,    \* the state a restart loads
    answered  \* edits of each entry some client has had an answer for

vars == <<live, saved, answered>>

States == [Keys -> 0..MaxEdits]

Covers(s, t) == \A k \in Keys : t[k] <= s[k]

Edit(k) ==
    /\ live' = [live EXCEPT ![k] = @ + 1]
    /\ UNCHANGED <<saved, answered>>

\* Edits nobody was answered for may be kept or not.
Save(k, edit, s) ==
    /\ Covers(s, saved) /\ Covers(live, s) /\ edit <= s[k]
    /\ saved' = s
    /\ answered' = [answered EXCEPT ![k] = IF @ < edit THEN edit ELSE @]
    /\ UNCHANGED live

Restart ==
    /\ live' = saved
    /\ UNCHANGED <<saved, answered>>

Init ==
    /\ live = [k \in Keys |-> 0]
    /\ saved = live /\ answered = live

Next ==
    \/ \E k \in Keys : Edit(k) \/ \E edit \in 0..MaxEdits, s \in States : Save(k, edit, s)
    \/ Restart

Spec == Init /\ [][Next]_vars
=============================================================================
