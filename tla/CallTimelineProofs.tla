------------------------- MODULE CallTimelineProofs -------------------------
(***************************************************************************)
(* Theorems about the event list of a call, for every pair of caps and any *)
(* number of handlers, reports and attempts: no observation stands after   *)
(* the end of the call unless the call was re-opened in between, and the   *)
(* list never grows over the sum of the caps.                              *)
(*                                                                         *)
(* The first looks at every prefix of the list.  The proof restates it     *)
(* about pairs of positions: between a terminal event and a later          *)
(* observation stands another event that the execution state is read from. *)
(* In that form it is kept when the oldest events are dropped, and when a  *)
(* progress row is taken out of the middle.  The second counts progress    *)
(* rows and the others apart: a report of progress may take the list over  *)
(* the first cap, and only the next other event brings it back.            *)
(***************************************************************************)
EXTENDS CallTimeline, TLAPS, SequenceTheorems, WellFoundedInduction, FiniteSetTheorems

-----------------------------------------------------------------------------
(* Largest and smallest *)

LEMMA MaxOfIndices ==
    ASSUME NEW b \in Nat, NEW S \in SUBSET (1 .. b), S # {}
    PROVE  Max(S) \in S /\ \A n \in S : n <= Max(S)
  <1> DEFINE below == {b - n : n \in S}
  <1>1. below \subseteq Nat /\ below # {}
    <2>1. \A n \in S : n \in Nat /\ n <= b
      OBVIOUS
    <2>2. \A n \in S : b - n \in Nat
      BY <2>1
    <2> QED
      BY <2>2
  <1>2. PICK x \in below : \A y \in below : ~ (<<y, x>> \in OpToRel(<, Nat))
    <2> HIDE DEF below
    <2> QED
      BY <1>1, NatLessThanWellFounded, WFMin
  <1>3. \A y \in below : ~ (y < x)
    BY <1>1, <1>2 DEF OpToRel
  <1>4. PICK m \in S : x = b - m
    BY <1>2
  <1>5. \A n \in S : m >= n
    BY <1>3, <1>4
  <1> QED
    BY <1>5 DEF Max

LEMMA MinOfIndices ==
    ASSUME NEW S \in SUBSET Nat, S # {}
    PROVE  Min(S) \in S
  <1>1. PICK x \in S : \A y \in S : ~ (<<y, x>> \in OpToRel(<, Nat))
    BY NatLessThanWellFounded, WFMin
  <1>2. S \subseteq Nat /\ \A y \in S : ~ (y < x)
    BY <1>1 DEF OpToRel
  <1>3. ASSUME NEW y \in S PROVE x =< y
    <2>1. x \in Nat /\ y \in Nat /\ ~ (y < x)
      BY <1>1, <1>2
    <2> QED
      BY <2>1
  <1> QED
    BY <1>1, <1>3 DEF Min

-----------------------------------------------------------------------------
(* The execution state, by positions *)

\* The events the execution state is read from.
Mapped == Terminal \cup {"ISSUED", "ACKED"}

LEMMA ProjectedMapped ==
    ASSUME NEW type
    PROVE  /\ Projected(type) # "unmapped" <=> type \in Mapped
           /\ Projected(type) \in {"delivered", "failed", "canceled"} <=> type \in Terminal
  BY DEF Projected, Mapped, Terminal

LEMMA EndedIff ==
    ASSUME NEW es \in Seq(Rows)
    PROVE  Ended(es) <=> \E m \in 1 .. Len(es) :
                            /\ es[m].type \in Terminal
                            /\ \A j \in m + 1 .. Len(es) : es[j].type \notin Mapped
  <1> DEFINE mapped == {i \in DOMAIN es : Projected(es[i].type) # "unmapped"}
  <1>1. DOMAIN es = 1 .. Len(es) /\ Len(es) \in Nat
    OBVIOUS
  <1>2. mapped = {i \in 1 .. Len(es) : es[i].type \in Mapped}
    BY <1>1, ProjectedMapped
  <1>3. Execution(es) = IF mapped = {} THEN "submitted" ELSE Projected(es[Max(mapped)].type)
    BY DEF Execution
  <1> HIDE DEF mapped
  <1>4. Terminal \subseteq Mapped
    BY DEF Mapped
  <1>5. CASE mapped = {}
    BY <1>2, <1>3, <1>4, <1>5 DEF Ended
  <1>6. CASE mapped # {}
    <2> DEFINE last == Max(mapped)
    <2>1. last \in mapped /\ \A n \in mapped : n <= last
      <3>1. mapped \in SUBSET (1 .. Len(es))
        BY <1>2
      <3> QED
        BY <1>1, <1>6, <3>1, MaxOfIndices
    <2>2. Ended(es) <=> es[last].type \in Terminal
      BY <1>3, <1>6, ProjectedMapped DEF Ended
    <2> HIDE DEF last
    <2>3. /\ last \in 1 .. Len(es) /\ es[last].type \in Mapped
          /\ \A j \in 1 .. Len(es) : es[j].type \in Mapped => j <= last
      BY <1>2, <2>1
    <2>4. \A j \in last + 1 .. Len(es) : es[j].type \notin Mapped
      BY <1>1, <2>3
    <2>5. ASSUME NEW m \in 1 .. Len(es), es[m].type \in Terminal,
                 \A j \in m + 1 .. Len(es) : es[j].type \notin Mapped
          PROVE  m = last
      <3>1. m <= last
        BY <1>4, <2>3, <2>5
      <3>2. ~(last \in m + 1 .. Len(es))
        BY <2>3, <2>5
      <3> QED
        BY <1>1, <2>3, <3>1, <3>2
    <2> QED
      BY <2>2, <2>3, <2>4, <2>5
  <1> QED
    BY <1>5, <1>6

\* Whatever stands between a terminal event and a later observation, one
\* event of it is mapped.
Reopened(es) ==
    \A i \in 1 .. Len(es) : es[i].type \in Observations =>
        \A m \in 1 .. i - 1 : es[m].type \in Terminal =>
            \E j \in m + 1 .. i - 1 : es[j].type \in Mapped

LEMMA PrefixEnded ==
    ASSUME NEW es \in Seq(Rows), NEW n \in 0 .. Len(es)
    PROVE  Ended(SubSeq(es, 1, n)) <=>
             \E m \in 1 .. n : /\ es[m].type \in Terminal
                               /\ \A j \in m + 1 .. n : es[j].type \notin Mapped
  <1> DEFINE p == SubSeq(es, 1, n)
  <1>1. p \in Seq(Rows) /\ Len(p) = n /\ \A i \in 1 .. n : p[i] = es[i]
    <2>1. \A i \in 1 .. n : es[i] \in Rows
      OBVIOUS
    <2> QED
      BY <2>1, SubSeqProperties
  <1> HIDE DEF p
  <1>2. \A m \in 1 .. n : \A j \in m + 1 .. n : p[j] = es[j]
    BY <1>1
  <1>3. Ended(p) <=> \E m \in 1 .. n : /\ p[m].type \in Terminal
                                       /\ \A j \in m + 1 .. n : p[j].type \notin Mapped
    BY <1>1, EndedIff
  <1> QED
    BY <1>1, <1>2, <1>3 DEF p

LEMMA ReopenedMeans ==
    ASSUME NEW es \in Seq(Rows), Reopened(es)
    PROVE  \A i \in DOMAIN es : es[i].type \in Observations => ~Ended(SubSeq(es, 1, i - 1))
  <1> SUFFICES ASSUME NEW i \in 1 .. Len(es), es[i].type \in Observations
               PROVE  ~Ended(SubSeq(es, 1, i - 1))
    OBVIOUS
  <1>1. i - 1 \in 0 .. Len(es)
    OBVIOUS
  <1> QED
    BY <1>1, PrefixEnded DEF Reopened

-----------------------------------------------------------------------------
(* The operations on the list *)

LEMMA AppendKeeps ==
    ASSUME NEW es \in Seq(Rows), Reopened(es), NEW row \in Rows,
           row.type \in Observations => ~Ended(es)
    PROVE  Append(es, row) \in Seq(Rows) /\ Reopened(Append(es, row))
  <1> DEFINE all == Append(es, row)
  <1>1. /\ all \in Seq(Rows) /\ Len(all) = Len(es) + 1 /\ Len(es) \in Nat
        /\ all[Len(es) + 1] = row /\ \A i \in 1 .. Len(es) : all[i] = es[i]
    OBVIOUS
  <1> HIDE DEF all
  <1>2. Reopened(all)
    <2> SUFFICES ASSUME NEW i \in 1 .. Len(es) + 1, all[i].type \in Observations,
                        NEW m \in 1 .. i - 1, all[m].type \in Terminal
                 PROVE  \E j \in m + 1 .. i - 1 : all[j].type \in Mapped
      BY <1>1 DEF Reopened
    <2>1. all[m] = es[m] /\ \A j \in m + 1 .. i - 1 : all[j] = es[j]
      BY <1>1
    <2>2. CASE i \in 1 .. Len(es)
      <3>1. \E j \in m + 1 .. i - 1 : es[j].type \in Mapped
        BY <1>1, <2>1, <2>2 DEF Reopened
      <3> QED
        BY <2>1, <3>1
    <2>3. CASE i = Len(es) + 1
      <3>1. m \in 1 .. Len(es) /\ es[m].type \in Terminal /\ i - 1 = Len(es)
        BY <1>1, <2>1, <2>3
      <3>2. ~Ended(es)
        BY <1>1, <2>3
      <3>3. \E j \in m + 1 .. Len(es) : es[j].type \in Mapped
        BY <3>1, <3>2, EndedIff
      <3> QED
        BY <2>1, <3>1, <3>3
    <2> QED
      BY <1>1, <2>2, <2>3
  <1> QED
    BY <1>1, <1>2 DEF all

\* What is left when the oldest rows are dropped, by positions.
LEMMA SuffixRows ==
    ASSUME NEW es \in Seq(Rows), NEW k \in 1 .. Len(es)
    PROVE  /\ SubSeq(es, k, Len(es)) \in Seq(Rows)
           /\ Len(SubSeq(es, k, Len(es))) = Len(es) - k + 1
           /\ \A i \in 1 .. Len(es) - k + 1 : SubSeq(es, k, Len(es))[i] = es[k + i - 1]
  <1>1. \A i \in k .. Len(es) : es[i] \in Rows
    OBVIOUS
  <1> QED
    BY <1>1, SubSeqProperties

LEMMA SuffixKeeps ==
    ASSUME NEW es \in Seq(Rows), Reopened(es), NEW k \in 1 .. Len(es)
    PROVE  SubSeq(es, k, Len(es)) \in Seq(Rows) /\ Reopened(SubSeq(es, k, Len(es)))
  <1> DEFINE p == SubSeq(es, k, Len(es))
             len == Len(es) - k + 1
  <1>1. p \in Seq(Rows) /\ Len(p) = len /\ \A i \in 1 .. len : p[i] = es[k + i - 1]
    BY SuffixRows
  <1>2. len \in Nat /\ k \in Nat /\ Len(es) \in Nat /\ k >= 1 /\ len = Len(es) - k + 1
    OBVIOUS
  <1> HIDE DEF p, len
  <1>3. Reopened(p)
    <2> SUFFICES ASSUME NEW i \in 1 .. len, p[i].type \in Observations,
                        NEW m \in 1 .. i - 1, p[m].type \in Terminal
                 PROVE  \E j \in m + 1 .. i - 1 : p[j].type \in Mapped
      BY <1>1 DEF Reopened
    <2>0. i \in Nat /\ m \in Nat /\ m >= 1 /\ m < i /\ i <= len /\ m \in 1 .. len
      BY <1>2
    <2>1. /\ k + i - 1 \in 1 .. Len(es) /\ k + m - 1 \in 1 .. (k + i - 1) - 1
          /\ p[i] = es[k + i - 1] /\ p[m] = es[k + m - 1]
      <3>1. k + i - 1 \in 1 .. Len(es) /\ k + m - 1 \in 1 .. (k + i - 1) - 1
        BY <1>2, <2>0
      <3>2. p[i] = es[k + i - 1] /\ p[m] = es[k + m - 1]
        BY <1>1, <2>0
      <3> QED
        BY <3>1, <3>2
    <2>2. PICK q \in (k + m - 1) + 1 .. (k + i - 1) - 1 : es[q].type \in Mapped
      BY <2>1 DEF Reopened
    <2>3. q - k + 1 \in m + 1 .. i - 1 /\ q - k + 1 \in 1 .. len /\ k + (q - k + 1) - 1 = q
      BY <1>2, <2>2
    <2>4. p[q - k + 1] = es[q]
      BY <1>1, <2>3
    <2> QED
      BY <2>2, <2>3, <2>4
  <1> QED
    BY <1>1, <1>3 DEF p

\* What is left when one row is taken out, by positions.
LEMMA RemovalRows ==
    ASSUME NEW es \in Seq(Rows), NEW k \in 1 .. Len(es)
    PROVE  /\ RemoveAt(es, k) \in Seq(Rows)
           /\ Len(RemoveAt(es, k)) = Len(es) - 1
           /\ \A i \in 1 .. Len(es) - 1 : RemoveAt(es, k)[i] = es[IF i < k THEN i ELSE i + 1]
  <1> DEFINE left == SubSeq(es, 1, k - 1)
             right == SubSeq(es, k + 1, Len(es))
             p == left \o right
             from(i) == IF i < k THEN i ELSE i + 1
  <1>0. Len(es) \in Nat /\ k \in Nat /\ k >= 1 /\ k <= Len(es)
    OBVIOUS
  <1>1. /\ left \in Seq(Rows) /\ Len(left) = k - 1
        /\ \A i \in 1 .. k - 1 : left[i] = es[i]
    <2>1. \A i \in 1 .. k - 1 : es[i] \in Rows
      OBVIOUS
    <2> QED
      BY <2>1, SubSeqProperties
  <1>2. /\ right \in Seq(Rows) /\ Len(right) = Len(es) - k
        /\ \A i \in 1 .. Len(es) - k : right[i] = es[k + i]
    <2>1. \A i \in k + 1 .. Len(es) : es[i] \in Rows
      OBVIOUS
    <2>2. /\ SubSeq(es, k + 1, Len(es)) \in Seq(Rows)
          /\ Len(SubSeq(es, k + 1, Len(es)))
               = IF k + 1 <= Len(es) THEN Len(es) - (k + 1) + 1 ELSE 0
          /\ \A i \in 1 .. Len(es) - (k + 1) + 1 : SubSeq(es, k + 1, Len(es))[i] = es[(k + 1) + i - 1]
      BY <2>1, SubSeqProperties
    <2> QED
      BY <2>2
  <1> HIDE DEF left, right
  <1>3. /\ p \in Seq(Rows) /\ Len(p) = Len(es) - 1
        /\ \A i \in 1 .. Len(es) - 1 : p[i] = es[from(i)]
    <2>1. /\ p \in Seq(Rows) /\ Len(p) = Len(left) + Len(right)
          /\ \A i \in 1 .. Len(left) + Len(right) :
                p[i] = IF i <= Len(left) THEN left[i] ELSE right[i - Len(left)]
      BY <1>1, <1>2, ConcatProperties
    <2> HIDE DEF p
    <2>2. ASSUME NEW i \in 1 .. Len(es) - 1 PROVE p[i] = es[from(i)]
      <3>0. i \in 1 .. Len(left) + Len(right) /\ Len(left) = k - 1
        BY <1>0, <1>1, <1>2
      <3>1. CASE i < k
        <4>1. p[i] = left[i]
          BY <1>0, <2>1, <3>0, <3>1
        <4>2. i \in 1 .. k - 1
          BY <1>0, <3>1
        <4> QED
          BY <1>1, <3>1, <4>1, <4>2
      <3>2. CASE i >= k
        <4>1. i - (k - 1) \in 1 .. Len(es) - k /\ k + (i - (k - 1)) = i + 1 /\ ~(i <= k - 1)
          BY <1>0, <3>2
        <4>2. p[i] = right[i - (k - 1)]
          BY <2>1, <3>0, <4>1
        <4>3. right[i - (k - 1)] = es[k + (i - (k - 1))]
          BY <1>2, <4>1
        <4> QED
          BY <1>0, <3>2, <4>1, <4>2, <4>3
      <3> QED
        BY <1>0, <3>1, <3>2
    <2>3. Len(p) = Len(es) - 1
      BY <1>0, <1>1, <1>2, <2>1
    <2> QED
      BY <2>1, <2>2, <2>3
  <1> QED
    BY <1>3 DEF p, left, right, RemoveAt

\* A row the execution state is not read from goes.
LEMMA RemovalKeeps ==
    ASSUME NEW es \in Seq(Rows), Reopened(es), NEW k \in 1 .. Len(es), es[k].type \notin Mapped
    PROVE  RemoveAt(es, k) \in Seq(Rows) /\ Reopened(RemoveAt(es, k))
  <1> DEFINE p == RemoveAt(es, k)
             from(i) == IF i < k THEN i ELSE i + 1
  <1>0. Len(es) \in Nat /\ k \in Nat /\ k >= 1 /\ k <= Len(es)
    OBVIOUS
  <1>3. /\ p \in Seq(Rows) /\ Len(p) = Len(es) - 1
        /\ \A i \in 1 .. Len(es) - 1 : p[i] = es[from(i)]
    BY RemovalRows
  <1> HIDE DEF p
  <1>4. Reopened(p)
    <2> SUFFICES ASSUME NEW i \in 1 .. Len(es) - 1, p[i].type \in Observations,
                        NEW m \in 1 .. i - 1, p[m].type \in Terminal
                 PROVE  \E j \in m + 1 .. i - 1 : p[j].type \in Mapped
      BY <1>3 DEF Reopened
    <2>0. i \in Nat /\ m \in Nat /\ m >= 1 /\ m < i /\ i <= Len(es) - 1 /\ m \in 1 .. Len(es) - 1
      BY <1>0
    <2>1. /\ from(i) \in 1 .. Len(es) /\ from(m) \in 1 .. from(i) - 1
          /\ p[i] = es[from(i)] /\ p[m] = es[from(m)]
      <3>1. from(i) \in 1 .. Len(es) /\ from(m) \in 1 .. from(i) - 1
        BY <1>0, <2>0
      <3>2. p[i] = es[from(i)] /\ p[m] = es[from(m)]
        BY <1>3, <2>0
      <3> QED
        BY <3>1, <3>2
    <2>2. PICK q \in from(m) + 1 .. from(i) - 1 : es[q].type \in Mapped
      BY <2>1 DEF Reopened
    <2>3. q # k
      BY <2>2
    <2> DEFINE j == IF q < k THEN q ELSE q - 1
    <2>4. j \in m + 1 .. i - 1 /\ j \in 1 .. Len(es) - 1 /\ from(j) = q
      BY <1>0, <2>0, <2>2, <2>3
    <2>5. p[j] = es[q]
      BY <1>3, <2>4
    <2> QED
      BY <2>2, <2>4, <2>5
  <1> QED
    BY <1>3, <1>4 DEF p

LEMMA CappedKeeps ==
    ASSUME NEW es \in Seq(Rows), Reopened(es), NEW row \in Rows,
           row.type \in Observations => ~Ended(es)
    PROVE  Capped(es, row) \in Seq(Rows) /\ Reopened(Capped(es, row))
  <1> DEFINE all == Append(es, row)
             k == IF Len(all) > EventCap THEN Len(all) - EventCap + 1 ELSE 1
  <1>1. all \in Seq(Rows) /\ Reopened(all)
    BY AppendKeeps
  <1>2. Len(all) \in Nat \ {0}
    OBVIOUS
  <1>3. Capped(es, row) = SubSeq(all, k, Len(all))
    BY DEF Capped
  <1> HIDE DEF all
  <1>4. k \in 1 .. Len(all)
    BY <1>2, TimelineAssumption DEF TimelineAssumption
  <1> HIDE DEF k
  <1> QED
    BY <1>1, <1>3, <1>4, SuffixKeeps

LEMMA WithProgressKeeps ==
    ASSUME NEW es \in Seq(Rows), Reopened(es), NEW row \in Rows, row.type = "PROGRESS", ~Ended(es)
    PROVE  WithProgress(es, row) \in Seq(Rows) /\ Reopened(WithProgress(es, row))
  <1> DEFINE all == Append(es, row)
             progress == {i \in DOMAIN all : all[i].type = "PROGRESS"}
  <1>1. all \in Seq(Rows) /\ Reopened(all)
    BY AppendKeeps
  <1>2. Min(progress) \in progress
    <2>1. Len(es) + 1 \in progress /\ progress \in SUBSET Nat
      OBVIOUS
    <2> HIDE DEF progress
    <2> QED
      BY <2>1, MinOfIndices
  <1>3. WithProgress(es, row) =
          IF Cardinality(progress) > ProgressCap THEN RemoveAt(all, Min(progress)) ELSE all
    BY DEF WithProgress
  <1>4. /\ Min(progress) \in 1 .. Len(all)
        /\ all[Min(progress)].type \notin Mapped
    <2>1. \A i \in progress : i \in 1 .. Len(all) /\ all[i].type = "PROGRESS"
      BY <1>1
    <2>2. "PROGRESS" \notin Mapped
      BY DEF Mapped, Terminal
    <2> HIDE DEF all, progress
    <2> QED
      BY <1>2, <2>1, <2>2
  <1> HIDE DEF all, progress
  <1> QED
    BY <1>1, <1>3, <1>4, RemovalKeeps

-----------------------------------------------------------------------------
(* The invariant *)

TimelineInv ==
    /\ events \in Seq(Rows) /\ Reopened(events)
    /\ busy \in [Handlers -> Rows \cup {Idle}]
    /\ \A a \in Handlers : busy[a] # Idle => busy[a].type \notin Observations

LEMMA RowTypes ==
    /\ \A t \in Types \ {"PROGRESS", "RECONCILED"} : Plain(t) \in Rows /\ Plain(t).type = t
    /\ \A n \in Seqs : Row("PROGRESS", n) \in Rows /\ Row("PROGRESS", n).type = "PROGRESS"
    /\ \A n \in Attempts : Row("RECONCILED", n) \in Rows /\ Row("RECONCILED", n).type = "RECONCILED"
    /\ Expired \in Rows /\ Expired.type = "FAILED"
  BY DEF Rows, Row, Plain, Expired

LEMMA PlainRows ==
    /\ \A t \in {"ISSUED", "NOTE", "ACKED", "CANCELED", "COMPLETED", "FAILED"} :
          Plain(t) \in Rows /\ Plain(t).type = t /\ t \notin Observations
    /\ Plain("SOFT_TIMEOUT") \in Rows
  <1>1. /\ {"ISSUED", "NOTE", "ACKED", "CANCELED", "COMPLETED", "FAILED", "SOFT_TIMEOUT"}
             \subseteq Types \ {"PROGRESS", "RECONCILED"}
        /\ \A t \in {"ISSUED", "NOTE", "ACKED", "CANCELED", "COMPLETED", "FAILED"} :
              t \notin Observations
    BY DEF Types, Terminal, Observations
  <1> QED
    BY <1>1, RowTypes

LEMMA TimelineInvInit == TimelineInit => TimelineInv
  BY DEF TimelineInit, TimelineInv, Reopened

LEMMA PushKeeps ==
    ASSUME TimelineInv, NEW row \in Rows, row.type \in Observations => ~Ended(events), Push(row)
    PROVE  TimelineInv'
  <1>1. events' = Capped(events, row) /\ busy' = busy
    BY DEF Push, Becomes
  <1>2. events' \in Seq(Rows) /\ Reopened(events')
    BY <1>1, CappedKeeps DEF TimelineInv
  <1> QED
    BY <1>1, <1>2 DEF TimelineInv, Reopened

LEMMA AwaitKeeps ==
    ASSUME TimelineInv, NEW a \in Handlers, NEW row \in Rows, row.type \notin Observations,
           Await(a, row)
    PROVE  TimelineInv'
  BY DEF TimelineInv, Await, Reopened

LEMMA SettleKeeps ==
    ASSUME TimelineInv, NEW a \in Handlers, Settle(a)
    PROVE  TimelineInv'
  <1> DEFINE ended == Capped(events, busy[a])
  <1>1. /\ busy[a] \in Rows /\ busy[a].type \notin Observations
        /\ busy' = [busy EXCEPT ![a] = Idle]
        /\ events' = ended \/ events' = Capped(ended, Plain("NOTE"))
    BY DEF TimelineInv, Settle, Becomes
  <1>2. ended \in Seq(Rows) /\ Reopened(ended)
    BY <1>1, CappedKeeps DEF TimelineInv
  <1> HIDE DEF ended
  <1>3. Plain("NOTE") \in Rows /\ Plain("NOTE").type \notin Observations
    BY PlainRows
  <1>4. Capped(ended, Plain("NOTE")) \in Seq(Rows) /\ Reopened(Capped(ended, Plain("NOTE")))
    BY <1>2, <1>3, CappedKeeps
  <1>5. events' \in Seq(Rows) /\ Reopened(events')
    BY <1>1, <1>2, <1>4
  <1>6. /\ busy' \in [Handlers -> Rows \cup {Idle}]
        /\ \A b \in Handlers : busy'[b] # Idle => busy'[b].type \notin Observations
    BY <1>1 DEF TimelineInv
  <1> QED
    BY <1>5, <1>6 DEF TimelineInv, Reopened

LEMMA ReportProgressKeeps ==
    ASSUME TimelineInv, NEW n \in Seqs, ReportProgress(n)
    PROVE  TimelineInv'
  <1>1. /\ events' = WithProgress(events, Row("PROGRESS", n)) /\ busy' = busy
        /\ ~Ended(events)
    BY DEF ReportProgress, Becomes, Running
  <1>2. events' \in Seq(Rows) /\ Reopened(events')
    BY <1>1, RowTypes, WithProgressKeeps DEF TimelineInv
  <1> QED
    BY <1>1, <1>2 DEF TimelineInv, Reopened

LEMMA TimelineStep == TimelineInv /\ [TimelineNext]_timelineVars => TimelineInv'
  <1> SUFFICES ASSUME TimelineInv, [TimelineNext]_timelineVars PROVE TimelineInv'
    OBVIOUS
  <1>1. CASE Issue
    BY <1>1, PlainRows, PushKeeps DEF Issue
  <1>2. CASE Note
    BY <1>2, PlainRows, PushKeeps DEF Note
  <1>3. CASE Ack
    BY <1>3, PlainRows, PushKeeps DEF Ack
  <1>4. CASE ReportSoftTimeout
    BY <1>4, PlainRows, PushKeeps DEF ReportSoftTimeout, Running
  <1>5. CASE Close
    BY <1>5, PlainRows, PushKeeps DEF Close
  <1>6. CASE GrowQuiet
    BY <1>6 DEF GrowQuiet, TimelineInv, Reopened
  <1>7. ASSUME NEW n \in Seqs, ReportProgress(n) PROVE TimelineInv'
    BY <1>7, ReportProgressKeeps
  <1>8. ASSUME NEW n \in Attempts, ReconcileLate(n) PROVE TimelineInv'
    <2>1. Row("RECONCILED", n) \in Rows /\ Row("RECONCILED", n).type \notin Observations
      BY RowTypes DEF Observations
    <2> QED
      BY <1>8, <2>1, PushKeeps DEF ReconcileLate
  <1>9. ASSUME NEW a \in Handlers, NEW type \in {"COMPLETED", "FAILED"}, ReportEnd(a, type)
        PROVE  TimelineInv'
    BY <1>9, PlainRows, AwaitKeeps DEF ReportEnd
  <1>10. ASSUME NEW a \in Handlers, ExpireHold(a) PROVE TimelineInv'
    BY <1>10, RowTypes, AwaitKeeps DEF ExpireHold, Observations
  <1>11. ASSUME NEW a \in Handlers, Settle(a) PROVE TimelineInv'
    BY <1>11, SettleKeeps
  <1>12. ASSUME NEW a \in Handlers, LedgerFails(a) PROVE TimelineInv'
    BY <1>12 DEF LedgerFails, TimelineInv, Reopened
  <1>13. ASSUME NEW a \in Handlers, NEW n \in Attempts, Reconcile(a, n) PROVE TimelineInv'
    <2>1. Row("RECONCILED", n) \in Rows /\ Row("RECONCILED", n).type \notin Observations
      BY RowTypes DEF Observations
    <2> QED
      BY <1>13, <2>1, AwaitKeeps DEF Reconcile
  <1>14. CASE UNCHANGED timelineVars
    BY <1>14 DEF timelineVars, TimelineInv, Reopened
  <1> QED
    BY <1>1, <1>2, <1>3, <1>4, <1>5, <1>6, <1>7, <1>8, <1>9, <1>10, <1>11, <1>12, <1>13, <1>14
    DEF TimelineNext

(* For every pair of caps and whatever they drop, with any number of       *)
(* handlers that await the ledger: no observation of the operator's        *)
(* timeline stands after the end of the call, unless the call was          *)
(* re-opened in between (projectExecutionState, pushCapped,                *)
(* appendProgressEvent).                                                   *)
THEOREM NoObservationAfterTheEnd == TimelineSpec => []NothingRunsAfterTheEnd
  <1>1. TimelineInv => NothingRunsAfterTheEnd
    BY ReopenedMeans DEF TimelineInv, NothingRunsAfterTheEnd
  <1> QED
    BY <1>1, TimelineInvInit, TimelineStep, PTL DEF TimelineSpec

-----------------------------------------------------------------------------
(* The caps *)

\* Positions of the progress rows, and of all the others.
ProgressAt(es) == {i \in 1 .. Len(es) : es[i].type = "PROGRESS"}
OthersAt(es) == {i \in 1 .. Len(es) : es[i].type # "PROGRESS"}

LEMMA PositionsFinite ==
    ASSUME NEW es \in Seq(Rows)
    PROVE  /\ IsFiniteSet(ProgressAt(es)) /\ IsFiniteSet(OthersAt(es))
           /\ Cardinality(ProgressAt(es)) \in Nat /\ Cardinality(OthersAt(es)) \in Nat
           /\ Cardinality(OthersAt(es)) <= Len(es)
           /\ Len(es) = Cardinality(ProgressAt(es)) + Cardinality(OthersAt(es))
  <1>1. /\ IsFiniteSet(1 .. Len(es)) /\ Cardinality(1 .. Len(es)) = Len(es)
        /\ Len(es) \in Nat
    <2>1. Len(es) \in Nat
      OBVIOUS
    <2> QED
      BY <2>1, FS_Interval
  <1>2. /\ ProgressAt(es) \in SUBSET (1 .. Len(es)) /\ OthersAt(es) \in SUBSET (1 .. Len(es))
        /\ ProgressAt(es) \cup OthersAt(es) = 1 .. Len(es)
        /\ ProgressAt(es) \cap OthersAt(es) = {}
    BY DEF ProgressAt, OthersAt
  <1>3. /\ IsFiniteSet(ProgressAt(es)) /\ IsFiniteSet(OthersAt(es))
        /\ Cardinality(OthersAt(es)) <= Len(es)
    BY <1>1, <1>2, FS_Subset
  <1>4. Cardinality(ProgressAt(es)) \in Nat /\ Cardinality(OthersAt(es)) \in Nat
    BY <1>3, FS_CardinalityType
  <1>5. Cardinality(1 .. Len(es)) =
            Cardinality(ProgressAt(es)) + Cardinality(OthersAt(es)) - Cardinality({})
    BY <1>2, <1>3, FS_Union
  <1> QED
    BY <1>1, <1>3, <1>4, <1>5, FS_EmptySet

\* A list whose rows come, each from a position of its own, from another list
\* has no more rows of a kind than that one.
LEMMA FewerPositions ==
    ASSUME NEW es \in Seq(Rows), NEW p \in Seq(Rows), NEW from \in [1 .. Len(p) -> 1 .. Len(es)],
           \A i, j \in 1 .. Len(p) : from[i] = from[j] => i = j,
           \A i \in 1 .. Len(p) : p[i] = es[from[i]]
    PROVE  /\ Cardinality(ProgressAt(p)) <= Cardinality(ProgressAt(es))
           /\ Cardinality(OthersAt(p)) <= Cardinality(OthersAt(es))
           /\ \A k \in ProgressAt(es) : (\A i \in 1 .. Len(p) : from[i] # k) =>
                 Cardinality(ProgressAt(p)) <= Cardinality(ProgressAt(es)) - 1
  <1>a. /\ ProgressAt(p) \subseteq 1 .. Len(p) /\ OthersAt(p) \subseteq 1 .. Len(p)
        /\ \A i \in ProgressAt(p) : from[i] \in ProgressAt(es)
        /\ \A i \in OthersAt(p) : from[i] \in OthersAt(es)
    BY DEF ProgressAt, OthersAt
  <1>b. ASSUME NEW S, S \subseteq 1 .. Len(p), NEW T, IsFiniteSet(T),
               \A i \in S : from[i] \in T
        PROVE  Cardinality(S) <= Cardinality(T)
    <2> DEFINE f == [i \in S |-> from[i]]
    <2>1. f \in Injection(S, T)
      BY <1>b DEF Injection, IsInjective
    <2> HIDE DEF f
    <2> QED
      BY <1>b, <2>1, FS_Injection
  <1>1. Cardinality(ProgressAt(p)) <= Cardinality(ProgressAt(es))
    BY <1>a, <1>b, PositionsFinite
  <1>2. Cardinality(OthersAt(p)) <= Cardinality(OthersAt(es))
    BY <1>a, <1>b, PositionsFinite
  <1>3. ASSUME NEW k \in ProgressAt(es), \A i \in 1 .. Len(p) : from[i] # k
        PROVE  Cardinality(ProgressAt(p)) <= Cardinality(ProgressAt(es)) - 1
    <2>1. /\ IsFiniteSet(ProgressAt(es) \ {k})
          /\ Cardinality(ProgressAt(es) \ {k}) = Cardinality(ProgressAt(es)) - 1
      BY PositionsFinite, FS_RemoveElement
    <2>2. \A i \in ProgressAt(p) : from[i] \in ProgressAt(es) \ {k}
      BY <1>a, <1>3
    <2>3. Cardinality(ProgressAt(p)) <= Cardinality(ProgressAt(es) \ {k})
      BY <1>a, <1>b, <2>1, <2>2
    <2> QED
      BY <2>1, <2>3
  <1> QED
    BY <1>1, <1>2, <1>3

\* What one more row adds.
LEMMA AppendPositions ==
    ASSUME NEW es \in Seq(Rows), NEW row \in Rows
    PROVE  /\ Append(es, row) \in Seq(Rows) /\ Len(Append(es, row)) = Len(es) + 1
           /\ row.type # "PROGRESS" => ProgressAt(Append(es, row)) = ProgressAt(es)
           /\ row.type = "PROGRESS" =>
                 /\ OthersAt(Append(es, row)) = OthersAt(es)
                 /\ Cardinality(ProgressAt(Append(es, row))) = Cardinality(ProgressAt(es)) + 1
  <1> DEFINE all == Append(es, row)
             n == Len(es)
  <1>1. /\ all \in Seq(Rows) /\ Len(all) = n + 1 /\ n \in Nat
        /\ all[n + 1] = row /\ \A i \in 1 .. n : all[i] = es[i]
    OBVIOUS
  <1> HIDE DEF all
  <1>2. 1 .. n + 1 = (1 .. n) \cup {n + 1} /\ n + 1 \notin 1 .. n
    BY <1>1
  <1>3. row.type # "PROGRESS" => ProgressAt(all) = ProgressAt(es)
    BY <1>1, <1>2 DEF ProgressAt
  <1>4. row.type = "PROGRESS" => /\ OthersAt(all) = OthersAt(es)
                                 /\ ProgressAt(all) = ProgressAt(es) \cup {n + 1}
    BY <1>1, <1>2 DEF ProgressAt, OthersAt
  <1>5. n + 1 \notin ProgressAt(es)
    BY <1>2 DEF ProgressAt
  <1>6. Cardinality(ProgressAt(es) \cup {n + 1}) = Cardinality(ProgressAt(es)) + 1
    BY <1>5, PositionsFinite, FS_AddElement
  <1> QED
    BY <1>1, <1>3, <1>4, <1>6 DEF all

\* Both caps are kept.
WithinCaps(es) ==
    /\ es \in Seq(Rows)
    /\ Cardinality(ProgressAt(es)) <= ProgressCap
    /\ Cardinality(OthersAt(es)) <= EventCap

LEMMA CappedWithin ==
    ASSUME NEW es, WithinCaps(es), NEW row \in Rows, row.type # "PROGRESS"
    PROVE  WithinCaps(Capped(es, row))
  <1> DEFINE all == Append(es, row)
             k == IF Len(all) > EventCap THEN Len(all) - EventCap + 1 ELSE 1
             p == SubSeq(all, k, Len(all))
  <1>1. /\ es \in Seq(Rows) /\ all \in Seq(Rows) /\ Len(all) \in Nat \ {0}
        /\ ProgressAt(all) = ProgressAt(es)
    <2>1. es \in Seq(Rows)
      BY DEF WithinCaps
    <2>2. Len(es) \in Nat
      BY <2>1
    <2> QED
      BY <2>1, <2>2, AppendPositions
  <1>2. Capped(es, row) = p
    BY DEF Capped
  <1> HIDE DEF all
  <1>3. k \in 1 .. Len(all) /\ Len(all) - k + 1 <= EventCap /\ EventCap \in Nat
    BY <1>1, TimelineAssumption DEF TimelineAssumption
  <1> HIDE DEF k
  <1>4. /\ p \in Seq(Rows) /\ Len(p) = Len(all) - k + 1
        /\ \A i \in 1 .. Len(all) - k + 1 : p[i] = all[k + i - 1]
    BY <1>1, <1>3, SuffixRows
  <1> HIDE DEF p
  <1> DEFINE from == [i \in 1 .. Len(p) |-> k + i - 1]
  <1>5. /\ from \in [1 .. Len(p) -> 1 .. Len(all)]
        /\ \A i, j \in 1 .. Len(p) : from[i] = from[j] => i = j
        /\ \A i \in 1 .. Len(p) : p[i] = all[from[i]]
    BY <1>1, <1>3, <1>4
  <1> HIDE DEF from
  <1>6. Cardinality(ProgressAt(p)) <= Cardinality(ProgressAt(all))
    BY <1>1, <1>4, <1>5, FewerPositions
  <1>7. Cardinality(OthersAt(p)) <= Len(p) /\ Cardinality(OthersAt(p)) \in Nat
    BY <1>4, PositionsFinite
  <1>8. /\ Cardinality(ProgressAt(p)) \in Nat /\ Cardinality(ProgressAt(all)) \in Nat
        /\ ProgressCap \in Nat /\ Cardinality(ProgressAt(all)) <= ProgressCap
    BY <1>1, <1>4, PositionsFinite, TimelineAssumption DEF TimelineAssumption, WithinCaps
  <1>9. Cardinality(OthersAt(p)) <= EventCap
    BY <1>1, <1>3, <1>4, <1>7
  <1> QED
    BY <1>2, <1>4, <1>6, <1>8, <1>9 DEF WithinCaps

LEMMA WithProgressWithin ==
    ASSUME NEW es, WithinCaps(es), NEW row \in Rows, row.type = "PROGRESS"
    PROVE  WithinCaps(WithProgress(es, row))
  <1> DEFINE all == Append(es, row)
             progress == {i \in DOMAIN all : all[i].type = "PROGRESS"}
             k == Min(progress)
             p == RemoveAt(all, k)
  <1>1. /\ es \in Seq(Rows) /\ all \in Seq(Rows) /\ Len(all) = Len(es) + 1
        /\ OthersAt(all) = OthersAt(es)
        /\ Cardinality(ProgressAt(all)) = Cardinality(ProgressAt(es)) + 1
    <2>1. es \in Seq(Rows)
      BY DEF WithinCaps
    <2> QED
      BY <2>1, AppendPositions
  <1>2. progress = ProgressAt(all)
    BY <1>1 DEF ProgressAt
  <1>3. WithProgress(es, row) = IF Cardinality(progress) > ProgressCap THEN p ELSE all
    BY DEF WithProgress
  <1>4. progress # {}
    <2>1. all[Len(es) + 1] = row
      BY <1>1
    <2>2. Len(es) + 1 \in DOMAIN all
      BY <1>1
    <2> QED
      BY <2>1, <2>2
  <1>5. /\ Cardinality(ProgressAt(es)) \in Nat /\ ProgressCap \in Nat
        /\ Cardinality(ProgressAt(es)) <= ProgressCap /\ Cardinality(OthersAt(es)) <= EventCap
        /\ EventCap \in Nat /\ Cardinality(OthersAt(es)) \in Nat
    BY <1>1, PositionsFinite, TimelineAssumption DEF TimelineAssumption, WithinCaps
  <1> HIDE DEF all, progress
  <1>6. CASE Cardinality(progress) > ProgressCap
    <2>1. progress \in SUBSET Nat
      BY <1>2 DEF ProgressAt
    <2>2. k \in ProgressAt(all)
      BY <1>2, <1>4, <2>1, MinOfIndices
    <2> HIDE DEF k
    <2>3. k \in 1 .. Len(all) /\ Len(all) \in Nat
      BY <1>1, <2>2 DEF ProgressAt
    <2>4. /\ p \in Seq(Rows) /\ Len(p) = Len(all) - 1
          /\ \A i \in 1 .. Len(all) - 1 : p[i] = all[IF i < k THEN i ELSE i + 1]
      BY <1>1, <2>3, RemovalRows
    <2> HIDE DEF p
    <2> DEFINE from == [i \in 1 .. Len(p) |-> IF i < k THEN i ELSE i + 1]
    <2>5. /\ from \in [1 .. Len(p) -> 1 .. Len(all)]
          /\ \A i, j \in 1 .. Len(p) : from[i] = from[j] => i = j
          /\ \A i \in 1 .. Len(p) : p[i] = all[from[i]]
          /\ \A i \in 1 .. Len(p) : from[i] # k
      BY <2>3, <2>4
    <2> HIDE DEF from
    <2>6. /\ Cardinality(OthersAt(p)) <= Cardinality(OthersAt(all))
          /\ Cardinality(ProgressAt(p)) <= Cardinality(ProgressAt(all)) - 1
      BY <1>1, <2>2, <2>4, <2>5, FewerPositions
    <2>7. Cardinality(OthersAt(p)) \in Nat /\ Cardinality(ProgressAt(p)) \in Nat
      BY <2>4, PositionsFinite
    <2>8. Cardinality(OthersAt(p)) <= EventCap /\ Cardinality(ProgressAt(p)) <= ProgressCap
      BY <1>1, <1>5, <2>6, <2>7
    <2> QED
      BY <1>3, <1>6, <2>4, <2>8 DEF WithinCaps
  <1>7. CASE ~(Cardinality(progress) > ProgressCap)
    <2>1. Cardinality(ProgressAt(all)) <= ProgressCap
      BY <1>1, <1>2, <1>5, <1>7
    <2> QED
      BY <1>1, <1>3, <1>5, <1>7, <2>1 DEF WithinCaps
  <1> QED
    BY <1>6, <1>7

CapsInv == TimelineInv /\ WithinCaps(events) /\ quiet \in BOOLEAN

\* A step appends to the list through one of the caps, or leaves it alone.
LEMMA EventsGrow ==
    ASSUME TimelineInv, TimelineNext
    PROVE  /\ quiet' \in BOOLEAN \/ quiet' = quiet
           /\ \/ events' = events
              \/ \E row \in Rows : row.type = "PROGRESS" /\ events' = WithProgress(events, row)
              \/ \E row \in Rows : row.type # "PROGRESS" /\ events' = Capped(events, row)
              \/ \E row, note \in Rows :
                    /\ row.type # "PROGRESS" /\ note.type # "PROGRESS"
                    /\ events' = Capped(Capped(events, row), note)
  <1>a. /\ \A t \in {"ISSUED", "NOTE", "ACKED", "CANCELED", "COMPLETED", "FAILED", "SOFT_TIMEOUT"} :
              Plain(t) \in Rows /\ Plain(t).type # "PROGRESS"
        /\ \A n \in Attempts : Row("RECONCILED", n) \in Rows /\ Row("RECONCILED", n).type # "PROGRESS"
        /\ \A n \in Seqs : Row("PROGRESS", n) \in Rows /\ Row("PROGRESS", n).type = "PROGRESS"
    BY RowTypes, PlainRows DEF Plain, Row
  <1>1. ASSUME NEW row \in Rows, row.type # "PROGRESS", Push(row)
        PROVE  quiet' \in BOOLEAN /\ events' = Capped(events, row)
    BY <1>1 DEF Push, Becomes
  <1>2. CASE Issue \/ Note \/ Ack \/ ReportSoftTimeout \/ Close \/ \E n \in Attempts : ReconcileLate(n)
    <2>1. PICK row \in Rows : row.type # "PROGRESS" /\ Push(row)
      BY <1>a, <1>2 DEF Issue, Note, Ack, ReportSoftTimeout, Close, ReconcileLate
    <2> QED
      BY <1>1, <2>1
  <1>3. CASE \E n \in Seqs : ReportProgress(n)
    BY <1>a, <1>3 DEF ReportProgress, Becomes
  <1>4. CASE \E a \in Handlers : Settle(a)
    <2> PICK a \in Handlers : Settle(a)
      BY <1>4
    <2>1. busy[a] \in Rows /\ busy[a].type # "PROGRESS"
      BY DEF TimelineInv, Settle, Observations
    <2>2. /\ quiet' \in BOOLEAN
          /\ \/ events' = Capped(events, busy[a])
             \/ events' = Capped(Capped(events, busy[a]), Plain("NOTE"))
      BY DEF Settle, Becomes
    <2> QED
      BY <1>a, <2>1, <2>2
  <1>5. CASE GrowQuiet
    BY <1>5 DEF GrowQuiet
  <1>6. CASE \E a \in Handlers :
                 \/ \E type \in {"COMPLETED", "FAILED"} : ReportEnd(a, type)
                 \/ ExpireHold(a) \/ LedgerFails(a)
                 \/ \E n \in Attempts : Reconcile(a, n)
    BY <1>6 DEF ReportEnd, ExpireHold, LedgerFails, Reconcile, Await
  <1> QED
    BY <1>2, <1>3, <1>4, <1>5, <1>6 DEF TimelineNext

LEMMA CapsStep == CapsInv /\ [TimelineNext]_timelineVars => CapsInv'
  <1> SUFFICES ASSUME CapsInv, [TimelineNext]_timelineVars PROVE CapsInv'
    OBVIOUS
  <1>1. TimelineInv'
    BY TimelineStep DEF CapsInv
  <1>2. WithinCaps(events) /\ quiet \in BOOLEAN
    BY DEF CapsInv
  <1>3. CASE UNCHANGED timelineVars
    BY <1>1, <1>2, <1>3 DEF CapsInv, timelineVars
  <1>4. CASE TimelineNext
    <2>1. quiet' \in BOOLEAN
      BY <1>2, <1>4, EventsGrow DEF CapsInv
    <2>2. CASE events' = events
      BY <1>1, <1>2, <2>1, <2>2 DEF CapsInv
    <2>3. CASE \E row \in Rows : row.type = "PROGRESS" /\ events' = WithProgress(events, row)
      BY <1>1, <1>2, <2>1, <2>3, WithProgressWithin DEF CapsInv
    <2>4. CASE \E row \in Rows : row.type # "PROGRESS" /\ events' = Capped(events, row)
      BY <1>1, <1>2, <2>1, <2>4, CappedWithin DEF CapsInv
    <2>5. CASE \E row, note \in Rows :
                   /\ row.type # "PROGRESS" /\ note.type # "PROGRESS"
                   /\ events' = Capped(Capped(events, row), note)
      <3>1. WithinCaps(events')
        BY <1>2, <2>5, CappedWithin
      <3> QED
        BY <1>1, <2>1, <3>1 DEF CapsInv
    <2> QED
      BY <1>4, <2>2, <2>3, <2>4, <2>5, EventsGrow DEF CapsInv
  <1> QED
    BY <1>3, <1>4

LEMMA CapsInit == TimelineInit => CapsInv
  <1> SUFFICES ASSUME TimelineInit PROVE CapsInv
    OBVIOUS
  <1>1. events = <<>> /\ quiet = FALSE /\ <<>> \in Seq(Rows) /\ TimelineInv
    BY TimelineInvInit DEF TimelineInit
  <1>2. ProgressAt(<<>>) = {} /\ OthersAt(<<>>) = {}
    BY DEF ProgressAt, OthersAt
  <1>3. Cardinality({}) = 0 /\ ProgressCap \in Nat /\ EventCap \in Nat
    BY FS_EmptySet, TimelineAssumption DEF TimelineAssumption
  <1>4. WithinCaps(<<>>)
    <2>1. Cardinality(ProgressAt(<<>>)) = 0 /\ Cardinality(OthersAt(<<>>)) = 0
      BY <1>2, <1>3, Zenon
    <2>2. Cardinality(ProgressAt(<<>>)) <= ProgressCap /\ Cardinality(OthersAt(<<>>)) <= EventCap
      BY <1>3, <2>1
    <2> QED
      BY <1>1, <2>2, Zenon DEF WithinCaps
  <1> QED
    BY <1>1, <1>4 DEF CapsInv

(* The event list of a call is typed and never longer than the two caps    *)
(* together: progress rows are dropped by their own cap, all the other     *)
(* rows fit under pushCapped's, in whatever order the reports come         *)
(* (pushCapped, appendProgressEvent).                                      *)
THEOREM TimelineIsBounded == TimelineSpec => []TimelineTypeOK
  <1>1. CapsInv => TimelineTypeOK
    <2> SUFFICES ASSUME CapsInv PROVE TimelineTypeOK
      OBVIOUS
    <2>1. /\ events \in Seq(Rows) /\ busy \in [Handlers -> Rows \cup {Idle}] /\ quiet \in BOOLEAN
          /\ Cardinality(ProgressAt(events)) <= ProgressCap
          /\ Cardinality(OthersAt(events)) <= EventCap
      BY DEF CapsInv, TimelineInv, WithinCaps
    <2>2. Len(events) <= EventCap + ProgressCap
      BY <2>1, PositionsFinite, TimelineAssumption DEF TimelineAssumption
    <2> QED
      BY <2>1, <2>2 DEF TimelineTypeOK
  <1> QED
    BY <1>1, CapsInit, CapsStep, PTL DEF TimelineSpec
============================================================================
