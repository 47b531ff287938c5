------------------------ MODULE HotlineCatalogProofs ------------------------
(***************************************************************************)
(* Theorems about the hotline catalog, for any numbers of hotlines,        *)
(* devices, owners, keys, contracts and submissions: published versions    *)
(* are frozen, none holds content an operator did not approve, and the key *)
(* a catalog item hands out is one its device is known by.                 *)
(***************************************************************************)
EXTENDS HotlineCatalog, TLAPS, WellFoundedInduction

-----------------------------------------------------------------------------
(* The number of the next version *)

LEMMA MaxOfBounded ==
    ASSUME NEW b \in Nat, NEW S \in SUBSET (0 .. b), S # {}
    PROVE  Max(S) \in S /\ \A n \in S : n <= Max(S)
  <1> DEFINE below == {b - n : n \in S}
  <1>1. below \subseteq Nat /\ below # {}
    <2>1. \A n \in S : n \in Nat /\ n <= b
      OBVIOUS
    <2>2. \A n \in S : b - n \in Nat
      BY <2>1
    <2> QED
      BY <2>2
  <1>2. PICK x \in below : \A y \in below : ~ (<<y, x>> \in OpToRel(<, Nat))
    <2> HIDE DEF below
    <2> QED
      BY <1>1, NatLessThanWellFounded, WFMin
  <1>3. \A y \in below : ~ (y < x)
    BY <1>1, <1>2 DEF OpToRel
  <1>4. PICK m \in S : x = b - m
    BY <1>2
  <1>5. \A n \in S : m >= n
    BY <1>3, <1>4
  <1> QED
    BY <1>5 DEF Max

\* The next number is new and one past the bound of the numbers held at most.
LEMMA NextVersionIsNew ==
    ASSUME NEW h, NEW b \in Nat, Held(h) \subseteq 1 .. b
    PROVE  NextVersion(h) \in 1 .. b + 1 /\ NextVersion(h) \notin Held(h)
  <1>1. CASE Held(h) = {}
    BY <1>1 DEF NextVersion
  <1>2. CASE Held(h) # {}
    <2>1. Max(Held(h)) \in Held(h) /\ \A n \in Held(h) : n <= Max(Held(h))
      <3>1. Held(h) \in SUBSET (0 .. b)
        OBVIOUS
      <3> QED
        BY <1>2, <3>1, MaxOfBounded
    <2> QED
      BY <1>2, <2>1 DEF NextVersion
  <1> QED
    BY <1>1, <1>2

-----------------------------------------------------------------------------
(* The invariant *)

\* The item's content is a version's.
Shown(h) == item[h] # Nobody /\ IsPublished(h)

\* Of one hotline: its device is registered and knows its key; approved
\* content was agreed to, and so was every version; there is at most one
\* version per submission, and the first one of a hotline that was there
\* from the start or is published now.
HotlineOK(h) ==
    /\ item[h] # Nobody =>
          /\ responder[item[h].responder] # Nobody
          /\ item[h].key \in responder[item[h].responder].keys
          /\ item[h].review = "approved" => item[h].contract \in agreed[h]
    /\ versions[h] \in [Held(h) -> Contracts]
    /\ \A v \in Held(h) : versions[h][v] \in agreed[h]
    /\ Held(h) \subseteq 1 .. submissions + 1
    /\ ~Shown(h) => Held(h) \subseteq 1 .. submissions

CatalogInv ==
    /\ responder \in [Responders -> Responder \cup {Nobody}]
    /\ item \in [Hotlines -> Item \cup {Nobody}]
    /\ versions = [h \in Hotlines |-> versions[h]]
    /\ submissions \in 0 .. MaxSubmissions
    /\ agreed \in [Hotlines -> SUBSET Contracts]
    /\ \A h \in Hotlines : HotlineOK(h)

LEMMA CatalogInvTypes == CatalogInv => CatalogTypeOK
  BY CatalogAssumption DEF CatalogAssumption, CatalogInv, CatalogTypeOK, HotlineOK, Held

LEMMA CatalogInvInit == CatalogInit => CatalogInv
  <1> SUFFICES ASSUME CatalogInit PROVE CatalogInv
    OBVIOUS
  <1>1. /\ submissions = 0 /\ submissions \in 0 .. MaxSubmissions
        /\ versions = [h \in Hotlines |-> <<>>]
        /\ \A h \in Hotlines : versions[h] = <<>> /\ Held(h) = {}
    <2>1. DOMAIN <<>> = {}
      OBVIOUS
    <2>2. versions = [h \in Hotlines |-> <<>>]
      BY DEF CatalogInit
    <2> QED
      BY <2>1, <2>2, CatalogAssumption DEF CatalogAssumption, CatalogInit, Held
  <1>2. \A h \in Hotlines : /\ versions[h] \in [Held(h) -> Contracts]
                            /\ \A v \in Held(h) : versions[h][v] \in agreed[h]
                            /\ Held(h) \subseteq 1 .. submissions
    BY <1>1 DEF Held
  <1>3. CASE EmptyCatalog
    <2>1. \A h \in Hotlines : HotlineOK(h)
      BY <1>1, <1>2, <1>3 DEF HotlineOK, EmptyCatalog
    <2> QED
      BY <1>1, <1>3, <2>1 DEF CatalogInv, EmptyCatalog
  <1>4. ASSUME NEW legacy \in Hotlines, NEW r \in Responders, NEW o \in Owners,
               NEW k \in SigningKeys, NEW c \in CompleteContracts,
               LegacyCatalog(legacy, r, o, k, c)
        PROVE  CatalogInv
    <2> DEFINE first == [NewResponder(o, k) EXCEPT !.hotlines = {legacy},
                                     !.review = "approved", !.status = "enabled"]
               rec == [responder |-> r, contract |-> c, key |-> k, review |-> "approved",
                        status |-> "enabled", published |-> 0, reported |-> "healthy",
                        fresh |-> TRUE]
    <2>1. first \in Responder /\ first.keys = {k}
      BY DEF NewResponder, Responder, Review, Status
    <2>2. rec \in Item /\ rec.responder = r /\ rec.key = k /\ rec.contract = c
      BY CatalogAssumption DEF CatalogAssumption, Item, Review, Status, Reported
    <2>3. c \in Contracts
      BY CatalogAssumption DEF CatalogAssumption
    <2> HIDE DEF first, rec
    <2>4. responder \in [Responders -> Responder \cup {Nobody}] /\ responder[r] = first
      BY <1>4, <2>1 DEF LegacyCatalog, first
    <2>5. /\ item \in [Hotlines -> Item \cup {Nobody}] /\ item[legacy] = rec
          /\ \A h \in Hotlines : h # legacy => item[h] = Nobody
      BY <1>4, <2>2 DEF LegacyCatalog, rec
    <2>6. agreed \in [Hotlines -> SUBSET Contracts] /\ agreed[legacy] = {c}
      BY <1>4, <2>3 DEF LegacyCatalog
    <2>7. first # Nobody
      BY <2>1, CatalogAssumption DEF CatalogAssumption
    <2>8. \A h \in Hotlines : HotlineOK(h)
      BY <1>1, <1>2, <2>1, <2>2, <2>4, <2>5, <2>6, <2>7 DEF HotlineOK
    <2> QED
      BY <1>1, <2>4, <2>5, <2>6, <2>8 DEF CatalogInv
  <1> QED
    BY <1>3, <1>4 DEF CatalogInit

-----------------------------------------------------------------------------
(* Steps that publish nothing *)

\* A changed item or none: the same content, device and version, and a
\* review that is no better.
Touched(h) ==
    \/ item'[h] = item[h]
    \/ /\ item[h] # Nobody /\ item'[h] \in Item
       /\ item'[h].contract = item[h].contract
       /\ item'[h].published = item[h].published
       /\ item'[h].review = "approved" => item[h].review = "approved"

LEMMA TouchedKeeps ==
    ASSUME CatalogInv, UNCHANGED <<versions, submissions, agreed>>,
           responder' \in [Responders -> Responder \cup {Nobody}],
           item' \in [Hotlines -> Item \cup {Nobody}],
           \A h \in Hotlines : Touched(h),
           \A h \in Hotlines : item'[h] # Nobody =>
              /\ responder'[item'[h].responder] # Nobody
              /\ item'[h].key \in responder'[item'[h].responder].keys
    PROVE  CatalogInv'
  <1>1. ASSUME NEW h \in Hotlines PROVE HotlineOK(h)'
    <2>1. HotlineOK(h) /\ Touched(h) /\ Held(h)' = Held(h)
      BY DEF CatalogInv, Held
    <2>2. Shown(h) => Shown(h)'
      BY <2>1, CatalogAssumption DEF CatalogAssumption, Shown, IsPublished, Touched, Held
    <2>3. item'[h] # Nobody /\ item'[h].review = "approved" => item'[h].contract \in agreed[h]
      BY <2>1, CatalogAssumption DEF CatalogAssumption, HotlineOK, Touched
    <2> QED
      BY <2>1, <2>2, <2>3 DEF HotlineOK
  <1> QED
    BY <1>1 DEF CatalogInv

LEMMA RespondersTouched ==
    ASSUME CatalogInv, UNCHANGED <<item, versions, submissions, agreed>>,
           NEW r \in Responders, NEW changed \in Responder, responder[r] # Nobody,
           responder' = [responder EXCEPT ![r] = changed],
           responder[r].keys \subseteq changed.keys
    PROVE  CatalogInv'
  <1>1. responder' \in [Responders -> Responder \cup {Nobody}]
    BY DEF CatalogInv
  <1>2. item' \in [Hotlines -> Item \cup {Nobody}] /\ \A h \in Hotlines : Touched(h)
    BY DEF CatalogInv, Touched
  <1>3. ASSUME NEW h \in Hotlines, item'[h] # Nobody
        PROVE  /\ responder'[item'[h].responder] # Nobody
               /\ item'[h].key \in responder'[item'[h].responder].keys
    <2>1. /\ item'[h] = item[h] /\ HotlineOK(h) /\ item[h] \in Item
          /\ item[h].responder \in Responders
      BY <1>3 DEF CatalogInv, Item
    <2>2. changed # Nobody
      BY CatalogAssumption DEF CatalogAssumption
    <2>3. CASE item[h].responder = r
      BY <1>3, <2>1, <2>2, <2>3 DEF HotlineOK, CatalogInv
    <2>4. CASE item[h].responder # r
      BY <1>3, <2>1, <2>4 DEF HotlineOK, CatalogInv
    <2> QED
      BY <2>3, <2>4
  <1> QED
    BY <1>1, <1>2, <1>3, TouchedKeeps

LEMMA ItemTouched ==
    ASSUME CatalogInv, UNCHANGED <<responder, versions, submissions, agreed>>,
           item' \in [Hotlines -> Item \cup {Nobody}],
           \A h \in Hotlines : Touched(h),
           \A h \in Hotlines : item'[h] # Nobody /\ item'[h] # item[h] =>
              item'[h].responder = item[h].responder /\ item'[h].key = item[h].key
    PROVE  CatalogInv'
  <1>1. ASSUME NEW h \in Hotlines, item'[h] # Nobody
        PROVE  /\ responder'[item'[h].responder] # Nobody
               /\ item'[h].key \in responder'[item'[h].responder].keys
    <2>1. /\ HotlineOK(h) /\ item[h] # Nobody
          /\ item'[h].responder = item[h].responder /\ item'[h].key = item[h].key
      BY <1>1 DEF CatalogInv, Touched
    <2> QED
      BY <2>1 DEF HotlineOK
  <1> QED
    BY <1>1, TouchedKeeps DEF CatalogInv

LEMMA SetHotlineKeeps ==
    ASSUME CatalogInv, NEW h \in Hotlines, item[h] # Nobody, NEW review \in Review,
           NEW status \in Status, review = "approved" => item[h].review = "approved",
           NEW changed, SetHotline(h, changed),
           changed = [item[h] EXCEPT !.review = review, !.status = status]
    PROVE  CatalogInv'
  <1>1. item[h] \in Item
    BY DEF CatalogInv
  <1>2. /\ changed \in Item /\ changed.contract = item[h].contract
        /\ changed.published = item[h].published /\ changed.review = review
        /\ changed.responder = item[h].responder /\ changed.key = item[h].key
    BY <1>1 DEF Item
  <1>3. /\ item' \in [Hotlines -> Item \cup {Nobody}]
        /\ item'[h] = changed /\ \A g \in Hotlines : g # h => item'[g] = item[g]
    BY <1>2 DEF CatalogInv, SetHotline
  <1>4. \A g \in Hotlines : Touched(g)
    BY <1>2, <1>3 DEF Touched
  <1> QED
    BY <1>2, <1>3, <1>4, ItemTouched DEF SetHotline

LEMMA HotlineReviewed ==
    ASSUME CatalogInv, NEW h \in Hotlines,
           RejectHotline(h) \/ EnableHotline(h) \/ DisableHotline(h)
    PROVE  CatalogInv'
  <1>1. item[h] # Nobody /\ item[h] \in Item
    BY DEF CatalogInv, RejectHotline, EnableHotline, DisableHotline
  <1>2. /\ item[h].review \in Review
        /\ \A s \in Status : [item[h] EXCEPT !.status = s]
                              = [item[h] EXCEPT !.review = item[h].review, !.status = s]
        /\ "enabled" \in Status /\ "disabled" \in Status /\ "rejected" \in Review
    BY <1>1 DEF Item, Review, Status
  <1>3. CASE RejectHotline(h)
    <2>1. SetHotline(h, [item[h] EXCEPT !.review = "rejected", !.status = "disabled"])
      BY <1>3 DEF RejectHotline
    <2> QED
      BY <1>1, <1>2, <2>1, SetHotlineKeeps
  <1>4. CASE EnableHotline(h)
    <2>1. SetHotline(h, [item[h] EXCEPT !.status = "enabled"])
      BY <1>4 DEF EnableHotline
    <2> QED
      BY <1>1, <1>2, <2>1, SetHotlineKeeps
  <1>5. CASE DisableHotline(h)
    <2>1. SetHotline(h, [item[h] EXCEPT !.status = "disabled"])
      BY <1>5 DEF DisableHotline
    <2> QED
      BY <1>1, <1>2, <2>1, SetHotlineKeeps
  <1> QED
    BY <1>3, <1>4, <1>5

LEMMA ResponderReviewed ==
    ASSUME CatalogInv, NEW r \in Responders,
           ApproveResponder(r) \/ RejectResponder(r) \/ EnableResponder(r) \/ DisableResponder(r)
    PROVE  CatalogInv'
  <1>1. responder[r] # Nobody /\ responder[r] \in Responder
    BY DEF CatalogInv, ApproveResponder, RejectResponder, EnableResponder, DisableResponder
  <1>2. PICK changed : /\ SetResponder(r, changed)
                       /\ \/ changed = [responder[r] EXCEPT !.review = "approved", !.status = "enabled"]
                          \/ changed = [responder[r] EXCEPT !.review = "rejected", !.status = "disabled"]
                          \/ changed = [responder[r] EXCEPT !.status = "enabled"]
                          \/ changed = [responder[r] EXCEPT !.status = "disabled"]
    BY DEF ApproveResponder, RejectResponder, EnableResponder, DisableResponder
  <1>3. changed \in Responder /\ changed.keys = responder[r].keys
    BY <1>1, <1>2 DEF Responder, Review, Status
  <1> QED
    BY <1>1, <1>2, <1>3, RespondersTouched DEF SetResponder

LEMMA RefusedKeeps ==
    ASSUME CatalogInv, NEW o \in Owners, NEW r \in Responders, NEW h \in Hotlines,
           NEW k \in SigningKeys, SubmitRefused(o, r, h, k)
    PROVE  CatalogInv'
  <1>1. /\ responder[r] # Nobody /\ responder[r] \in Responder
        /\ responder' = [responder EXCEPT ![r] = [responder[r] EXCEPT !.owner = o]]
        /\ UNCHANGED <<item, versions, submissions, agreed>>
    BY DEF CatalogInv, SubmitRefused, Owned
  <1>2. /\ [responder[r] EXCEPT !.owner = o] \in Responder
        /\ [responder[r] EXCEPT !.owner = o].keys = responder[r].keys
    BY <1>1 DEF Responder
  <1> QED
    BY <1>1, <1>2, RespondersTouched

LEMMA HeartbeatKeeps ==
    ASSUME CatalogInv, NEW r \in Responders, NEW s \in Reported, Heartbeat(r, s)
    PROVE  CatalogInv'
  <1>1. /\ UNCHANGED <<responder, versions, submissions, agreed>>
        /\ item' = [h \in Hotlines |->
                  IF item[h] # Nobody /\ item[h].responder = r
                  THEN [item[h] EXCEPT !.reported = s, !.fresh = TRUE] ELSE item[h]]
        /\ item \in [Hotlines -> Item \cup {Nobody}]
    BY DEF Heartbeat, CatalogInv
  <1>2. \A i \in Item :
           /\ [i EXCEPT !.reported = s, !.fresh = TRUE] \in Item
           /\ [i EXCEPT !.reported = s, !.fresh = TRUE].contract = i.contract
           /\ [i EXCEPT !.reported = s, !.fresh = TRUE].published = i.published
           /\ [i EXCEPT !.reported = s, !.fresh = TRUE].review = i.review
           /\ [i EXCEPT !.reported = s, !.fresh = TRUE].responder = i.responder
           /\ [i EXCEPT !.reported = s, !.fresh = TRUE].key = i.key
    BY DEF Item
  <1>3. item' \in [Hotlines -> Item \cup {Nobody}]
    BY <1>1, <1>2
  <1>4. \A h \in Hotlines : Touched(h)
    BY <1>1, <1>2 DEF Touched
  <1>5. \A h \in Hotlines : item'[h] # Nobody /\ item'[h] # item[h] =>
              item'[h].responder = item[h].responder /\ item'[h].key = item[h].key
    BY <1>1, <1>2
  <1> QED
    BY <1>1, <1>3, <1>4, <1>5, ItemTouched

LEMMA GoStaleKeeps == CatalogInv /\ GoStale => CatalogInv'
  <1> SUFFICES ASSUME CatalogInv, GoStale PROVE CatalogInv'
    OBVIOUS
  <1>1. /\ UNCHANGED <<responder, versions, submissions, agreed>>
        /\ item' = [h \in Hotlines |->
                  IF item[h] = Nobody THEN Nobody ELSE [item[h] EXCEPT !.fresh = FALSE]]
        /\ item \in [Hotlines -> Item \cup {Nobody}]
    BY DEF GoStale, CatalogInv
  <1>2. \A i \in Item :
           /\ [i EXCEPT !.fresh = FALSE] \in Item
           /\ [i EXCEPT !.fresh = FALSE].contract = i.contract
           /\ [i EXCEPT !.fresh = FALSE].published = i.published
           /\ [i EXCEPT !.fresh = FALSE].review = i.review
           /\ [i EXCEPT !.fresh = FALSE].responder = i.responder
           /\ [i EXCEPT !.fresh = FALSE].key = i.key
    BY DEF Item
  <1>3. item' \in [Hotlines -> Item \cup {Nobody}]
    BY <1>1, <1>2
  <1>4. \A h \in Hotlines : Touched(h)
    BY <1>1, <1>2 DEF Touched
  <1>5. \A h \in Hotlines : item'[h] # Nobody /\ item'[h] # item[h] =>
              item'[h].responder = item[h].responder /\ item'[h].key = item[h].key
    BY <1>1, <1>2
  <1> QED
    BY <1>1, <1>3, <1>4, <1>5, ItemTouched

LEMMA RetireKeeps ==
    ASSUME CatalogInv, NEW r \in Responders, RetireResponder(r)
    PROVE  CatalogInv'
  <1> DEFINE retired == [responder[r] EXCEPT !.hotlines = {}, !.status = "disabled"]
  <1>1. /\ UNCHANGED <<versions, submissions, agreed>>
        /\ responder[r] # Nobody /\ responder[r] \in Responder
        /\ responder' = [responder EXCEPT ![r] = retired]
        /\ item' = [h \in Hotlines |->
                  IF h \in responder[r].hotlines /\ item[h] # Nobody
                  THEN [item[h] EXCEPT !.status = "disabled"] ELSE item[h]]
        /\ item \in [Hotlines -> Item \cup {Nobody}]
        /\ responder \in [Responders -> Responder \cup {Nobody}]
    BY DEF RetireResponder, CatalogInv
  <1>2. \A i \in Item :
           /\ [i EXCEPT !.status = "disabled"] \in Item
           /\ [i EXCEPT !.status = "disabled"].contract = i.contract
           /\ [i EXCEPT !.status = "disabled"].published = i.published
           /\ [i EXCEPT !.status = "disabled"].review = i.review
           /\ [i EXCEPT !.status = "disabled"].responder = i.responder
           /\ [i EXCEPT !.status = "disabled"].key = i.key
    BY DEF Item, Status
  <1>3. retired \in Responder /\ retired.keys = responder[r].keys /\ retired # Nobody
    <2>1. retired \in Responder /\ retired.keys = responder[r].keys
      BY <1>1 DEF Responder, Status
    <2> QED
      BY <2>1, CatalogAssumption DEF CatalogAssumption
  <1> HIDE DEF retired
  <1>4. /\ item' \in [Hotlines -> Item \cup {Nobody}]
        /\ responder' \in [Responders -> Responder \cup {Nobody}]
    BY <1>1, <1>2, <1>3
  <1>5. \A h \in Hotlines : Touched(h)
    BY <1>1, <1>2 DEF Touched
  <1>6. ASSUME NEW h \in Hotlines, item'[h] # Nobody
        PROVE  /\ responder'[item'[h].responder] # Nobody
               /\ item'[h].key \in responder'[item'[h].responder].keys
    <2>1. /\ HotlineOK(h) /\ item[h] # Nobody /\ item[h] \in Item
          /\ item'[h].responder = item[h].responder /\ item'[h].key = item[h].key
      BY <1>1, <1>2, <1>6 DEF CatalogInv
    <2>2. item[h].responder \in Responders
      BY <2>1 DEF Item
    <2>3. CASE item[h].responder = r
      BY <1>1, <1>3, <2>1, <2>2, <2>3 DEF HotlineOK
    <2>4. CASE item[h].responder # r
      BY <1>1, <2>1, <2>2, <2>4 DEF HotlineOK
    <2> QED
      BY <2>3, <2>4
  <1> QED
    BY <1>1, <1>4, <1>5, <1>6, TouchedKeeps

\* A rotation re-keys every item of the device, and the device knows the key.
LEMMA RotateKeeps ==
    ASSUME CatalogInv, NEW r \in Responders, NEW k \in SigningKeys,
           NEW p \in SUBSET SigningKeys, RotateSigningKey(r, k, p)
    PROVE  CatalogInv'
  <1> DEFINE rotated == [responder[r] EXCEPT !.key = k, !.keys = {k} \cup p]
  <1>1. /\ UNCHANGED <<versions, submissions, agreed>>
        /\ responder[r] # Nobody /\ responder[r] \in Responder
        /\ responder' = [responder EXCEPT ![r] = rotated]
        /\ item' = [h \in Hotlines |->
                  IF item[h] # Nobody /\ item[h].responder = r
                  THEN [item[h] EXCEPT !.key = k] ELSE item[h]]
        /\ item \in [Hotlines -> Item \cup {Nobody}]
        /\ responder \in [Responders -> Responder \cup {Nobody}]
    BY DEF RotateSigningKey, Rekeyed, CatalogInv
  <1>2. \A i \in Item :
           /\ [i EXCEPT !.key = k] \in Item
           /\ [i EXCEPT !.key = k].contract = i.contract
           /\ [i EXCEPT !.key = k].published = i.published
           /\ [i EXCEPT !.key = k].review = i.review
           /\ [i EXCEPT !.key = k].responder = i.responder
           /\ [i EXCEPT !.key = k].key = k
    BY DEF Item
  <1>3. rotated \in Responder /\ k \in rotated.keys /\ rotated # Nobody
    <2>1. rotated \in Responder /\ k \in rotated.keys
      BY <1>1 DEF Responder
    <2> QED
      BY <2>1, CatalogAssumption DEF CatalogAssumption
  <1> HIDE DEF rotated
  <1>4. /\ item' \in [Hotlines -> Item \cup {Nobody}]
        /\ responder' \in [Responders -> Responder \cup {Nobody}]
    BY <1>1, <1>2, <1>3
  <1>5. \A h \in Hotlines : Touched(h)
    BY <1>1, <1>2 DEF Touched
  <1>6. ASSUME NEW h \in Hotlines, item'[h] # Nobody
        PROVE  /\ responder'[item'[h].responder] # Nobody
               /\ item'[h].key \in responder'[item'[h].responder].keys
    <2>1. HotlineOK(h) /\ item[h] # Nobody /\ item[h] \in Item
      BY <1>1, <1>6 DEF CatalogInv
    <2>2. item[h].responder \in Responders
      BY <2>1 DEF Item
    <2>3. CASE item[h].responder = r
      BY <1>1, <1>2, <1>3, <2>1, <2>2, <2>3
    <2>4. CASE item[h].responder # r
      BY <1>1, <2>1, <2>2, <2>4 DEF HotlineOK
    <2> QED
      BY <2>3, <2>4
  <1> QED
    BY <1>1, <1>4, <1>5, <1>6, TouchedKeeps

-----------------------------------------------------------------------------
(* A submission *)

\* What a submission leaves of the responder: every key it was known by, and
\* the key of the submission.
LEMMA SubmittedResponder ==
    ASSUME CatalogInv, NEW o \in Owners, NEW r \in Responders, NEW h \in Hotlines,
           NEW k \in SigningKeys, NEW changed \in BOOLEAN
    PROVE  /\ Submitted(o, r, h, k, changed) \in Responder
           /\ k \in Submitted(o, r, h, k, changed).keys
           /\ responder[r] # Nobody =>
                 responder[r].keys \subseteq Submitted(o, r, h, k, changed).keys
  <1> DEFINE base == Owned(o, r, k)
             known == [base EXCEPT !.key = k, !.keys = base.keys \cup {k},
                                   !.hotlines = base.hotlines \cup {h}]
  <1>1. base \in Responder /\ (responder[r] # Nobody => base.keys = responder[r].keys)
    <2>1. CASE responder[r] = Nobody
      BY <2>1 DEF Owned, NewResponder, Responder, Review, Status
    <2>2. CASE responder[r] # Nobody
      <3>1. responder[r] \in Responder
        BY <2>2 DEF CatalogInv
      <3> QED
        BY <2>2, <3>1 DEF Owned, Responder
    <2> QED
      BY <2>1, <2>2
  <1>2. \/ Submitted(o, r, h, k, changed) = known
        \/ Submitted(o, r, h, k, changed) = [known EXCEPT !.review = "pending", !.status = "disabled"]
    BY DEF Submitted
  <1> HIDE DEF base
  <1>3. known \in Responder /\ known.keys = base.keys \cup {k}
    BY <1>1 DEF Responder
  <1> HIDE DEF known
  <1>4. /\ [known EXCEPT !.review = "pending", !.status = "disabled"] \in Responder
        /\ [known EXCEPT !.review = "pending", !.status = "disabled"].keys = known.keys
    BY <1>3 DEF Responder, Review, Status
  <1> QED
    BY <1>1, <1>2, <1>3, <1>4

LEMMA SubmitKeeps ==
    ASSUME CatalogInv, NEW o \in Owners, NEW r \in Responders, NEW h \in Hotlines,
           NEW c \in Contracts, NEW k \in SigningKeys, NEW changed \in BOOLEAN,
           Submit(o, r, h, c, k, changed)
    PROVE  CatalogInv'
  <1> DEFINE known == Submitted(o, r, h, k, changed)
             new == SubmittedItem(r, h, c, k)
  <1>1. /\ submissions < MaxSubmissions /\ submissions' = submissions + 1
        /\ responder' = [responder EXCEPT ![r] = known]
        /\ item' = [item EXCEPT ![h] = new]
        /\ UNCHANGED <<versions, agreed>>
    BY DEF Submit
  <1>2. /\ known \in Responder /\ k \in known.keys /\ known # Nobody
        /\ responder[r] # Nobody => responder[r].keys \subseteq known.keys
    BY SubmittedResponder, CatalogAssumption DEF CatalogAssumption
  <1>3. /\ new \in Item /\ new.responder = r /\ new.key = k /\ new.review = "pending"
    <2>1. item[h] # Nobody => item[h].reported \in Reported /\ item[h].fresh \in BOOLEAN
      BY DEF CatalogInv, Item
    <2>2. 0 \in 0 .. MaxSubmissions + 1
      BY CatalogAssumption DEF CatalogAssumption
    <2> QED
      BY <2>1, <2>2 DEF SubmittedItem, Item, Review, Status, Reported
  <1> HIDE DEF known, new
  <1>4. /\ responder \in [Responders -> Responder \cup {Nobody}]
        /\ item \in [Hotlines -> Item \cup {Nobody}]
        /\ submissions \in Nat /\ submissions' \in 0 .. MaxSubmissions
    BY <1>1, CatalogAssumption DEF CatalogInv, CatalogAssumption
  <1>5. /\ responder' \in [Responders -> Responder \cup {Nobody}]
        /\ item' \in [Hotlines -> Item \cup {Nobody}]
        /\ item'[h] = new /\ \A g \in Hotlines : g # h => item'[g] = item[g]
    BY <1>1, <1>2, <1>3, <1>4
  <1>6. ASSUME NEW g \in Hotlines PROVE HotlineOK(g)'
    <2>1. HotlineOK(g) /\ Held(g)' = Held(g)
      BY <1>1 DEF CatalogInv, Held
    <2>2. Held(g) \subseteq 1 .. submissions' /\ Held(g) \subseteq 1 .. submissions' + 1
      BY <1>1, <1>4, <2>1 DEF HotlineOK
    <2>3. CASE g = h
      BY <1>1, <1>2, <1>3, <1>4, <1>5, <2>1, <2>2, <2>3 DEF HotlineOK
    <2>4. CASE g # h
      <3>1. ASSUME item[g] # Nobody
            PROVE  /\ responder'[item[g].responder] # Nobody
                   /\ item[g].key \in responder'[item[g].responder].keys
        <4>1. item[g].responder \in Responders
          BY <1>4, <3>1 DEF Item
        <4>2. CASE item[g].responder = r
          BY <1>1, <1>2, <1>4, <2>1, <3>1, <4>2 DEF HotlineOK
        <4>3. CASE item[g].responder # r
          BY <1>1, <1>4, <2>1, <3>1, <4>1, <4>3 DEF HotlineOK
        <4> QED
          BY <4>2, <4>3
      <3> QED
        BY <1>1, <1>5, <2>1, <2>2, <2>4, <3>1 DEF HotlineOK
    <2> QED
      BY <2>3, <2>4
  <1> QED
    BY <1>1, <1>4, <1>5, <1>6 DEF CatalogInv

-----------------------------------------------------------------------------
(* A publication *)

\* The item's content becomes a version unless it is one; base is the item
\* with what its handler changes, and the content is agreed to by then.
LEMMA PublishKeeps ==
    ASSUME CatalogInv, UNCHANGED <<responder, submissions>>,
           NEW h \in Hotlines, item[h] # Nobody, NEW base \in Item,
           base.contract = item[h].contract, base.published = item[h].published,
           base.responder = item[h].responder, base.key = item[h].key,
           EnsurePublished(h, base),
           agreed' \in [Hotlines -> SUBSET Contracts],
           \A g \in Hotlines : agreed[g] \subseteq agreed'[g],
           item[h].contract \in agreed'[h]
    PROVE  CatalogInv' /\ VersionsStay
  <1>1. /\ HotlineOK(h) /\ item[h] \in Item /\ item \in [Hotlines -> Item \cup {Nobody}]
        /\ submissions \in 0 .. MaxSubmissions /\ item[h].contract \in Contracts
        /\ versions = [g \in Hotlines |-> versions[g]]
    BY DEF CatalogInv, Item
  <1>2. ASSUME item' \in [Hotlines -> Item \cup {Nobody}], item'[h] \in Item,
               versions' = [g \in Hotlines |-> versions'[g]],
               \A g \in Hotlines : g # h => item'[g] = item[g] /\ versions'[g] = versions[g],
               item'[h].responder = item[h].responder, item'[h].key = item[h].key,
               item'[h].contract = item[h].contract,
               versions'[h] \in [DOMAIN versions'[h] -> Contracts],
               \A v \in DOMAIN versions'[h] : versions'[h][v] \in agreed'[h],
               DOMAIN versions'[h] \subseteq 1 .. submissions + 1,
               item'[h].published \in DOMAIN versions'[h],
               versions'[h][item'[h].published] = item'[h].contract
        PROVE  CatalogInv'
    <2>1. ASSUME NEW g \in Hotlines PROVE HotlineOK(g)'
      <3>1. CASE g = h
        <4>1. IsPublished(h)'
          BY <1>2 DEF IsPublished, Held
        <4>2. item'[h] # Nobody => Shown(h)'
          BY <4>1 DEF Shown
        <4>3. item'[h] # Nobody
          BY <1>2, CatalogAssumption DEF CatalogAssumption
        <4> QED
          BY <1>1, <1>2, <3>1, <4>2, <4>3 DEF HotlineOK, Held
      <3>2. CASE g # h
        <4>1. HotlineOK(g)
          BY DEF CatalogInv
        <4>2. Held(g)' = Held(g) /\ item'[g] = item[g] /\ versions'[g] = versions[g]
          BY <1>2, <3>2 DEF Held
        <4>3. Shown(g)' = Shown(g)
          BY <4>2 DEF Shown, IsPublished
        <4> QED
          BY <4>1, <4>2, <4>3 DEF HotlineOK
      <3> QED
        BY <3>1, <3>2
    <2> QED
      BY <1>2, <2>1 DEF CatalogInv
  <1>3. CASE IsPublished(h)
    <2>1. item' = [item EXCEPT ![h] = base] /\ versions' = versions
      BY <1>3 DEF EnsurePublished
    <2>2. VersionsStay
      BY <2>1 DEF VersionsStay
    <2>3. CatalogInv'
      BY <1>1, <1>2, <1>3, <2>1 DEF IsPublished, Held, HotlineOK
    <2> QED
      BY <2>2, <2>3
  <1>4. CASE ~IsPublished(h)
    <2> DEFINE n == NextVersion(h)
               now == [v \in Held(h) \cup {n} |-> IF v = n THEN item[h].contract ELSE versions[h][v]]
               shown == [base EXCEPT !.published = n]
    <2>1. versions' = [versions EXCEPT ![h] = now] /\ item' = [item EXCEPT ![h] = shown]
      BY <1>4 DEF EnsurePublished
    <2>2. Held(h) \subseteq 1 .. submissions
      BY <1>1, <1>4 DEF HotlineOK, Shown
    <2>3. n \in 1 .. submissions + 1 /\ n \notin Held(h)
      BY <1>1, <2>2, NextVersionIsNew
    <2> HIDE DEF n
    <2>4. shown \in Item /\ shown.published = n /\ shown.contract = item[h].contract
          /\ shown.responder = item[h].responder /\ shown.key = item[h].key
      <3>1. n \in 0 .. MaxSubmissions + 1
        BY <1>1, <2>3, CatalogAssumption DEF CatalogAssumption
      <3> QED
        BY <3>1 DEF Item
    <2>5. /\ now \in [Held(h) \cup {n} -> Contracts] /\ DOMAIN now = Held(h) \cup {n}
          /\ now[n] = item[h].contract /\ \A v \in Held(h) : now[v] = versions[h][v]
      BY <1>1, <2>3 DEF HotlineOK
    <2> HIDE DEF now, shown
    <2>6. /\ item' \in [Hotlines -> Item \cup {Nobody}] /\ item'[h] = shown
          /\ versions'[h] = now /\ versions' = [g \in Hotlines |-> versions'[g]]
          /\ \A g \in Hotlines : g # h => item'[g] = item[g] /\ versions'[g] = versions[g]
      BY <1>1, <2>1, <2>4
    <2>7. VersionsStay
      BY <2>5, <2>6 DEF VersionsStay, Held
    <2>8. \A v \in DOMAIN now : now[v] \in agreed'[h]
      BY <1>1, <2>5 DEF HotlineOK
    <2>9. DOMAIN now \subseteq 1 .. submissions + 1
      BY <1>1, <2>2, <2>3, <2>5
    <2>10. CatalogInv'
      BY <1>2, <2>4, <2>5, <2>6, <2>8, <2>9
    <2> QED
      BY <2>7, <2>10
  <1> QED
    BY <1>3, <1>4

LEMMA ApproveKeeps ==
    ASSUME CatalogInv, NEW h \in Hotlines, ApproveHotline(h)
    PROVE  CatalogInv' /\ VersionsStay
  <1> DEFINE base == [item[h] EXCEPT !.review = "approved", !.status = "enabled"]
  <1>1. /\ item[h] # Nobody /\ item[h] \in Item /\ item[h].contract \in Contracts
        /\ EnsurePublished(h, base) /\ UNCHANGED <<responder, submissions>>
        /\ agreed' = [agreed EXCEPT ![h] = agreed[h] \cup {item[h].contract}]
        /\ agreed \in [Hotlines -> SUBSET Contracts]
    BY DEF ApproveHotline, CatalogInv, Item
  <1>2. /\ base \in Item /\ base.contract = item[h].contract /\ base.key = item[h].key
        /\ base.published = item[h].published /\ base.responder = item[h].responder
    BY <1>1 DEF Item, Review, Status
  <1> HIDE DEF base
  <1>3. /\ agreed' \in [Hotlines -> SUBSET Contracts]
        /\ \A g \in Hotlines : agreed[g] \subseteq agreed'[g]
        /\ item[h].contract \in agreed'[h]
    BY <1>1
  <1> QED
    BY <1>1, <1>2, <1>3, PublishKeeps

\* Binding a call publishes too, and only content that was approved.
LEMMA BindKeeps ==
    ASSUME CatalogInv, NEW h \in Hotlines, BindCall(h)
    PROVE  CatalogInv' /\ VersionsStay
  <1>1. /\ item[h] # Nobody /\ item[h] \in Item /\ HotlineOK(h)
        /\ item[h].review = "approved"
        /\ EnsurePublished(h, item[h]) /\ UNCHANGED <<responder, submissions, agreed>>
    BY DEF BindCall, Public, CatalogInv
  <1>2. /\ item[h].contract \in agreed'[h] /\ agreed' \in [Hotlines -> SUBSET Contracts]
        /\ \A g \in Hotlines : agreed[g] \subseteq agreed'[g]
    BY <1>1 DEF HotlineOK, CatalogInv
  <1> QED
    BY <1>1, <1>2, PublishKeeps

-----------------------------------------------------------------------------
LEMMA CatalogStep ==
    ASSUME CatalogInv, [CatalogNext]_catalogVars
    PROVE  CatalogInv' /\ VersionsStay
  <1>1. ASSUME versions' = versions PROVE VersionsStay
    BY <1>1 DEF VersionsStay
  <1>2. ASSUME NEW o \in Owners, NEW r \in Responders, NEW h \in Hotlines, NEW c \in Contracts,
               NEW k \in SigningKeys, NEW changed \in BOOLEAN, Submit(o, r, h, c, k, changed)
        PROVE  CatalogInv' /\ VersionsStay
    BY <1>1, <1>2, SubmitKeeps DEF Submit
  <1>3. ASSUME NEW o \in Owners, NEW r \in Responders, NEW h \in Hotlines, NEW k \in SigningKeys,
               SubmitRefused(o, r, h, k)
        PROVE  CatalogInv' /\ VersionsStay
    BY <1>1, <1>3, RefusedKeeps DEF SubmitRefused
  <1>4. ASSUME NEW h \in Hotlines, ApproveHotline(h) PROVE CatalogInv' /\ VersionsStay
    BY <1>4, ApproveKeeps
  <1>5. ASSUME NEW h \in Hotlines, RejectHotline(h) \/ EnableHotline(h) \/ DisableHotline(h)
        PROVE  CatalogInv' /\ VersionsStay
    BY <1>1, <1>5, HotlineReviewed
    DEF RejectHotline, EnableHotline, DisableHotline, SetHotline
  <1>6. ASSUME NEW r \in Responders,
               \/ ApproveResponder(r) \/ RejectResponder(r)
               \/ EnableResponder(r) \/ DisableResponder(r)
        PROVE  CatalogInv' /\ VersionsStay
    BY <1>1, <1>6, ResponderReviewed
    DEF ApproveResponder, RejectResponder, EnableResponder, DisableResponder, SetResponder
  <1>7. ASSUME NEW r \in Responders, RetireResponder(r) PROVE CatalogInv' /\ VersionsStay
    BY <1>1, <1>7, RetireKeeps DEF RetireResponder
  <1>8. ASSUME NEW r \in Responders, NEW k \in SigningKeys, NEW p \in SUBSET SigningKeys,
               RotateSigningKey(r, k, p)
        PROVE  CatalogInv' /\ VersionsStay
    BY <1>1, <1>8, RotateKeeps DEF RotateSigningKey
  <1>9. ASSUME NEW r \in Responders, NEW s \in Reported, Heartbeat(r, s)
        PROVE  CatalogInv' /\ VersionsStay
    BY <1>1, <1>9, HeartbeatKeeps DEF Heartbeat
  <1>10. CASE GoStale
    BY <1>1, <1>10, GoStaleKeeps DEF GoStale
  <1>11. ASSUME NEW h \in Hotlines, BindCall(h) PROVE CatalogInv' /\ VersionsStay
    BY <1>11, BindKeeps
  <1>12. CASE ResolveService
    BY <1>11, <1>12 DEF ResolveService, Candidates
  <1>13. CASE UNCHANGED catalogVars
    <2>1. \A h \in Hotlines : HotlineOK(h) => HotlineOK(h)'
      BY <1>13 DEF catalogVars, HotlineOK, Shown, IsPublished, Held
    <2> QED
      BY <1>1, <1>13, <2>1 DEF catalogVars, CatalogInv
  <1> QED
    BY <1>2, <1>3, <1>4, <1>5, <1>6, <1>7, <1>8, <1>9, <1>10, <1>11, <1>12, <1>13
    DEF CatalogNext

LEMMA CatalogInvHolds == CatalogSpec => []CatalogInv
  <1>1. CatalogInv /\ [CatalogNext]_catalogVars => CatalogInv'
    BY CatalogStep
  <1> QED
    BY <1>1, CatalogInvInit, PTL DEF CatalogSpec

-----------------------------------------------------------------------------
(* Devices, items and versions have their types, and no hotline has more   *)
(* versions than submissions and one (server.js, the catalog handlers).    *)
THEOREM CatalogTyped == CatalogSpec => []CatalogTypeOK
  BY CatalogInvTypes, CatalogInvHolds, PTL

(* A published version keeps its content and its number for ever: the      *)
(* number of a new one is past every number held, whatever a resubmission  *)
(* has made of the item (ensurePublishedHotlineVersion).                   *)
THEOREM VersionsNeverChange == CatalogSpec => VersionsFrozen
  <1>1. CatalogInv /\ [CatalogNext]_catalogVars => [VersionsStay]_catalogVars
    BY CatalogStep
  <1> QED
    BY <1>1, CatalogInvHolds, PTL DEF CatalogSpec, VersionsFrozen

(* No version holds content an operator did not approve for its hotline,   *)
(* though binding a call publishes as well as an approval does.            *)
THEOREM PublishedWasApproved == CatalogSpec => []OnlyApprovedIsPublished
  <1>1. CatalogInv => OnlyApprovedIsPublished
    BY DEF CatalogInv, HotlineOK, OnlyApprovedIsPublished, Held
  <1> QED
    BY <1>1, CatalogInvHolds, PTL

(* The key of every catalog item is among those its device is known by,    *)
(* through submissions, rotations, retirements and changes of owner.       *)
THEOREM ItemKeysAreKnown == CatalogSpec => []ItemKeyIsKnown
  <1>1. CatalogInv => ItemKeyIsKnown
    BY DEF CatalogInv, HotlineOK, ItemKeyIsKnown
  <1> QED
    BY <1>1, CatalogInvHolds, PTL
============================================================================
