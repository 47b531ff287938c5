--------------------------- MODULE MCBillingStore ---------------------------
(* An instance of BillingStore for TLC: connections and tenants are alike. *)
EXTENDS BillingStore, TLC

Alike == Permutations(Clients) \cup Permutations(Tenants)
=============================================================================
