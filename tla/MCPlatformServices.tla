------------------------ MODULE MCPlatformServices ------------------------
(* The services of the platform beside billing, in one run of TLC: which   *)
(* of them moves is chosen at the start, and the others rest in an initial *)
(* state.  They share no state, so this is the sum of their state spaces   *)
(* and not a product.                                                      *)
EXTENDS HotlineCatalog, Accounts, ReviewTest, CallTimeline, ArtifactChannel, AlertLoop,
        GatewaySession

VARIABLE part

Parts == {"catalog", "accounts", "review", "timeline", "artifact", "alert", "gateway"}

vars == <<part, catalogVars, accountVars, reviewVars, timelineVars, artifactVars, alertVars,
          gatewayVars>>

(* Of a service that rests one initial state is enough. *)
Init ==
    /\ part \in Parts
    /\ CatalogInit /\ (part # "catalog" => \A r \in Responders : responder[r] = Nobody)
    /\ AccountsInit /\ (part # "accounts" => configured = CHOOSE key \in AdminKeys : TRUE)
    /\ ReviewInit
    /\ TimelineInit
    /\ ArtifactInit
    /\ AlertInit
    /\ GatewayInit /\ (part # "gateway" => plain = NoValue)

Frame ==
    /\ UNCHANGED part
    /\ IF part = "catalog" THEN TRUE ELSE UNCHANGED catalogVars
    /\ IF part = "accounts" THEN TRUE ELSE UNCHANGED accountVars
    /\ IF part = "review" THEN TRUE ELSE UNCHANGED reviewVars
    /\ IF part = "timeline" THEN TRUE ELSE UNCHANGED timelineVars
    /\ IF part = "artifact" THEN TRUE ELSE UNCHANGED artifactVars
    /\ IF part = "alert" THEN TRUE ELSE UNCHANGED alertVars
    /\ IF part = "gateway" THEN TRUE ELSE UNCHANGED gatewayVars

Next ==
    /\ \/ part = "catalog" /\ CatalogNext
       \/ part = "accounts" /\ AccountsNext
       \/ part = "review" /\ ReviewNext
       \/ part = "timeline" /\ TimelineNext
       \/ part = "artifact" /\ ArtifactNext
       \/ part = "alert" /\ AlertNext
       \/ part = "gateway" /\ GatewayNext
    /\ Frame

(* The fairness of the services that state one. *)
Fairness ==
    /\ \A t \in Tests : WF_vars(part = "review" /\ Job(t) /\ Frame)
    /\ WF_vars(part = "alert" /\ Progress /\ Frame)
    /\ \A p \in Problems : WF_vars(part = "alert" /\ GrowOld(p) /\ Frame)

Spec == Init /\ [][Next]_vars /\ Fairness

(* The type invariant of the service that moves; the others rest. *)
TypeOK ==
    /\ part = "catalog" => CatalogTypeOK
    /\ part = "accounts" => AccountsTypeOK
    /\ part = "review" => ReviewTypeOK
    /\ part = "timeline" => TimelineTypeOK
    /\ part = "artifact" => ArtifactTypeOK
    /\ part = "alert" => AlertTypeOK
    /\ part = "gateway" => GatewayTypeOK
=============================================================================
