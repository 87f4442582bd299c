------------------------------ MODULE MCFrontend ------------------------------
(***************************************************************************)
(* The parts of the three single page applications that share no state     *)
(* with each other, side by side.                                          *)
(*                                                                         *)
(* Nothing one of them does enables, disables or changes a step of         *)
(* another, so what holds of each alone holds of all of them together: one *)
(* part moves, chosen at the start, and TLC explores the sum of their      *)
(* states where the product would be out of reach.  The panes of           *)
(* ConsoleReads share the data they read and nothing else: one at a time.  *)
(***************************************************************************)
EXTENDS ConsoleReads, ApiClient, CustomerPortal, PageShell, Landing, ConsoleViews

VARIABLE part

Parts == Panes \cup {"client", "portal", "tenant", "shell", "landing", "views"}

partsVars == <<readsVars, clientVars, portalVars, tenant, shellVars, landingVars, snapshot>>

MCRenewalOf == [o \in Orders |-> CHOOSE service \in Services : TRUE]

Untouched == \A o \in Orders : orders[o].status = "none"

\* Where a part starts in more than one way, it only does so if it is the one.
Init ==
    /\ part \in Parts
    /\ ReadsInit /\ ClientInit /\ TenantInit /\ ViewsInit
    /\ PortalInit /\ (part # "portal" => address[1] = "plans" /\ Untouched)
    /\ ShellInit /\ (part # "shell" => ~isMobile)
    /\ LandingInit /\ (part # "landing" => browser.context2d /\ Animated)

ReadsStep ==
    /\ part \in Panes /\ ReadsNext
    /\ \A p \in Panes \ {part} : question'[p] = question[p] /\ pending'[p] = pending[p]
    /\ UNCHANGED <<part, clientVars, portalVars, tenant, shellVars, landingVars, snapshot>>
ClientStep ==
    /\ part = "client" /\ ClientNext
    /\ UNCHANGED <<part, readsVars, portalVars, tenant, shellVars, landingVars, snapshot>>
PortalStep ==
    /\ part = "portal" /\ PortalNext
    /\ UNCHANGED <<part, readsVars, clientVars, tenant, shellVars, landingVars, snapshot>>
TenantStep ==
    /\ part = "tenant" /\ TenantNext
    /\ UNCHANGED <<part, readsVars, clientVars, portalVars, shellVars, landingVars, snapshot>>
ShellStep ==
    /\ part = "shell" /\ ShellNext
    /\ UNCHANGED <<part, readsVars, clientVars, portalVars, tenant, landingVars, snapshot>>
LandingStep ==
    /\ part = "landing" /\ LandingNext
    /\ UNCHANGED <<part, readsVars, clientVars, portalVars, tenant, shellVars, snapshot>>
ViewsStep ==
    /\ part = "views" /\ Sync
    /\ UNCHANGED <<part, readsVars, clientVars, portalVars, tenant, shellVars, landingVars>>

Next ==
    \/ ReadsStep \/ ClientStep \/ PortalStep \/ TenantStep
    \/ ShellStep \/ LandingStep \/ ViewsStep

Spec ==
    /\ Init /\ [][Next]_<<part, partsVars>>
    /\ \A p \in Polled : part = p => PaneFairness(p)

-----------------------------------------------------------------------------
\* Types.  Every part keeps its types.
PartsTypeOK ==
    /\ part \in Parts
    /\ ReadsTypeOK /\ ClientTypeOK /\ PortalTypeOK /\ ShellTypeOK /\ LandingTypeOK

\* However requests overlap, fail and get lost, the statistics and the incident
\* records on screen are time and again those the backend holds (the intervals of
\* PanelProvider.jsx:179 and :220): a lost request does not stop the pane.
PanesCatchUp == \A p \in Polled : part = p => []<>CaughtUp(p)

\* The pages of a customer are true: the flags of the portal, the order on screen and
\* how it may differ from the address, and the page of a tenant link.
PortalPages == []PageHonest /\ OrderForward /\ AddressShown /\ TenantExplained
=============================================================================
