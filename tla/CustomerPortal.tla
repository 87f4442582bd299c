---------------------------- MODULE CustomerPortal ----------------------------
(***************************************************************************)
(* The customer's pages (frontend/src/portal): the portal behind the login *)
(* with its lists, an order and its payment proof, a subscription and its  *)
(* renewal; and the page of one tenant link, with a login of its own.      *)
(*                                                                         *)
(* A page reads its record once, when it is mounted; its buttons send      *)
(* requests whose answers are handled even after the customer has moved    *)
(* on (two of them alike count as one here).  The backend is the one of    *)
(* Commerce, reduced to what the pages see.  Whatever loads the document   *)
(* anew (a reload, a typed address, the way back from the login) starts    *)
(* over from PortalInit: at any address, with orders of any status.        *)
(***************************************************************************)
EXTENDS Naturals, FiniteSets

CONSTANTS
    Orders, Services,   \* order numbers, subscription ids
    Files,              \* screenshots of a payment
    Absent,             \* no id, no record, no file
    RenewalOf,          \* the service an order renews; Absent: a purchase
    MaxOrderRev,        \* bound: changes of an order in the backend
    MaxWire             \* bound: requests under way

ASSUME PortalAssumption ==
    /\ Orders \cap Services = {} /\ Absent \notin Orders \cup Services \cup Files
    /\ RenewalOf \in [Orders -> Services \cup {Absent}]
    /\ {MaxOrderRev, MaxWire} \subseteq Nat

Lists == {"overview", "subscriptions", "orders", "plans"}
Views == Lists \cup {"order-detail", "subscription-detail"}
Addresses ==
    (Lists \X {Absent}) \cup ({"order-detail"} \X Orders) \cup ({"subscription-detail"} \X Services)

OrderStatuses ==
    {"none", "pending_payment", "payment_submitted", "payment_rejected", "fulfilled", "expired", "cancelled"}
AwaitsProof == {"pending_payment", "payment_rejected"}
OpenOrder == AwaitsProof \cup {"payment_submitted"}

VARIABLES
    address,    \* the route: a page and the id in it
    page,       \* the mounted view: its refs
    file,       \* the upload list of an order's page
    wire,       \* requests under way; mine: of the mounted view
    orders,     \* the orders in the backend
    tenant      \* the page of a tenant link

portalVars == <<address, page, file, wire, orders>>

Mounted(view) == [view |-> view, loading |-> TRUE, busy |-> FALSE, record |-> Absent]
Asking(kind, id) ==
    [kind |-> kind, id |-> id, mine |-> TRUE, served |-> FALSE, record |-> Absent]

\* A service has one open renewal at most.
Renewable(service) == \A o \in Orders : RenewalOf[o] = service => orders[o].status \notin OpenOrder

\* An order number the next order may get.
Free(o) == orders[o].status = "none" /\ (RenewalOf[o] = Absent \/ Renewable(RenewalOf[o]))

PortalInit ==
    /\ address \in Addresses
    /\ page = Mounted(address[1]) /\ file = Absent
    /\ wire = {Asking("load", address[2])}
    /\ \E status \in [Orders -> OrderStatuses] :
         orders = [o \in Orders |-> [id |-> o, status |-> status[o], rev |-> 0]]
    /\ \A o, p \in Orders :
         o # p /\ {orders[o].status, orders[p].status} \subseteq OpenOrder /\ RenewalOf[o] = RenewalOf[p] =>
            RenewalOf[o] = Absent

-----------------------------------------------------------------------------
(* The router.                                                              *)

\* Seeded fault: one component for both detail pages.
PushAmongDetails(a, requests) ==
    /\ address' = a
    /\ IF a[1] = page.view \/ {a[1], page.view} \cap Lists = {}
       THEN wire' = requests /\ UNCHANGED <<page, file>>
       ELSE /\ page' = Mounted(a[1]) /\ file' = Absent
            /\ wire' = {[r EXCEPT !.mine = FALSE] : r \in {s \in requests : s.kind # "load"}}
                         \cup {Asking("load", a[2])}

\* Another view is mounted, and what the old one has sent outlives it.  Where only
\* the id changes, vue-router keeps the view and nothing is read anew.
Push(a, requests) ==
    /\ address' = a
    /\ IF a[1] = page.view
       THEN wire' = requests /\ UNCHANGED <<page, file>>
       ELSE /\ page' = Mounted(a[1]) /\ file' = Absent
            /\ wire' = {[r EXCEPT !.mine = FALSE] : r \in {s \in requests : s.kind # "load"}}
                         \cup {Asking("load", a[2])}

\* A link of the sidebar or of a row, or back and forth through the history, which
\* may hold any address: one opened by hand too, of an order that does not exist.
Follow ==
    /\ \E a \in Addresses \ {address} : Push(a, wire)
    /\ UNCHANGED orders

-----------------------------------------------------------------------------
(* Reading, when a view is mounted and after an upload.                     *)

RecordOf(id) == IF id \in Orders THEN orders[id] ELSE [id |-> id]

\* An order that does not exist is refused: FailLoad.
ServeLoad(r) ==
    /\ r \in wire /\ r.kind = "load" /\ ~r.served
    /\ r.id \in Orders => orders[r.id].status # "none"
    /\ wire' = (wire \ {r}) \cup {[r EXCEPT !.served = TRUE, !.record = RecordOf(r.id)]}
    /\ UNCHANGED <<address, page, file, orders>>

\* The finally blocks: of load, and of submitProof when it waited for this load.
LoadEnds(r, record) ==
    /\ wire' = wire \ {r}
    /\ page' = [page EXCEPT !.loading = FALSE, !.busy = FALSE, !.record = record]
    /\ UNCHANGED <<address, file, orders>>

ReceiveLoad(r) ==
    /\ r \in wire /\ r.kind = "load" /\ r.served
    /\ LoadEnds(r, r.record)

\* Refused or broken off: a toast, and the page keeps what it held before.
FailLoad(r) ==
    /\ r \in wire /\ r.kind = "load"
    /\ LoadEnds(r, page.record)

-----------------------------------------------------------------------------
(* An order's page: the proof of payment.                                   *)

CanSubmitProof ==
    page.view = "order-detail" /\ page.record # Absent /\ page.record.status \in AwaitsProof

\* The spinner of a load keeps the page out of reach, that of the button does not.
ChooseFile ==
    /\ CanSubmitProof /\ ~page.loading
    /\ file' \in (Files \cup {Absent}) \ {file}
    /\ UNCHANGED <<address, page, wire, orders>>

Press(kind) ==
    /\ ~page.loading /\ ~page.busy
    /\ Cardinality(wire) < MaxWire
    /\ page' = [page EXCEPT !.busy = TRUE]
    /\ wire' = wire \cup {Asking(kind, address[2])}
    /\ UNCHANGED <<address, file, orders>>

SubmitProof == CanSubmitProof /\ file # Absent /\ Press("proof")

AnswerWith(r, record) == wire' = (wire \ {r}) \cup {[r EXCEPT !.served = TRUE, !.record = record]}
Becomes(o, status) == [orders EXCEPT ![o].status = status, ![o].rev = @ + 1]

AcceptProof(r) ==
    /\ r \in wire /\ r.kind = "proof" /\ ~r.served
    /\ orders[r.id].status \in AwaitsProof /\ orders[r.id].rev < MaxOrderRev
    /\ orders' = Becomes(r.id, "payment_submitted")
    /\ AnswerWith(r, Absent)
    /\ UNCHANGED <<address, page, file>>

\* The list of files is emptied, and the page reads the order of its address.
ReceiveProof(r) ==
    /\ r \in wire /\ r.kind = "proof" /\ r.served
    /\ IF r.mine
       THEN /\ file' = Absent /\ page' = [page EXCEPT !.loading = TRUE]
            /\ wire' = (wire \ {r}) \cup {Asking("load", address[2])}
       ELSE wire' = wire \ {r} /\ UNCHANGED <<page, file>>
    /\ UNCHANGED <<address, orders>>

\* Seeded fault: the list of files is emptied whatever the answer.
FailActionCleared(r) ==
    /\ r \in wire /\ r.kind \in {"proof", "renew"}
    /\ wire' = wire \ {r}
    /\ page' = [page EXCEPT !.busy = @ /\ ~r.mine]
    /\ file' = IF r.mine THEN Absent ELSE file
    /\ UNCHANGED <<address, orders>>

\* Refused by the backend, or the answer got lost: a toast.
FailAction(r) ==
    /\ r \in wire /\ r.kind \in {"proof", "renew"}
    /\ wire' = wire \ {r}
    /\ page' = [page EXCEPT !.busy = @ /\ ~r.mine]
    /\ UNCHANGED <<address, file, orders>>

-----------------------------------------------------------------------------
(* A subscription's page: the renewal, which leads to its order.            *)

Renew == page.view = "subscription-detail" /\ page.record # Absent /\ Press("renew")

\* A new order, unless the last renewal is still open: that is refused, FailAction.
AcceptRenewal(r) ==
    /\ r \in wire /\ r.kind = "renew" /\ ~r.served
    /\ \E o \in Orders :
        /\ RenewalOf[o] = r.id /\ Free(o) /\ orders[o].rev < MaxOrderRev
        /\ orders' = Becomes(o, "pending_payment")
        /\ AnswerWith(r, orders'[o])
    /\ UNCHANGED <<address, page, file>>

\* router.push, wherever the customer is by now.
ReceiveRenewal(r) ==
    /\ r \in wire /\ r.kind = "renew" /\ r.served
    /\ Push(<<"order-detail", r.record.id>>, wire \ {r})
    /\ UNCHANGED orders

-----------------------------------------------------------------------------
(* What else happens to the orders.                                         *)

\* The customer's proof from another window, the deadline, the administrator's
\* review and cancellation.
OrderMoves ==
    (AwaitsProof \X {"payment_submitted", "expired"})
      \cup ({"payment_submitted"} \X {"payment_rejected", "fulfilled"})
      \cup (OpenOrder \X {"cancelled"})

Review ==
    /\ \E o \in Orders :
        /\ orders[o].rev < MaxOrderRev
        /\ \/ Free(o) /\ orders' = Becomes(o, "pending_payment")
           \/ \E status \in OrderStatuses :
                <<orders[o].status, status>> \in OrderMoves /\ orders' = Becomes(o, status)
    /\ UNCHANGED <<address, page, file, wire>>

Answering(r) ==
    \/ ServeLoad(r) \/ ReceiveLoad(r) \/ FailLoad(r)
    \/ AcceptProof(r) \/ ReceiveProof(r) \/ AcceptRenewal(r) \/ ReceiveRenewal(r) \/ FailAction(r)

PortalNext ==
    \/ Follow \/ ChooseFile \/ SubmitProof \/ Renew \/ Review
    \/ \E r \in wire : Answering(r)

PortalSpec == PortalInit /\ [][PortalNext]_portalVars

-----------------------------------------------------------------------------
(* TokenApp: one subscription behind the login of its port.                 *)

TenantInit ==
    tenant = [loading |-> TRUE, submitting |-> FALSE, needLogin |-> FALSE, sub |-> FALSE, errorMsg |-> FALSE]

\* load(): the subscription, a 401, or any other failure.  When doLogin waited for
\* it, its button is released.
TenantLoadEnds ==
    /\ tenant.loading
    /\ tenant' \in {[tenant EXCEPT !.loading = FALSE, !.submitting = FALSE, !.sub = TRUE, !.needLogin = FALSE],
                    [tenant EXCEPT !.loading = FALSE, !.submitting = FALSE, !.needLogin = TRUE],
                    [tenant EXCEPT !.loading = FALSE, !.submitting = FALSE, !.errorMsg = TRUE]}

DoLogin ==
    /\ tenant.needLogin /\ ~tenant.loading /\ ~tenant.submitting
    /\ tenant' = [tenant EXCEPT !.submitting = TRUE, !.errorMsg = FALSE]

LoginEnds ==
    /\ tenant.submitting /\ ~tenant.loading
    /\ tenant' \in {[tenant EXCEPT !.loading = TRUE, !.errorMsg = FALSE],
                    [tenant EXCEPT !.submitting = FALSE, !.errorMsg = TRUE]}

TenantNext == TenantLoadEnds \/ DoLogin \/ LoginEnds

TenantSpec == TenantInit /\ [][TenantNext]_tenant

\* The template: v-if needLogin, v-else-if sub, v-else-if errorMsg.
TenantPage ==
    CASE tenant.needLogin -> "login"
      [] ~tenant.needLogin /\ tenant.sub -> "subscription"
      [] ~tenant.needLogin /\ ~tenant.sub /\ tenant.errorMsg -> "error"
      [] OTHER -> "blank"

-----------------------------------------------------------------------------
PortalRecords == [id : Orders, status : OrderStatuses, rev : 0..MaxOrderRev] \cup [id : Services \cup {Absent}] \cup {Absent}

\* Types.  The route, the mounted view and the requests are well-formed.
PortalTypeOK ==
    /\ address \in Addresses
    /\ page.view = address[1]
    /\ page.loading \in BOOLEAN /\ page.busy \in BOOLEAN /\ page.record \in PortalRecords
    /\ file \in Files \cup {Absent}
    /\ \A r \in wire : r.kind \in {"load", "proof", "renew"} /\ r.record \in PortalRecords
    /\ \A o \in Orders : orders[o] \in PortalRecords

\* The flags tell the truth: the spinner is on exactly while this page loads, and
\* its button turns exactly while an action of this page or the load after it is
\* under way.
PageHonest ==
    /\ page.loading <=> \E r \in wire : r.mine /\ r.kind = "load"
    /\ Cardinality({r \in wire : r.mine}) <= 1
    /\ page.busy => \E r \in wire : r.mine
    /\ (\E r \in wire : r.mine /\ r.kind # "load") => page.busy

\* What is on the page, or being read for it, is what the address names.
OfAddress ==
    /\ page.record # Absent => page.record.id = address[2]
    /\ \A r \in wire : r.kind = "load" => r.id = address[2]

\* A page comes to show another order or subscription than its address names in one
\* way only: the address changes from one order to another, or from one subscription
\* to another, under the mounted page, which reads nothing then (the history, or a
\* renewal answered late).  No late answer, failed load, upload or other change of
\* pages does it, and a proof of payment sent without it is for the order on screen.
AddressShown ==
    [][OfAddress =>
         /\ OfAddress' \/ (address'[1] = address[1] /\ address' # address)
         /\ \A r \in wire' \ wire : r.mine /\ r.kind = "proof" /\ ~r.served => r.id = page.record.id]_portalVars

\* An order on the page never goes back to an older state of itself, and a chosen
\* screenshot is only taken out of a page by the customer or because the backend
\* has accepted a proof of payment: not by a refusal, a failure or a reload.
OrderForward ==
    [][/\ page.view = "order-detail" /\ page'.view = page.view
          /\ page.record # Absent /\ page'.record # Absent /\ page.record.id = page'.record.id =>
            page.record.rev <= page'.record.rev
       /\ file # Absent /\ file' = Absent /\ page'.view = page.view /\ wire' # wire =>
            \E r \in wire \ wire' : r.kind = "proof" /\ r.served /\ r.mine]_portalVars

\* A tenant is never left before a blank page: once the load or the login has ended
\* there is the login, the subscription or an error; and a subscription on screen
\* is not taken away by a login or an error.
TenantExplained ==
    /\ [](~tenant.loading => TenantPage # "blank")
    /\ [][TenantPage = "subscription" => TenantPage' = "subscription"]_tenant
=============================================================================
