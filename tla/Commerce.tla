------------------------------ MODULE Commerce ------------------------------
(***************************************************************************)
(* Orders, customer services, sold ports and their traffic: the database   *)
(* state of app/state/commerce.py, ports.py and traffic.py.                 *)
(*                                                                         *)
(* Every public method of these services runs one SQLite transaction under *)
(* the process-wide write_lock (SQLiteDatabase.apply_state_update, or      *)
(* XrayApplyService.apply_mutation for a change of the ports), so a        *)
(* committed method is one action here.  A method that raises rolls its    *)
(* transaction back; what it may leave behind is the traffic sample that   *)
(* apply_mutation commits first, which is the action SyncTraffic.  The     *)
(* failing halves of an apply are the subject of module XrayApply.         *)
(***************************************************************************)
EXTENDS Integers, Sequences

CONSTANTS
    Customers,      \* registered customer accounts, all "active"
    Plans,          \* plan ids
    Terms,          \* what a plan sells: records [duration, limit]
    OrderIds, ServiceIds, PortIds,     \* the rows the tables may hold
    ListenPorts,    \* port numbers an administrator may use
    AutoPorts,      \* COMMERCE_AUTO_PORT_START..COMMERCE_AUTO_PORT_END
    Expiries, Limits,   \* what the port form may hold; Null for an empty field
    OrderExpiry,    \* commerce_order_expiry_hours
    Nobody,         \* a NULL customer_id or service_subscription_id
    MaxTime, MaxUsage, MaxSubmissions   \* bounds of the model

ASSUME ConstantsAssumption ==
    /\ Terms \subseteq [duration : Nat \ {0}, limit : Nat \ {0}]
    /\ ListenPorts \subseteq Nat \ {0}
    /\ AutoPorts \subseteq ListenPorts
    /\ Expiries \subseteq Nat /\ Limits \subseteq Nat
    /\ OrderExpiry \in Nat \ {0}
    /\ MaxTime \in Nat /\ MaxUsage \in Nat /\ MaxSubmissions \in Nat
    /\ Nobody \notin Customers \cup ServiceIds

VARIABLES
    now,        \* utc_now(), in the unit of durations and deadlines
    plans,      \* plan -> the terms on offer and whether it is on sale
    orders,     \* order id -> row
    services,   \* service_subscriptions id -> row
    ports,      \* ports id -> row
    usage       \* listen port -> sent + received bytes of traffic_totals

vars == <<now, plans, orders, services, ports, usage>>

Null == 0   \* a NULL expires_at or traffic_limit_bytes

OpenStatuses == {"pending_payment", "payment_submitted", "payment_rejected"}
TerminalStatuses == {"fulfilled", "cancelled", "expired"}
ReviewStatuses == {"submitted", "approved", "rejected"}

NoOrder == [status |-> "none"]
NoService == [customer |-> Nobody]
NoPort == [exists |-> FALSE]

Order == [status : OpenStatuses \cup TerminalStatuses,
          customer : Customers, plan : Plans,
          kind : {"new_purchase", "renewal"},
          service : ServiceIds \cup {Nobody},
          terms : Terms,                  \* the *_snapshot columns
          deadline : Nat,                 \* expires_at
          submissions : Seq(ReviewStatuses)]   \* review_status, oldest first
Service == [customer : Customers, plan : Plans, port : PortIds,
            source : OrderIds, latest : OrderIds]
Port == [exists : {TRUE}, listen : ListenPorts, enabled : BOOLEAN,
         expires : Nat, limit : Nat,
         customer : Customers \cup {Nobody}, service : ServiceIds \cup {Nobody}]

\* Types.  Every row is complete: the columns of each table hold what the schema allows.
TypeOK ==
    /\ now \in Nat \ {0}
    /\ plans \in [Plans -> [terms : Terms, enabled : BOOLEAN]]
    /\ orders \in [OrderIds -> Order \cup {NoOrder}]
    /\ services \in [ServiceIds -> Service \cup {NoService}]
    /\ ports \in [PortIds -> Port \cup {NoPort}]
    /\ usage \in [ListenPorts -> Nat]

IsOrder(o) == orders[o].status # "none"
IsService(s) == s \in ServiceIds /\ services[s].customer # Nobody

-----------------------------------------------------------------------------
(* Ports: status_payload and the queries the services make.                *)

Expired(row) == row.expires # Null /\ row.expires <= now

OverLimit(row, use) == row.limit # Null /\ use[row.listen] >= row.limit

PortStatus(row, use) ==
    CASE Expired(row) -> "expired"
      [] ~Expired(row) /\ ~row.enabled -> "disabled"
      [] ~Expired(row) /\ row.enabled /\ OverLimit(row, use) -> "throttled"
      [] OTHER -> "active"

Commercial(row) == row.customer # Nobody \/ row.service # Nobody

Taken(l) == \E p \in PortIds : ports[p].exists /\ ports[p].listen = l

\* allocate_listen_port_in_tx: the smallest number of the range no row holds.
Allocated(l) ==
    /\ l \in AutoPorts /\ ~Taken(l)
    /\ \A m \in AutoPorts : m < l => Taken(m)

\* Seeded fault: the clean-up does not spare customers' ports.
DeletableExpired(row) == row.exists /\ Expired(row)

\* cleanup_expired_ports_in_tx deletes these rows together with their traffic.
Deletable(row) == row.exists /\ Expired(row) /\ ~Commercial(row)

\* Seeded fault: a deleted row is only marked.
AutoStoppedMarking(table) ==
    [p \in PortIds |->
        IF Deletable(table[p]) THEN [table[p] EXCEPT !.exists = FALSE]
        ELSE IF table[p].exists /\ Expired(table[p])
        THEN [table[p] EXCEPT !.enabled = FALSE]
        ELSE table[p]]

\* disable_auto_stopped_ports_in_tx: delete, then switch off what has expired.
AutoStopped(table) ==
    [p \in PortIds |->
        IF Deletable(table[p]) THEN NoPort
        ELSE IF table[p].exists /\ Expired(table[p])
        THEN [table[p] EXCEPT !.enabled = FALSE]
        ELSE table[p]]

AutoStoppedUsage(table, use) ==
    [l \in ListenPorts |->
        IF \E p \in PortIds : Deletable(table[p]) /\ table[p].listen = l
        THEN 0 ELSE use[l]]

\* The end of every apply transaction: tidy the ports, render, reload, commit.
Apply(table, use) ==
    /\ ports' = AutoStopped(table)
    /\ usage' = AutoStoppedUsage(table, use)

\* Xray reports on the inbounds it serves: those of the enabled ports, which
\* the last apply rendered.  One sample adds a unit to some of them.
Serving == {ports[p].listen : p \in {q \in PortIds : ports[q].exists /\ ports[q].enabled}}

Sampled(S) ==
    [l \in ListenPorts |->
        IF l \in S /\ usage[l] < MaxUsage THEN usage[l] + 1 ELSE usage[l]]

\* Seeded fault: the counters survive a reset.
UsageKept(use, l) == use

\* reset_port_usage_in_tx, and the DELETE of a port's traffic rows.
UsageReset(use, l) == [use EXCEPT ![l] = 0]

-----------------------------------------------------------------------------
Init ==
    /\ now = 1
    /\ plans \in [Plans -> [terms : Terms, enabled : {TRUE}]]
    /\ orders = [o \in OrderIds |-> NoOrder]
    /\ services = [s \in ServiceIds |-> NoService]
    /\ ports = [p \in PortIds |-> NoPort]
    /\ usage = [l \in ListenPorts |-> 0]

Tick ==
    /\ now < MaxTime
    /\ now' = now + 1
    /\ UNCHANGED <<plans, orders, services, ports, usage>>

UpdatePlan(p, terms, enabled) ==
    /\ plans' = [plans EXCEPT ![p] = [terms |-> terms, enabled |-> enabled]]
    /\ UNCHANGED <<now, orders, services, ports, usage>>

-----------------------------------------------------------------------------
(* Orders.                                                                 *)

\* Seeded fault: an order under review lapses too.
LapsedAnyOpen(o) == orders[o].status \in OpenStatuses /\ orders[o].deadline <= now

Lapsed(o) ==
    /\ orders[o].status \in {"pending_payment", "payment_rejected"}
    /\ orders[o].deadline <= now

\* expire_pending_orders_in_tx opens every order transaction and query.
WithoutLapsed ==
    [o \in OrderIds |->
        IF Lapsed(o) THEN [orders[o] EXCEPT !.status = "expired"] ELSE orders[o]]

ExpirePendingOrders ==
    /\ orders' = WithoutLapsed
    /\ UNCHANGED <<now, plans, services, ports, usage>>

NewOrder(c, p, kind, s) ==
    [status |-> "pending_payment", customer |-> c, plan |-> p, kind |-> kind,
     service |-> s, terms |-> plans[p].terms, deadline |-> now + OrderExpiry,
     submissions |-> << >>]

CreateOrder(o, c, p) ==
    /\ ~IsOrder(o)
    /\ plans[p].enabled
    /\ orders' = [WithoutLapsed EXCEPT ![o] = NewOrder(c, p, "new_purchase", Nobody)]
    /\ UNCHANGED <<now, plans, services, ports, usage>>

RenewalAllowed(s) ==
    PortStatus(ports[services[s].port], usage) \in {"expired", "throttled"}

\* Seeded fault: an order sent back does not count as open.
HasPendingOrder(s) ==
    \E o \in OrderIds : /\ IsOrder(o) /\ ~Lapsed(o)
                        /\ orders[o].service = s
                        /\ orders[o].status \in {"pending_payment", "payment_submitted"}

HasOpenOrder(s) ==
    \E o \in OrderIds : /\ IsOrder(o) /\ ~Lapsed(o)
                        /\ orders[o].service = s
                        /\ orders[o].status \in OpenStatuses

CreateRenewal(o, s) ==
    /\ ~IsOrder(o)
    /\ IsService(s)
    /\ plans[services[s].plan].enabled
    /\ RenewalAllowed(s)
    /\ ~HasOpenOrder(s)
    /\ orders' = [WithoutLapsed EXCEPT ![o] =
                    NewOrder(services[s].customer, services[s].plan, "renewal", s)]
    /\ UNCHANGED <<now, plans, services, ports, usage>>

\* submit_order_payment_submission.
SubmitPayment(o) ==
    /\ orders[o].status \in {"pending_payment", "payment_rejected"}
    /\ ~Lapsed(o)
    /\ Len(orders[o].submissions) < MaxSubmissions
    /\ orders' = [WithoutLapsed EXCEPT
                    ![o].status = "payment_submitted",
                    ![o].submissions = Append(@, "submitted")]
    /\ UNCHANGED <<now, plans, services, ports, usage>>

\* Seeded fault: the oldest submission is marked instead of the latest.
ReviewedOldest(submissions, verdict) == [submissions EXCEPT ![1] = verdict]

\* mark_latest_payment_submission_reviewed_in_tx; it raises on an order
\* without a submission.
Reviewed(submissions, verdict) ==
    [submissions EXCEPT ![Len(submissions)] = verdict]

RejectOrder(o) ==
    /\ orders[o].status = "payment_submitted"
    /\ orders[o].submissions # << >>
    /\ orders' = [WithoutLapsed EXCEPT
                    ![o].status = "payment_rejected",
                    ![o].submissions = Reviewed(@, "rejected")]
    /\ UNCHANGED <<now, plans, services, ports, usage>>

\* Seeded fault: a delivered order can be cancelled.
CancelAnyOrder(o) ==
    /\ orders[o].status \in OpenStatuses \cup {"fulfilled"}
    /\ ~Lapsed(o)
    /\ orders' = [WithoutLapsed EXCEPT ![o].status = "cancelled"]
    /\ UNCHANGED <<now, plans, services, ports, usage>>

CancelOrder(o) ==
    /\ orders[o].status \in OpenStatuses
    /\ ~Lapsed(o)
    /\ orders' = [WithoutLapsed EXCEPT ![o].status = "cancelled"]
    /\ UNCHANGED <<now, plans, services, ports, usage>>

-----------------------------------------------------------------------------
(* fulfill_order: the traffic sample, then one transaction that delivers   *)
(* the service, approves the payment and applies the ports.                *)

Approved(o, s) ==
    [WithoutLapsed EXCEPT
        ![o].status = "fulfilled",
        ![o].service = s,
        ![o].submissions = Reviewed(@, "approved")]

\* Seeded fault: the plan's present terms instead of the order's snapshot.
SoldPortAtPresentTerms(o, s, l) ==
    LET terms == plans[orders[o].plan].terms
    IN  [exists |-> TRUE, listen |-> l, enabled |-> TRUE,
         expires |-> now + terms.duration, limit |-> terms.limit,
         customer |-> orders[o].customer, service |-> s]

SoldPort(o, s, l) ==
    [exists |-> TRUE, listen |-> l, enabled |-> TRUE,
     expires |-> now + orders[o].terms.duration, limit |-> orders[o].terms.limit,
     customer |-> orders[o].customer, service |-> s]

FulfillPurchase(o, s, p, l, S) ==
    /\ orders[o].status = "payment_submitted"
    /\ orders[o].kind = "new_purchase"
    /\ orders[o].submissions # << >>
    /\ ~IsService(s) /\ ~ports[p].exists
    /\ Allocated(l)
    /\ orders' = Approved(o, s)
    /\ services' = [services EXCEPT ![s] =
            [customer |-> orders[o].customer, plan |-> orders[o].plan,
             port |-> p, source |-> o, latest |-> o]]
    /\ Apply([ports EXCEPT ![p] = SoldPort(o, s, l)], Sampled(S))
    /\ UNCHANGED <<now, plans>>

FulfillRenewal(o, S) ==
    LET s == orders[o].service
        p == services[s].port
    IN  /\ orders[o].status = "payment_submitted"
        /\ orders[o].kind = "renewal"
        /\ orders[o].submissions # << >>
        /\ IsService(s) /\ services[s].customer = orders[o].customer
        /\ ports[p].exists
        /\ orders' = Approved(o, s)
        /\ services' = [services EXCEPT ![s].latest = o, ![s].plan = orders[o].plan]
        /\ Apply([ports EXCEPT ![p].expires = now + orders[o].terms.duration,
                               ![p].limit = orders[o].terms.limit,
                               ![p].enabled = TRUE],
                 UsageReset(Sampled(S), ports[p].listen))
        /\ UNCHANGED <<now, plans>>

-----------------------------------------------------------------------------
(* The administrator's operations on ports, each through apply_mutation.   *)

CreatePort(p, l, expires, limit, S) ==
    /\ ~ports[p].exists
    /\ ~Taken(l)
    /\ expires = Null \/ expires >= now
    /\ Apply([ports EXCEPT ![p] =
                [exists |-> TRUE, listen |-> l, enabled |-> TRUE,
                 expires |-> expires, limit |-> limit,
                 customer |-> Nobody, service |-> Nobody]],
             Sampled(S))
    /\ UNCHANGED <<now, plans, orders, services>>

\* update_port rewrites the row; traffic_totals stays under the old number.
UpdatePort(p, l, expires, limit, S) ==
    /\ ports[p].exists
    /\ l = ports[p].listen \/ ~Taken(l)
    /\ expires = Null \/ expires >= now
    /\ Apply([ports EXCEPT ![p].listen = l, ![p].expires = expires,
                           ![p].limit = limit],
             Sampled(S))
    /\ UNCHANGED <<now, plans, orders, services>>

TogglePort(p, S) ==
    /\ ports[p].exists
    /\ ports[p].enabled \/ ~Expired(ports[p])
    /\ Apply([ports EXCEPT ![p].enabled = ~@], Sampled(S))
    /\ UNCHANGED <<now, plans, orders, services>>

DeletePort(p, S) ==
    /\ ports[p].exists
    /\ ~Commercial(ports[p])
    /\ Apply([ports EXCEPT ![p] = NoPort],
             UsageReset(Sampled(S), ports[p].listen))
    /\ UNCHANGED <<now, plans, orders, services>>

ResetPortTraffic(p, S) ==
    /\ ports[p].exists
    /\ Apply(ports, UsageReset(Sampled(S), ports[p].listen))
    /\ UNCHANGED <<now, plans, orders, services>>

-----------------------------------------------------------------------------
(* The maintenance worker.                                                 *)

SyncTraffic(S) ==
    /\ usage' = Sampled(S)
    /\ UNCHANGED <<now, plans, orders, services, ports>>

DisableAutoStopped ==
    /\ Apply(ports, usage)
    /\ UNCHANGED <<now, plans, orders, services>>

-----------------------------------------------------------------------------
OrderStep ==
    \/ ExpirePendingOrders
    \/ \E o \in OrderIds :
        \/ \E c \in Customers, p \in Plans : CreateOrder(o, c, p)
        \/ \E s \in ServiceIds : CreateRenewal(o, s)
        \/ SubmitPayment(o)
        \/ RejectOrder(o)
        \/ CancelOrder(o)

FulfillStep ==
    \E o \in OrderIds, S \in SUBSET Serving :
        \/ \E s \in ServiceIds, p \in PortIds, l \in AutoPorts :
                FulfillPurchase(o, s, p, l, S)
        \/ FulfillRenewal(o, S)

PortStep ==
    \E p \in PortIds, S \in SUBSET Serving :
        \/ \E l \in ListenPorts, e \in Expiries, m \in Limits :
                CreatePort(p, l, e, m, S) \/ UpdatePort(p, l, e, m, S)
        \/ TogglePort(p, S)
        \/ DeletePort(p, S)
        \/ ResetPortTraffic(p, S)

Next ==
    \/ Tick
    \/ \E p \in Plans, t \in Terms, e \in BOOLEAN : UpdatePlan(p, t, e)
    \/ OrderStep
    \/ FulfillStep
    \/ PortStep
    \/ \E S \in SUBSET Serving : SyncTraffic(S)
    \/ DisableAutoStopped

Spec == Init /\ [][Next]_vars

-----------------------------------------------------------------------------
(* Safety.                                                                 *)

(* A sold port and its service name each other and the same customer, and  *)
(* a service never loses its port: neither delete_port nor the expiry      *)
(* clean-up may take it, whatever happened to the port since.              *)
ServicePortsPaired ==
    /\ \A s \in ServiceIds : IsService(s) =>
        LET row == ports[services[s].port]
        IN  row.exists /\ row.service = s /\ row.customer = services[s].customer
    /\ \A p \in PortIds : ports[p].exists /\ Commercial(ports[p]) =>
        /\ IsService(ports[p].service)
        /\ services[ports[p].service].port = p

(* The submissions of an order tell its story: every one but the last was  *)
(* rejected, the last is approved exactly when the order is delivered, and *)
(* an order under review or sent back shows just that.                     *)
ReviewsFollowTheOrder ==
    \A o \in OrderIds : IsOrder(o) =>
        LET subs == orders[o].submissions
            last == subs[Len(subs)]
        IN  /\ \A i \in 1..(Len(subs) - 1) : subs[i] = "rejected"
            /\ orders[o].status \in {"payment_submitted", "payment_rejected", "fulfilled"}
                => subs # << >>
            /\ orders[o].status = "payment_submitted" => last = "submitted"
            /\ orders[o].status = "payment_rejected" => last = "rejected"
            /\ orders[o].status = "fulfilled" => last = "approved"
            /\ subs # << >> /\ last = "approved" => orders[o].status = "fulfilled"

(* What a customer paid for is delivered, once: every fulfilled purchase   *)
(* has one service of its customer and plan, a service has one purchase    *)
(* behind it, and its latest order is a fulfilled one of its own.          *)
DeliveredOnce ==
    /\ \A s \in ServiceIds : IsService(s) =>
        LET source == orders[services[s].source]
            latest == orders[services[s].latest]
        IN  /\ source.status = "fulfilled" /\ source.kind = "new_purchase"
            /\ source.service = s
            /\ source.customer = services[s].customer
            /\ latest.status = "fulfilled" /\ latest.service = s
            /\ latest.plan = services[s].plan
    /\ \A o \in OrderIds :
        orders[o].status = "fulfilled" /\ orders[o].kind = "new_purchase" =>
            \E s \in ServiceIds : IsService(s) /\ services[s].source = o

(* A renewal is for a service the customer owns, on the plan that service  *)
(* runs, and a service never has two renewals waiting: fulfilling both     *)
(* would take the money twice for one period.                              *)
RenewalsOfOwnService ==
    \A o \in OrderIds :
        IsOrder(o) /\ orders[o].kind = "renewal" =>
            /\ IsService(orders[o].service)
            /\ services[orders[o].service].customer = orders[o].customer
            /\ services[orders[o].service].plan = orders[o].plan
            /\ orders[o].status \in OpenStatuses =>
                ~\E q \in OrderIds \ {o} :
                    /\ IsOrder(q) /\ orders[q].status \in OpenStatuses
                    /\ orders[q].service = orders[o].service

(* The states an order goes through.  An order under review leaves it only *)
(* by a decision, never by lapsing; what is settled stays settled.         *)
Successors(status) ==
    CASE status = "none" -> {"pending_payment"}
      [] status = "pending_payment" -> {"payment_submitted", "cancelled", "expired"}
      [] status = "payment_submitted" -> {"fulfilled", "payment_rejected", "cancelled"}
      [] status = "payment_rejected" -> {"payment_submitted", "cancelled", "expired"}
      [] OTHER -> {}

OrderLifecycle ==
    [][\A o \in OrderIds :
        orders'[o].status # orders[o].status =>
            orders'[o].status \in Successors(orders[o].status)]_vars

(* The customer gets what was on the order page: the step that delivers an *)
(* order gives its port exactly the terms the plan had when the order was  *)
(* placed, whatever the plan says by now.                                  *)
SoldAsOrdered ==
    [][\A o \in OrderIds :
        /\ IsOrder(o) => /\ orders'[o].terms = orders[o].terms
                         /\ orders'[o].customer = orders[o].customer
        /\ orders[o].status # "fulfilled" /\ orders'[o].status = "fulfilled" =>
            LET row == ports'[services'[orders'[o].service].port]
            IN  /\ row.expires = now + orders[o].terms.duration
                /\ row.limit = orders[o].terms.limit
                /\ row.customer = orders[o].customer]_vars

(* A fulfilled renewal leaves the service running: enabled, in date and    *)
(* under its limit, also when it lapsed, was throttled or switched off and *)
(* when a traffic sample arrives with the fulfilment.                      *)
RenewalRestoresService ==
    [][\A o \in OrderIds :
        /\ orders[o].status # "fulfilled" /\ orders'[o].status = "fulfilled"
        /\ orders[o].kind = "renewal"
        => PortStatus(ports'[services'[orders'[o].service].port], usage') = "active"]_vars

(* tests/test_commerce.py:235 asserts that the service of a purchase just  *)
(* fulfilled is "active".                                                  *)
PurchaseStartsActive ==
    [][\A o \in OrderIds :
        /\ orders[o].status # "fulfilled" /\ orders'[o].status = "fulfilled"
        /\ orders[o].kind = "new_purchase"
        => PortStatus(ports'[services'[orders'[o].service].port], usage') = "active"]_vars
=============================================================================
