--------------------------- MODULE CommerceProofs ---------------------------
(***************************************************************************)
(* What the commerce services guarantee for every number of customers,     *)
(* rows and ports: TypeOK first, then the invariants TLC checks on small    *)
(* instances.  Each proof has one step per action of Next.                 *)
(***************************************************************************)
EXTENDS Commerce, TLAPS

OrderTable == [OrderIds -> Order \cup {NoOrder}]
PortTable == [PortIds -> Port \cup {NoPort}]
Counters == [ListenPorts -> Nat]

-----------------------------------------------------------------------------
(* The tables.                                                             *)

(* A row of the orders table is a whole record, not a partial one.         *)
LEMMA OrderRow ==
    ASSUME TypeOK, NEW o \in OrderIds, IsOrder(o)
    PROVE  orders[o] \in Order
  BY DEF TypeOK, IsOrder, NoOrder

(* The same for services and ports.                                        *)
LEMMA ServiceRow ==
    ASSUME ConstantsAssumption, TypeOK, NEW s \in ServiceIds, IsService(s)
    PROVE  services[s] \in Service
  BY DEF TypeOK, IsService, NoService

LEMMA PortRow ==
    ASSUME NEW table \in PortTable, NEW p \in PortIds, table[p].exists
    PROVE  table[p] \in Port
  BY DEF PortTable, NoPort

(* expire_pending_orders_in_tx keeps the table well-formed and changes only *)
(* the status of the orders it lapses.                                      *)
LEMMA WithoutLapsedTable ==
    ASSUME TypeOK
    PROVE  /\ WithoutLapsed \in OrderTable
           /\ \A o \in OrderIds :
                /\ Lapsed(o) => /\ orders[o] \in Order
                                /\ WithoutLapsed[o] \in Order
                                /\ WithoutLapsed[o].status = "expired"
                                /\ WithoutLapsed[o].service = orders[o].service
                                /\ WithoutLapsed[o].kind = orders[o].kind
                                /\ WithoutLapsed[o].customer = orders[o].customer
                                /\ WithoutLapsed[o].plan = orders[o].plan
                                /\ WithoutLapsed[o].submissions = orders[o].submissions
                                /\ WithoutLapsed[o].terms = orders[o].terms
                /\ ~Lapsed(o) => WithoutLapsed[o] = orders[o]
<1>1. ASSUME NEW o \in OrderIds, Lapsed(o)
      PROVE  /\ orders[o] \in Order
             /\ [orders[o] EXCEPT !.status = "expired"] \in Order
  <2>1. IsOrder(o)
    BY <1>1 DEF Lapsed, IsOrder
  <2>2. orders[o] \in Order
    BY <2>1, OrderRow
  <2>. QED
    BY <2>2 DEF Order, TerminalStatuses
<1>2. WithoutLapsed \in OrderTable
  BY <1>1 DEF WithoutLapsed, OrderTable, TypeOK
<1>3. ASSUME NEW o \in OrderIds, Lapsed(o)
      PROVE  WithoutLapsed[o] = [orders[o] EXCEPT !.status = "expired"]
  BY <1>3 DEF WithoutLapsed
<1>4. ASSUME NEW o \in OrderIds, ~Lapsed(o)
      PROVE  WithoutLapsed[o] = orders[o]
  BY <1>4 DEF WithoutLapsed
<1>. QED
  BY <1>1, <1>2, <1>3, <1>4 DEF Order

(* disable_auto_stopped_ports_in_tx keeps the ports table well-formed.     *)
LEMMA AutoStoppedTable ==
    ASSUME NEW table \in PortTable
    PROVE  AutoStopped(table) \in PortTable
<1>1. ASSUME NEW p \in PortIds, table[p].exists
      PROVE  [table[p] EXCEPT !.enabled = FALSE] \in Port
  BY <1>1, PortRow DEF Port
<1>. QED
  BY <1>1 DEF AutoStopped, PortTable

LEMMA AutoStoppedCounters ==
    ASSUME NEW table, NEW use \in Counters
    PROVE  AutoStoppedUsage(table, use) \in Counters
  BY DEF AutoStoppedUsage, Counters

LEMMA SampledCounters ==
    ASSUME TypeOK, NEW S
    PROVE  Sampled(S) \in Counters
  BY DEF TypeOK, Sampled, Counters

LEMMA UsageResetCounters ==
    ASSUME NEW use \in Counters, NEW l
    PROVE  UsageReset(use, l) \in Counters
  BY DEF UsageReset, Counters

(* An apply of a well-formed table leaves well-formed tables.              *)
LEMMA ApplyTypes ==
    ASSUME NEW table \in PortTable, NEW use \in Counters, Apply(table, use)
    PROVE  ports' \in PortTable /\ usage' \in Counters
  BY AutoStoppedTable, AutoStoppedCounters DEF Apply

(* Reviewing an existing submission keeps the list a list.                 *)
LEMMA ReviewedList ==
    ASSUME NEW list \in Seq(ReviewStatuses), list # << >>,
           NEW verdict \in ReviewStatuses
    PROVE  /\ Reviewed(list, verdict) \in Seq(ReviewStatuses)
           /\ Len(Reviewed(list, verdict)) = Len(list)
           /\ Reviewed(list, verdict)[Len(list)] = verdict
           /\ \A i \in 1..(Len(list) - 1) : Reviewed(list, verdict)[i] = list[i]
           /\ Reviewed(list, verdict) # << >>
  BY DEF Reviewed

-----------------------------------------------------------------------------
(* Every table holds whole rows of the columns' types at all times: no     *)
(* operation of the services writes a partial row, whatever the bounds.    *)
THEOREM TypeCorrect == Spec => []TypeOK
<1>1. Init => TypeOK
  <2>. SUFFICES ASSUME Init PROVE TypeOK
    OBVIOUS
  <2>1. plans \in [Plans -> [terms : Terms, enabled : BOOLEAN]]
    BY DEF Init
  <2>2. /\ orders \in [OrderIds -> Order \cup {NoOrder}]
        /\ services \in [ServiceIds -> Service \cup {NoService}]
        /\ ports \in [PortIds -> Port \cup {NoPort}]
    BY DEF Init
  <2>. QED
    BY <2>1, <2>2 DEF Init, TypeOK
<1>2. TypeOK /\ [Next]_vars => TypeOK'
  <2>. SUFFICES ASSUME TypeOK, [Next]_vars
                PROVE  TypeOK'
    OBVIOUS
  <2>. USE ConstantsAssumption
  <2>0. /\ orders \in OrderTable /\ ports \in PortTable /\ usage \in Counters
        /\ WithoutLapsed \in OrderTable
    BY WithoutLapsedTable DEF TypeOK, OrderTable, PortTable, Counters
  <2>1. CASE Tick
    BY <2>1 DEF Tick, TypeOK
  <2>2. ASSUME NEW p \in Plans, NEW t \in Terms, NEW e \in BOOLEAN, UpdatePlan(p, t, e)
        PROVE  TypeOK'
    BY <2>2 DEF UpdatePlan, TypeOK
  <2>3. CASE OrderStep
    <3>. SUFFICES orders' \in OrderTable
      BY <2>3 DEF OrderStep, ExpirePendingOrders, CreateOrder, CreateRenewal, SubmitPayment,
                  RejectOrder, CancelOrder, TypeOK, OrderTable
    <3>1. CASE ExpirePendingOrders
      BY <3>1, <2>0 DEF ExpirePendingOrders
    <3>2. ASSUME NEW o \in OrderIds, NEW c \in Customers, NEW p \in Plans, CreateOrder(o, c, p)
          PROVE  orders' \in OrderTable
      <4>1. NewOrder(c, p, "new_purchase", Nobody) \in Order
        BY DEF NewOrder, Order, TypeOK, OpenStatuses
      <4>. QED
        BY <3>2, <4>1, <2>0 DEF CreateOrder, OrderTable
    <3>3. ASSUME NEW o \in OrderIds, NEW s \in ServiceIds, CreateRenewal(o, s)
          PROVE  orders' \in OrderTable
      <4>0. services[s] \in Service
        BY <3>3, ServiceRow DEF CreateRenewal
      <4>1. NewOrder(services[s].customer, services[s].plan, "renewal", s) \in Order
        BY <4>0 DEF NewOrder, Order, Service, TypeOK, OpenStatuses
      <4>. QED
        BY <3>3, <4>1, <2>0 DEF CreateRenewal, OrderTable
    <3>4. ASSUME NEW o \in OrderIds,
                 \/ SubmitPayment(o)
                 \/ RejectOrder(o)
                 \/ CancelOrder(o)
          PROVE  orders' \in OrderTable
      <4>1. IsOrder(o) /\ ~Lapsed(o)
        BY <3>4 DEF SubmitPayment, RejectOrder, CancelOrder, OpenStatuses, Lapsed, IsOrder
      <4>2. orders[o] \in Order /\ WithoutLapsed[o] = orders[o]
        BY <4>1, OrderRow, WithoutLapsedTable
      <4>3. CASE SubmitPayment(o)
        <5>0. Append(orders[o].submissions, "submitted") \in Seq(ReviewStatuses)
          BY <4>2 DEF Order, ReviewStatuses
        <5>1. [orders[o] EXCEPT !.status = "payment_submitted",
                                !.submissions = Append(@, "submitted")] \in Order
          BY <4>2, <5>0 DEF Order, OpenStatuses
        <5>2. orders' = [WithoutLapsed EXCEPT ![o] =
                 [orders[o] EXCEPT !.status = "payment_submitted",
                                   !.submissions = Append(@, "submitted")]]
          BY <4>3, <4>2, <2>0 DEF SubmitPayment, OrderTable
        <5>. QED
          BY <5>1, <5>2, <2>0 DEF OrderTable
      <4>4. CASE RejectOrder(o)
        <5>0. Reviewed(orders[o].submissions, "rejected") \in Seq(ReviewStatuses)
          BY <4>4, <4>2, ReviewedList DEF RejectOrder, Order, ReviewStatuses
        <5>1. [orders[o] EXCEPT !.status = "payment_rejected",
                                !.submissions = Reviewed(@, "rejected")] \in Order
          BY <4>2, <5>0 DEF Order, OpenStatuses
        <5>2. orders' = [WithoutLapsed EXCEPT ![o] =
                 [orders[o] EXCEPT !.status = "payment_rejected",
                                   !.submissions = Reviewed(@, "rejected")]]
          BY <4>4, <4>2, <2>0 DEF RejectOrder, OrderTable
        <5>. QED
          BY <5>1, <5>2, <2>0 DEF OrderTable
      <4>5. CASE CancelOrder(o)
        <5>1. [orders[o] EXCEPT !.status = "cancelled"] \in Order
          BY <4>2 DEF Order, TerminalStatuses
        <5>2. orders' = [WithoutLapsed EXCEPT ![o] = [orders[o] EXCEPT !.status = "cancelled"]]
          BY <4>5, <4>2, <2>0 DEF CancelOrder, OrderTable
        <5>. QED
          BY <5>1, <5>2, <2>0 DEF OrderTable
      <4>. QED
        BY <3>4, <4>3, <4>4, <4>5
    <3>. QED
      BY <2>3, <3>1, <3>2, <3>3, <3>4 DEF OrderStep
  <2>4. CASE FulfillStep
    <3>1. ASSUME NEW o \in OrderIds, NEW s \in ServiceIds,
                 orders[o].status = "payment_submitted", orders[o].submissions # << >>
          PROVE  /\ orders[o] \in Order
                 /\ Approved(o, s) \in OrderTable
      <4>1. IsOrder(o) /\ ~Lapsed(o)
        BY <3>1 DEF Lapsed, IsOrder
      <4>2. orders[o] \in Order /\ WithoutLapsed[o] = orders[o]
        BY <4>1, OrderRow, WithoutLapsedTable
      <4>3. Reviewed(orders[o].submissions, "approved") \in Seq(ReviewStatuses)
        BY <3>1, <4>2, ReviewedList DEF Order, ReviewStatuses
      <4>4. [orders[o] EXCEPT !.status = "fulfilled", !.service = s,
                              !.submissions = Reviewed(@, "approved")] \in Order
        BY <4>2, <4>3 DEF Order, TerminalStatuses
      <4>5. Approved(o, s) = [WithoutLapsed EXCEPT ![o] =
               [orders[o] EXCEPT !.status = "fulfilled", !.service = s,
                                 !.submissions = Reviewed(@, "approved")]]
        BY <4>2, <2>0 DEF Approved, OrderTable
      <4>. QED
        BY <4>2, <4>4, <4>5, <2>0 DEF OrderTable
    <3>2. ASSUME NEW o \in OrderIds, NEW S \in SUBSET Serving, NEW s \in ServiceIds,
                 NEW p \in PortIds, NEW l \in AutoPorts, FulfillPurchase(o, s, p, l, S)
          PROVE  TypeOK'
      <4>1. orders[o] \in Order /\ orders' \in OrderTable
        BY <3>1, <3>2 DEF FulfillPurchase
      <4>2. services' \in [ServiceIds -> Service \cup {NoService}]
        BY <3>2, <4>1 DEF FulfillPurchase, TypeOK, Order, Service
      <4>3. SoldPort(o, s, l) \in Port
        BY <4>1 DEF SoldPort, Port, Order, TypeOK
      <4>4. [ports EXCEPT ![p] = SoldPort(o, s, l)] \in PortTable
        BY <4>3, <2>0 DEF PortTable
      <4>5. ports' \in PortTable /\ usage' \in Counters
        BY <3>2, <4>4, SampledCounters, ApplyTypes DEF FulfillPurchase
      <4>. QED
        BY <3>2, <4>1, <4>2, <4>5 DEF FulfillPurchase, TypeOK, OrderTable, PortTable, Counters
    <3>3. ASSUME NEW o \in OrderIds, NEW S \in SUBSET Serving, FulfillRenewal(o, S)
          PROVE  TypeOK'
      <4>0. orders[o] \in Order
        BY <3>3, OrderRow DEF FulfillRenewal, IsOrder
      <4>. DEFINE s == orders[o].service
                  p == services[s].port
      <4>1. s \in ServiceIds /\ services[s] \in Service
        <5>1. IsService(s)
          BY <3>3 DEF FulfillRenewal
        <5>. QED
          BY <5>1, ServiceRow DEF IsService
      <4>2. orders' \in OrderTable
        BY <3>1, <3>3, <4>1 DEF FulfillRenewal
      <4>3. services' \in [ServiceIds -> Service \cup {NoService}]
        BY <3>3, <4>0, <4>1 DEF FulfillRenewal, TypeOK, Order, Service
      <4>4. p \in PortIds /\ ports[p] \in Port
        BY <3>3, <4>1, <2>0, PortRow DEF FulfillRenewal, Service
      <4>. DEFINE row == [ports[p] EXCEPT !.expires = now + orders[o].terms.duration,
                                          !.limit = orders[o].terms.limit, !.enabled = TRUE]
                  table == [ports EXCEPT ![p].expires = now + orders[o].terms.duration,
                                         ![p].limit = orders[o].terms.limit,
                                         ![p].enabled = TRUE]
      <4>5. row \in Port
        <5>1. orders[o].terms \in Terms /\ now \in Nat
          BY <4>0 DEF Order, TypeOK
        <5>2. now + orders[o].terms.duration \in Nat /\ orders[o].terms.limit \in Nat
          BY <5>1
        <5>. QED
          BY <4>4, <5>2 DEF Port
      <4>6. table = [ports EXCEPT ![p] = row]
        BY <4>4, <2>0 DEF PortTable
      <4>7. table \in PortTable
        BY <4>5, <4>6, <2>0 DEF PortTable
      <4>8. ports' \in PortTable /\ usage' \in Counters
        <5>1. UsageReset(Sampled(S), ports[p].listen) \in Counters
          BY SampledCounters, UsageResetCounters
        <5>2. Apply(table, UsageReset(Sampled(S), ports[p].listen))
          BY <3>3 DEF FulfillRenewal
        <5>. HIDE DEF table
        <5>. QED
          BY <4>7, <5>1, <5>2, ApplyTypes
      <4>. QED
        BY <3>3, <4>2, <4>3, <4>8 DEF FulfillRenewal, TypeOK, OrderTable, PortTable, Counters
    <3>. QED
      BY <2>4, <3>2, <3>3 DEF FulfillStep
  <2>5. CASE PortStep
    <3>1. PICK p \in PortIds, S \in SUBSET Serving :
            \/ \E l \in ListenPorts, e \in Expiries, m \in Limits :
                    CreatePort(p, l, e, m, S) \/ UpdatePort(p, l, e, m, S)
            \/ TogglePort(p, S)
            \/ DeletePort(p, S)
            \/ ResetPortTraffic(p, S)
      BY <2>5 DEF PortStep
    <3>0. UNCHANGED <<now, plans, orders, services>>
      BY <3>1 DEF CreatePort, UpdatePort, TogglePort, DeletePort, ResetPortTraffic
    <3>. SUFFICES ports' \in PortTable /\ usage' \in Counters
      BY <3>0 DEF TypeOK, PortTable, Counters
    <3>2. /\ Sampled(S) \in Counters
          /\ UsageReset(Sampled(S), ports[p].listen) \in Counters
      BY SampledCounters, UsageResetCounters
    <3>3. ASSUME NEW l \in ListenPorts, NEW e \in Expiries, NEW m \in Limits,
                 CreatePort(p, l, e, m, S)
          PROVE  ports' \in PortTable /\ usage' \in Counters
      <4>1. [exists |-> TRUE, listen |-> l, enabled |-> TRUE, expires |-> e, limit |-> m,
             customer |-> Nobody, service |-> Nobody] \in Port
        BY DEF Port
      <4>2. [ports EXCEPT ![p] = [exists |-> TRUE, listen |-> l, enabled |-> TRUE,
                 expires |-> e, limit |-> m, customer |-> Nobody, service |-> Nobody]]
            \in PortTable
        BY <4>1, <2>0 DEF PortTable
      <4>. QED
        BY <3>2, <3>3, <4>2, ApplyTypes DEF CreatePort
    <3>4. ASSUME NEW l \in ListenPorts, NEW e \in Expiries, NEW m \in Limits,
                 UpdatePort(p, l, e, m, S)
          PROVE  ports' \in PortTable /\ usage' \in Counters
      <4>0. ports[p] \in Port
        BY <3>4, <2>0, PortRow DEF UpdatePort
      <4>. DEFINE table == [ports EXCEPT ![p].listen = l, ![p].expires = e, ![p].limit = m]
      <4>1. [ports[p] EXCEPT !.listen = l, !.expires = e, !.limit = m] \in Port
        BY <4>0 DEF Port
      <4>2. table = [ports EXCEPT ![p] = [ports[p] EXCEPT !.listen = l, !.expires = e, !.limit = m]]
        BY <2>0 DEF PortTable
      <4>3. table \in PortTable
        BY <4>1, <4>2, <2>0 DEF PortTable
      <4>4. Apply(table, Sampled(S))
        BY <3>4 DEF UpdatePort
      <4>. HIDE DEF table
      <4>. QED
        BY <3>2, <4>3, <4>4, ApplyTypes
    <3>5. CASE TogglePort(p, S)
      <4>0. ports[p] \in Port
        BY <3>5, <2>0, PortRow DEF TogglePort
      <4>. DEFINE table == [ports EXCEPT ![p].enabled = ~@]
      <4>1. [ports[p] EXCEPT !.enabled = ~@] \in Port
        BY <4>0 DEF Port
      <4>2. table = [ports EXCEPT ![p] = [ports[p] EXCEPT !.enabled = ~@]]
        BY <2>0 DEF PortTable
      <4>3. table \in PortTable
        BY <4>1, <4>2, <2>0 DEF PortTable
      <4>4. Apply(table, Sampled(S))
        BY <3>5 DEF TogglePort
      <4>. HIDE DEF table
      <4>. QED
        BY <3>2, <4>3, <4>4, ApplyTypes
    <3>6. CASE DeletePort(p, S)
      <4>1. [ports EXCEPT ![p] = NoPort] \in PortTable
        BY <2>0 DEF PortTable
      <4>. QED
        BY <3>6, <3>2, <4>1, ApplyTypes DEF DeletePort
    <3>7. CASE ResetPortTraffic(p, S)
      BY <3>7, <3>2, <2>0, ApplyTypes DEF ResetPortTraffic
    <3>. QED
      BY <3>1, <3>3, <3>4, <3>5, <3>6, <3>7
  <2>6. ASSUME NEW S \in SUBSET Serving, SyncTraffic(S)
        PROVE  TypeOK'
    BY <2>6, SampledCounters DEF SyncTraffic, TypeOK, Counters
  <2>7. CASE DisableAutoStopped
    <3>1. ports' \in PortTable /\ usage' \in Counters
      BY <2>7, <2>0, ApplyTypes DEF DisableAutoStopped
    <3>. QED
      BY <2>7, <3>1 DEF DisableAutoStopped, TypeOK, PortTable, Counters
  <2>8. CASE UNCHANGED vars
    BY <2>8 DEF vars, TypeOK
  <2>. QED
    BY <2>1, <2>2, <2>3, <2>4, <2>5, <2>6, <2>7, <2>8 DEF Next
<1>. QED
  BY <1>1, <1>2, PTL DEF Spec
-----------------------------------------------------------------------------
(* Services and the ports sold for them.                                   *)

Paired(svcs, table) ==
    /\ \A s \in ServiceIds : svcs[s].customer # Nobody =>
        /\ table[svcs[s].port].exists
        /\ table[svcs[s].port].service = s
        /\ table[svcs[s].port].customer = svcs[s].customer
    /\ \A p \in PortIds : table[p].exists /\ Commercial(table[p]) =>
        /\ table[p].service \in ServiceIds
        /\ svcs[table[p].service].customer # Nobody
        /\ svcs[table[p].service].port = p

LEMMA PairedMeaning == ServicePortsPaired <=> Paired(services, ports)
  BY DEF ServicePortsPaired, Paired, IsService

(* The clean-up of an apply deletes no customer's port and hands none over. *)
LEMMA ApplyKeepsOwners ==
    ASSUME NEW table \in PortTable, NEW use, Apply(table, use), NEW p \in PortIds
    PROVE  /\ ports'[p].exists => /\ table[p].exists
                                  /\ ports'[p].customer = table[p].customer
                                  /\ ports'[p].service = table[p].service
                                  /\ ports'[p].listen = table[p].listen
           /\ table[p].exists /\ Commercial(table[p]) => ports'[p].exists
<1>1. ports'[p] = IF Deletable(table[p]) THEN NoPort
                  ELSE IF table[p].exists /\ Expired(table[p])
                  THEN [table[p] EXCEPT !.enabled = FALSE]
                  ELSE table[p]
  BY DEF Apply, AutoStopped
<1>2. CASE Deletable(table[p])
  BY <1>1, <1>2 DEF Deletable, NoPort
<1>3. CASE ~Deletable(table[p]) /\ table[p].exists
  BY <1>1, <1>3, PortRow DEF Port
<1>4. CASE ~Deletable(table[p]) /\ ~table[p].exists
  BY <1>1, <1>4
<1>. QED
  BY <1>2, <1>3, <1>4

LEMMA ApplyKeepsPairs ==
    ASSUME NEW svcs \in [ServiceIds -> Service \cup {NoService}],
           NEW table \in PortTable, NEW use, Apply(table, use), Paired(svcs, table),
           ConstantsAssumption
    PROVE  Paired(svcs, ports')
<1>1. ASSUME NEW s \in ServiceIds, svcs[s].customer # Nobody
      PROVE  /\ ports'[svcs[s].port].exists
             /\ ports'[svcs[s].port].service = s
             /\ ports'[svcs[s].port].customer = svcs[s].customer
  <2>1. svcs[s] \in Service
    BY <1>1 DEF NoService
  <2>2. svcs[s].port \in PortIds
    BY <2>1 DEF Service
  <2>3. table[svcs[s].port].exists /\ Commercial(table[svcs[s].port])
    BY <1>1 DEF Paired, Commercial
  <2>. QED
    BY <1>1, <2>2, <2>3, ApplyKeepsOwners DEF Paired
<1>2. ASSUME NEW p \in PortIds, ports'[p].exists, Commercial(ports'[p])
      PROVE  /\ ports'[p].service \in ServiceIds
             /\ svcs[ports'[p].service].customer # Nobody
             /\ svcs[ports'[p].service].port = p
  BY <1>2, ApplyKeepsOwners DEF Paired, Commercial
<1>. QED
  BY <1>1, <1>2 DEF Paired

(* A customer's port is the port of that customer's service, and a service  *)
(* always has its port: no order of fulfilments, renewals, clean-ups,       *)
(* administrator edits and deletions separates them.                        *)
THEOREM ServicesKeepTheirPorts == Spec => []ServicePortsPaired
<1>1. Init => ServicePortsPaired
  BY DEF Init, ServicePortsPaired, IsService, NoService, NoPort
<1>2. TypeOK /\ ServicePortsPaired /\ [Next]_vars => ServicePortsPaired'
  <2>. SUFFICES ASSUME TypeOK, ServicePortsPaired, [Next]_vars
                PROVE  ServicePortsPaired'
    OBVIOUS
  <2>. USE ConstantsAssumption
  <2>0. /\ services \in [ServiceIds -> Service \cup {NoService}]
        /\ ports \in PortTable
        /\ Paired(services, ports)
    BY PairedMeaning DEF TypeOK, PortTable
  <2>. SUFFICES Paired(services', ports')
    BY DEF ServicePortsPaired, Paired, IsService
  <2>1. ASSUME UNCHANGED <<services, ports>>
        PROVE  Paired(services', ports')
    BY <2>0, <2>1
  <2>2. ASSUME NEW table \in PortTable, NEW use, Apply(table, use),
               services' = services, Paired(services, table)
        PROVE  Paired(services', ports')
    BY <2>0, <2>2, ApplyKeepsPairs
  \* A row whose owner columns are untouched.
  <2>3. ASSUME NEW p \in PortIds, NEW row,
               row.exists = ports[p].exists,
               row.customer = ports[p].customer, row.service = ports[p].service
        PROVE  Paired(services, [ports EXCEPT ![p] = row])
    <3>. DEFINE table == [ports EXCEPT ![p] = row]
    <3>1. \A q \in PortIds : /\ table[q].exists = ports[q].exists
                             /\ table[q].customer = ports[q].customer
                             /\ table[q].service = ports[q].service
      BY <2>0, <2>3 DEF PortTable
    <3>2. ASSUME NEW s \in ServiceIds, services[s].customer # Nobody
          PROVE  services[s].port \in PortIds
      BY <3>2, ServiceRow DEF IsService, Service
    <3>3. Paired(services, table)
      <4>. HIDE DEF table
      <4>. QED
        BY <2>0, <3>1, <3>2 DEF Paired, Commercial
    <3>. QED
      BY <3>3
  <2>4. CASE FulfillStep
    <3>1. ASSUME NEW o \in OrderIds, NEW S \in SUBSET Serving, NEW s \in ServiceIds,
                 NEW p \in PortIds, NEW l \in AutoPorts, FulfillPurchase(o, s, p, l, S)
          PROVE  Paired(services', ports')
      <4>. DEFINE table == [ports EXCEPT ![p] = SoldPort(o, s, l)]
                  row == [customer |-> orders[o].customer, plan |-> orders[o].plan,
                          port |-> p, source |-> o, latest |-> o]
      <4>1. orders[o] \in Order
        BY <3>1, OrderRow DEF FulfillPurchase, IsOrder
      <4>2. row \in Service /\ row.customer # Nobody
        BY <4>1 DEF Service, Order
      <4>3. SoldPort(o, s, l) \in Port
        <5>1. orders[o].terms \in Terms /\ now \in Nat
          BY <4>1 DEF Order, TypeOK
        <5>2. now + orders[o].terms.duration \in Nat /\ orders[o].terms.limit \in Nat
          BY <5>1
        <5>. QED
          BY <4>1, <5>2 DEF SoldPort, Port, Order
      <4>4. table \in PortTable
        BY <4>3, <2>0 DEF PortTable
      <4>5. /\ services' = [services EXCEPT ![s] = row]
            /\ services' \in [ServiceIds -> Service \cup {NoService}]
            /\ ~ports[p].exists
            /\ services[s].customer = Nobody
            /\ Apply(table, Sampled(S))
        BY <3>1, <4>2, <2>0 DEF FulfillPurchase, IsService
      <4>6. table[p].exists /\ table[p].service = s /\ table[p].customer = row.customer
        BY <2>0 DEF SoldPort, PortTable
      <4>7. \A q \in PortIds : q # p => table[q] = ports[q]
        BY <2>0 DEF PortTable
      <4>8. Paired(services', table)
        <5>1. ASSUME NEW t \in ServiceIds, services'[t].customer # Nobody
              PROVE  /\ table[services'[t].port].exists
                     /\ table[services'[t].port].service = t
                     /\ table[services'[t].port].customer = services'[t].customer
          <6>1. CASE t = s
            BY <6>1, <4>5, <4>6, <2>0
          <6>2. CASE t # s
            <7>1. services'[t] = services[t] /\ services[t] \in Service
              BY <6>2, <4>5, <2>0, <5>1 DEF NoService
            <7>2. ports[services[t].port].exists /\ services[t].port \in PortIds
              BY <7>1, <5>1, <2>0 DEF Paired, Service
            <7>. QED
              BY <7>1, <7>2, <5>1, <4>5, <4>7, <2>0 DEF Paired
          <6>. QED
            BY <6>1, <6>2
        <5>2. ASSUME NEW q \in PortIds, table[q].exists, Commercial(table[q])
              PROVE  /\ table[q].service \in ServiceIds
                     /\ services'[table[q].service].customer # Nobody
                     /\ services'[table[q].service].port = q
          <6>1. CASE q = p
            BY <6>1, <4>5, <4>6, <4>2, <2>0
          <6>2. CASE q # p
            <7>1. /\ table[q] = ports[q]
                  /\ ports[q].service \in ServiceIds
                  /\ services[ports[q].service].customer # Nobody
                  /\ services[ports[q].service].port = q
              BY <6>2, <5>2, <4>7, <2>0 DEF Paired
            <7>. QED
              BY <7>1, <4>5, <2>0
          <6>. QED
            BY <6>1, <6>2
        <5>. HIDE DEF table
        <5>. QED
          BY <5>1, <5>2 DEF Paired
      <4>. HIDE DEF table
      <4>. QED
        BY <4>4, <4>5, <4>8, ApplyKeepsPairs
    <3>2. ASSUME NEW o \in OrderIds, NEW S \in SUBSET Serving, FulfillRenewal(o, S)
          PROVE  Paired(services', ports')
      <4>. DEFINE s == orders[o].service
                  p == services[s].port
                  row == [ports[p] EXCEPT !.expires = now + orders[o].terms.duration,
                                          !.limit = orders[o].terms.limit, !.enabled = TRUE]
                  table == [ports EXCEPT ![p].expires = now + orders[o].terms.duration,
                                         ![p].limit = orders[o].terms.limit,
                                         ![p].enabled = TRUE]
                  svc == [services[s] EXCEPT !.latest = o, !.plan = orders[o].plan]
      <4>0. orders[o] \in Order
        BY <3>2, OrderRow DEF FulfillRenewal, IsOrder
      <4>1. s \in ServiceIds /\ services[s] \in Service /\ services[s].customer # Nobody
        BY <3>2, ServiceRow DEF FulfillRenewal, IsService
      <4>2. p \in PortIds /\ ports[p] \in Port
        BY <3>2, <4>1, <2>0, PortRow DEF FulfillRenewal, Service
      <4>3. row \in Port /\ row.exists = ports[p].exists
            /\ row.customer = ports[p].customer /\ row.service = ports[p].service
        <5>1. orders[o].terms \in Terms /\ now \in Nat
          BY <4>0 DEF Order, TypeOK
        <5>2. now + orders[o].terms.duration \in Nat /\ orders[o].terms.limit \in Nat
          BY <5>1
        <5>. QED
          BY <4>2, <5>2 DEF Port
      <4>4. table = [ports EXCEPT ![p] = row]
        BY <4>2, <2>0 DEF PortTable
      <4>5. table \in PortTable
        BY <4>3, <4>4, <2>0 DEF PortTable
      <4>6. Paired(services, table)
        <5>. HIDE DEF row, p
        <5>. QED
          BY <2>3, <4>2, <4>3, <4>4
      <4>7. /\ services' = [services EXCEPT ![s] = svc]
            /\ svc \in Service
            /\ svc.customer = services[s].customer /\ svc.port = services[s].port
        <5>1. services' = [services EXCEPT ![s].latest = o, ![s].plan = orders[o].plan]
          BY <3>2 DEF FulfillRenewal
        <5>2. [services EXCEPT ![s].latest = o, ![s].plan = orders[o].plan]
                = [services EXCEPT ![s] = svc]
          BY <4>1, <2>0
        <5>. QED
          BY <5>1, <5>2, <4>0, <4>1 DEF Service, Order
      <4>8. \A t \in ServiceIds : /\ services'[t].customer = services[t].customer
                                  /\ services'[t].port = services[t].port
        <5>. HIDE DEF svc, s
        <5>. QED
          BY <4>1, <4>7, <2>0
      <4>9. services' \in [ServiceIds -> Service \cup {NoService}] /\ Paired(services', table)
        <5>. HIDE DEF svc, s, table
        <5>. QED
          BY <4>1, <4>6, <4>7, <4>8, <2>0 DEF Paired
      <4>10. Apply(table, UsageReset(Sampled(S), ports[p].listen))
        BY <3>2 DEF FulfillRenewal
      <4>. HIDE DEF table
      <4>. QED
        BY <4>5, <4>9, <4>10, ApplyKeepsPairs
    <3>. QED
      BY <2>4, <3>1, <3>2 DEF FulfillStep
  <2>5. CASE PortStep
    <3>1. PICK p \in PortIds, S \in SUBSET Serving :
            \/ \E l \in ListenPorts, e \in Expiries, m \in Limits :
                    CreatePort(p, l, e, m, S) \/ UpdatePort(p, l, e, m, S)
            \/ TogglePort(p, S)
            \/ DeletePort(p, S)
            \/ ResetPortTraffic(p, S)
      BY <2>5 DEF PortStep
    <3>2. services' = services
      BY <3>1 DEF CreatePort, UpdatePort, TogglePort, DeletePort, ResetPortTraffic
    \* No service points at a port that is absent or not a customer's.
    <3>3. ASSUME ~ports[p].exists \/ ~Commercial(ports[p]),
                 NEW row \in Port \cup {NoPort},
                 row.exists => ~Commercial(row)
          PROVE  Paired(services, [ports EXCEPT ![p] = row])
      <4>. DEFINE table == [ports EXCEPT ![p] = row]
      <4>1. table[p] = row /\ \A q \in PortIds : q # p => table[q] = ports[q]
        BY <2>0 DEF PortTable
      <4>2. ASSUME NEW s \in ServiceIds, services[s].customer # Nobody
            PROVE  services[s].port \in PortIds /\ services[s].port # p
        BY <4>2, <3>3, <2>0, ServiceRow DEF IsService, Service, Paired, Commercial
      <4>. HIDE DEF table
      <4>. QED
        BY <2>0, <3>3, <4>1, <4>2 DEF Paired, Commercial
    <3>4. ASSUME NEW l \in ListenPorts, NEW e \in Expiries, NEW m \in Limits,
                 CreatePort(p, l, e, m, S)
          PROVE  Paired(services', ports')
      <4>. DEFINE row == [exists |-> TRUE, listen |-> l, enabled |-> TRUE, expires |-> e,
                          limit |-> m, customer |-> Nobody, service |-> Nobody]
      <4>1. row \in Port /\ ~Commercial(row)
        BY DEF Port, Commercial
      <4>2. [ports EXCEPT ![p] = row] \in PortTable
        BY <4>1, <2>0 DEF PortTable
      <4>3. ~ports[p].exists /\ Apply([ports EXCEPT ![p] = row], Sampled(S))
        BY <3>4 DEF CreatePort
      <4>. HIDE DEF row
      <4>. QED
        BY <3>2, <3>3, <4>1, <4>2, <4>3, <2>2
    <3>5. ASSUME NEW l \in ListenPorts, NEW e \in Expiries, NEW m \in Limits,
                 UpdatePort(p, l, e, m, S)
          PROVE  Paired(services', ports')
      <4>. DEFINE row == [ports[p] EXCEPT !.listen = l, !.expires = e, !.limit = m]
      <4>0. ports[p] \in Port
        BY <3>5, <2>0, PortRow DEF UpdatePort
      <4>1. row \in Port /\ row.exists = ports[p].exists
            /\ row.customer = ports[p].customer /\ row.service = ports[p].service
        BY <4>0 DEF Port
      <4>2. [ports EXCEPT ![p].listen = l, ![p].expires = e, ![p].limit = m]
              = [ports EXCEPT ![p] = row]
        BY <2>0 DEF PortTable
      <4>3. [ports EXCEPT ![p] = row] \in PortTable
        BY <4>1, <2>0 DEF PortTable
      <4>4. Apply([ports EXCEPT ![p] = row], Sampled(S))
        BY <3>5, <4>2 DEF UpdatePort
      <4>. HIDE DEF row
      <4>. QED
        BY <3>2, <4>1, <4>3, <4>4, <2>2, <2>3
    <3>6. CASE TogglePort(p, S)
      <4>. DEFINE row == [ports[p] EXCEPT !.enabled = ~@]
      <4>0. ports[p] \in Port
        BY <3>6, <2>0, PortRow DEF TogglePort
      <4>1. row \in Port /\ row.exists = ports[p].exists
            /\ row.customer = ports[p].customer /\ row.service = ports[p].service
        BY <4>0 DEF Port
      <4>2. [ports EXCEPT ![p].enabled = ~@] = [ports EXCEPT ![p] = row]
        BY <2>0 DEF PortTable
      <4>3. [ports EXCEPT ![p] = row] \in PortTable
        BY <4>1, <2>0 DEF PortTable
      <4>4. Apply([ports EXCEPT ![p] = row], Sampled(S))
        BY <3>6, <4>2 DEF TogglePort
      <4>. HIDE DEF row
      <4>. QED
        BY <3>2, <4>1, <4>3, <4>4, <2>2, <2>3
    <3>7. CASE DeletePort(p, S)
      <4>1. [ports EXCEPT ![p] = NoPort] \in PortTable
        BY <2>0 DEF PortTable
      <4>2. Paired(services, [ports EXCEPT ![p] = NoPort])
        BY <3>7, <3>3 DEF DeletePort, NoPort
      <4>3. Apply([ports EXCEPT ![p] = NoPort], UsageReset(Sampled(S), ports[p].listen))
        BY <3>7 DEF DeletePort
      <4>. QED
        BY <3>2, <4>1, <4>2, <4>3, <2>2
    <3>8. CASE ResetPortTraffic(p, S)
      BY <3>8, <3>2, <2>0, <2>2 DEF ResetPortTraffic
    <3>. QED
      BY <3>1, <3>4, <3>5, <3>6, <3>7, <3>8
  <2>6. CASE DisableAutoStopped
    BY <2>6, <2>0, <2>2 DEF DisableAutoStopped
  <2>7. CASE \/ Tick \/ OrderStep \/ UNCHANGED vars
             \/ \E p \in Plans, t \in Terms, e \in BOOLEAN : UpdatePlan(p, t, e)
             \/ \E S \in SUBSET Serving : SyncTraffic(S)
    <3>1. UNCHANGED <<services, ports>>
      BY <2>7 DEF Tick, OrderStep, UpdatePlan, SyncTraffic, ExpirePendingOrders, CreateOrder,
                  CreateRenewal, SubmitPayment, RejectOrder, CancelOrder, vars
    <3>. QED
      BY <3>1, <2>1
  <2>. QED
    BY <2>4, <2>5, <2>6, <2>7 DEF Next
<1>. QED
  BY <1>1, <1>2, TypeCorrect, PTL DEF Spec
-----------------------------------------------------------------------------
(* The life of an order.                                                   *)

(* What a method does to the one order it is about.                        *)
Created(o) ==
    /\ ~IsOrder(o)
    /\ \E c \in Customers, p \in Plans :
        \/ orders'[o] = NewOrder(c, p, "new_purchase", Nobody)
        \/ \E s \in ServiceIds :
            /\ IsService(s) /\ ~HasOpenOrder(s)
            /\ c = services[s].customer /\ p = services[s].plan
            /\ orders'[o] = NewOrder(c, p, "renewal", s)
Paid(o) ==
    /\ orders[o].status \in {"pending_payment", "payment_rejected"}
    /\ orders'[o] = [orders[o] EXCEPT !.status = "payment_submitted",
                                      !.submissions = Append(@, "submitted")]
SentBack(o) ==
    /\ orders[o].status = "payment_submitted" /\ orders[o].submissions # << >>
    /\ orders'[o] = [orders[o] EXCEPT !.status = "payment_rejected",
                                      !.submissions = Reviewed(@, "rejected")]
Cancelled(o) ==
    /\ orders[o].status \in OpenStatuses
    /\ orders'[o] = [orders[o] EXCEPT !.status = "cancelled"]
Delivered(o) ==
    /\ orders[o].status = "payment_submitted" /\ orders[o].submissions # << >>
    /\ \E s \in ServiceIds :
        /\ orders[o].kind = "renewal" => s = orders[o].service
        /\ orders'[o] = [orders[o] EXCEPT !.status = "fulfilled", !.service = s,
                                          !.submissions = Reviewed(@, "approved")]

(* A transaction is about one order at most; the others lapse or stay.     *)
OrderAbout(o) ==
    /\ \A q \in OrderIds \ {o} : orders'[q] = WithoutLapsed[q]
    /\ Created(o) \/ Paid(o) \/ SentBack(o) \/ Cancelled(o)
AboutOne(o) ==
    /\ \A q \in OrderIds \ {o} : orders'[q] = WithoutLapsed[q]
    /\ Created(o) \/ Paid(o) \/ SentBack(o) \/ Cancelled(o) \/ Delivered(o)

(* What was just placed awaits its payment: a purchase without a service,  *)
(* or a renewal of a service for which no other order is open.             *)
LEMMA JustPlaced ==
    ASSUME NEW o \in OrderIds, Created(o)
    PROVE  /\ ~IsOrder(o) /\ IsOrder(o)'
           /\ orders'[o].status = "pending_payment" /\ orders'[o].submissions = << >>
           /\ \/ orders'[o].kind = "new_purchase" /\ orders'[o].service = Nobody
              \/ /\ orders'[o].kind = "renewal" /\ orders'[o].service \in ServiceIds
                 /\ IsService(orders'[o].service) /\ ~HasOpenOrder(orders'[o].service)
                 /\ orders'[o].customer = services[orders'[o].service].customer
                 /\ orders'[o].plan = services[orders'[o].service].plan
<1>1. PICK c \in Customers, p \in Plans :
        \/ orders'[o] = NewOrder(c, p, "new_purchase", Nobody)
        \/ \E s \in ServiceIds :
            /\ IsService(s) /\ ~HasOpenOrder(s)
            /\ c = services[s].customer /\ p = services[s].plan
            /\ orders'[o] = NewOrder(c, p, "renewal", s)
  BY DEF Created
<1>2. ASSUME NEW kind, NEW s, orders'[o] = NewOrder(c, p, kind, s)
      PROVE  /\ orders'[o].status = "pending_payment" /\ orders'[o].submissions = << >>
             /\ orders'[o].kind = kind /\ orders'[o].service = s
             /\ orders'[o].customer = c /\ orders'[o].plan = p
  BY <1>2 DEF NewOrder
<1>3. CASE orders'[o] = NewOrder(c, p, "new_purchase", Nobody)
  BY <1>2, <1>3 DEF Created, IsOrder
<1>4. ASSUME NEW s \in ServiceIds, IsService(s), ~HasOpenOrder(s),
             c = services[s].customer, p = services[s].plan,
             orders'[o] = NewOrder(c, p, "renewal", s)
      PROVE  /\ orders'[o].status = "pending_payment" /\ orders'[o].submissions = << >>
             /\ orders'[o].kind = "renewal" /\ orders'[o].service = s
             /\ orders'[o].customer = c /\ orders'[o].plan = p
  BY <1>2, <1>4
<1>. QED
  BY <1>1, <1>3, <1>4 DEF Created, IsOrder

(* Writing one row of the table leaves the others to the lapsing.          *)
LEMMA OneRowWritten ==
    ASSUME TypeOK, NEW o \in OrderIds, NEW row, orders' = [WithoutLapsed EXCEPT ![o] = row]
    PROVE  orders'[o] = row /\ \A q \in OrderIds \ {o} : orders'[q] = WithoutLapsed[q]
  BY WithoutLapsedTable DEF OrderTable

LEMMA OrderStepAboutOne ==
    ASSUME TypeOK, OrderStep
    PROVE  orders' = WithoutLapsed \/ \E o \in OrderIds : OrderAbout(o)
<1>. USE ConstantsAssumption
<1>1. CASE ExpirePendingOrders
  BY <1>1 DEF ExpirePendingOrders
<1>2. ASSUME NEW o \in OrderIds, NEW c \in Customers, NEW p \in Plans, CreateOrder(o, c, p)
      PROVE  OrderAbout(o)
  BY <1>2, OneRowWritten DEF CreateOrder, OrderAbout, Created
<1>3. ASSUME NEW o \in OrderIds, NEW s \in ServiceIds, CreateRenewal(o, s)
      PROVE  OrderAbout(o)
  <2>. DEFINE row == NewOrder(services[s].customer, services[s].plan, "renewal", s)
  <2>1. services[s].customer \in Customers /\ services[s].plan \in Plans
    BY <1>3, ServiceRow DEF CreateRenewal, Service
  <2>2. orders' = [WithoutLapsed EXCEPT ![o] = row]
    BY <1>3 DEF CreateRenewal
  <2>3. orders'[o] = row /\ \A q \in OrderIds \ {o} : orders'[q] = WithoutLapsed[q]
    <3>. HIDE DEF row
    <3>. QED
      BY <2>2, OneRowWritten
  <2>4. Created(o)
    BY <1>3, <2>1, <2>3 DEF CreateRenewal, Created
  <2>. QED
    BY <2>3, <2>4 DEF OrderAbout
<1>4. ASSUME NEW o \in OrderIds, ~Lapsed(o) PROVE WithoutLapsed[o] = orders[o]
  BY <1>4, WithoutLapsedTable
<1>5. ASSUME NEW o \in OrderIds, SubmitPayment(o)
      PROVE  OrderAbout(o)
  <2>1. orders' = [WithoutLapsed EXCEPT
                    ![o] = [orders[o] EXCEPT !.status = "payment_submitted",
                                             !.submissions = Append(@, "submitted")]]
    BY <1>4, <1>5, OrderRow, WithoutLapsedTable DEF SubmitPayment, OrderTable, IsOrder, Order
  <2>. QED
    BY <1>5, <2>1, OneRowWritten DEF SubmitPayment, OrderAbout, Paid
<1>6. ASSUME NEW o \in OrderIds, RejectOrder(o)
      PROVE  OrderAbout(o)
  <2>1. orders' = [WithoutLapsed EXCEPT
                    ![o] = [orders[o] EXCEPT !.status = "payment_rejected",
                                             !.submissions = Reviewed(@, "rejected")]]
    BY <1>4, <1>6, OrderRow, WithoutLapsedTable DEF RejectOrder, OrderTable, IsOrder, Order, Lapsed
  <2>. QED
    BY <1>6, <2>1, OneRowWritten DEF RejectOrder, OrderAbout, SentBack
<1>7. ASSUME NEW o \in OrderIds, CancelOrder(o)
      PROVE  OrderAbout(o)
  <2>1. orders' = [WithoutLapsed EXCEPT ![o] = [orders[o] EXCEPT !.status = "cancelled"]]
    BY <1>4, <1>7, OrderRow, WithoutLapsedTable DEF CancelOrder, OrderTable, IsOrder, Order
  <2>. QED
    BY <1>7, <2>1, OneRowWritten DEF CancelOrder, OrderAbout, Cancelled
<1>. QED
  BY <1>1, <1>2, <1>3, <1>5, <1>6, <1>7 DEF OrderStep

LEMMA FulfillStepAboutOne ==
    ASSUME TypeOK, FulfillStep
    PROVE  \E o \in OrderIds : AboutOne(o)
<1>. USE ConstantsAssumption
<1>1. ASSUME NEW o \in OrderIds, NEW s \in ServiceIds, orders' = Approved(o, s),
             orders[o].status = "payment_submitted", orders[o].submissions # << >>,
             orders[o].kind = "renewal" => s = orders[o].service
      PROVE  AboutOne(o)
  <2>1. WithoutLapsed[o] = orders[o] /\ orders[o] \in Order
    BY <1>1, OrderRow, WithoutLapsedTable DEF Lapsed, IsOrder
  <2>2. orders' = [WithoutLapsed EXCEPT
                    ![o] = [orders[o] EXCEPT !.status = "fulfilled", !.service = s,
                                             !.submissions = Reviewed(@, "approved")]]
    BY <1>1, <2>1, WithoutLapsedTable DEF Approved, OrderTable, Order
  <2>. QED
    BY <1>1, <2>2, OneRowWritten DEF AboutOne, Delivered
<1>2. ASSUME NEW o \in OrderIds, NEW S \in SUBSET Serving, NEW s \in ServiceIds,
             NEW p \in PortIds, NEW l \in AutoPorts, FulfillPurchase(o, s, p, l, S)
      PROVE  AboutOne(o)
  BY <1>1, <1>2 DEF FulfillPurchase
<1>3. ASSUME NEW o \in OrderIds, NEW S \in SUBSET Serving, FulfillRenewal(o, S)
      PROVE  AboutOne(o)
  BY <1>1, <1>3 DEF FulfillRenewal, IsService
<1>. QED
  BY <1>2, <1>3 DEF FulfillStep

(* Everything else leaves the orders and, like the order steps, the        *)
(* services alone.                                                         *)
LEMMA OtherSteps ==
    ASSUME [Next]_vars, ~FulfillStep
    PROVE  services' = services /\ (OrderStep \/ orders' = orders)
<1>1. CASE PortStep
  <2>1. PICK p \in PortIds, S \in SUBSET Serving :
          \/ \E l \in ListenPorts, e \in Expiries, m \in Limits :
                  CreatePort(p, l, e, m, S) \/ UpdatePort(p, l, e, m, S)
          \/ TogglePort(p, S) \/ DeletePort(p, S) \/ ResetPortTraffic(p, S)
    BY <1>1 DEF PortStep
  <2>. QED
    BY <2>1 DEF CreatePort, UpdatePort, TogglePort, DeletePort, ResetPortTraffic
<1>2. CASE \E S \in SUBSET Serving : SyncTraffic(S)
  BY <1>2 DEF SyncTraffic
<1>3. CASE Tick \/ DisableAutoStopped \/ UNCHANGED vars
  BY <1>3 DEF Tick, DisableAutoStopped, vars
<1>4. CASE \E p \in Plans, t \in Terms, e \in BOOLEAN : UpdatePlan(p, t, e)
  BY <1>4 DEF UpdatePlan
<1>5. CASE OrderStep
  BY <1>5 DEF OrderStep, ExpirePendingOrders, CreateOrder, CreateRenewal,
              SubmitPayment, RejectOrder, CancelOrder
<1>. QED
  BY <1>1, <1>2, <1>3, <1>4, <1>5 DEF Next

(* Whatever the panel does, it is about one order at most.                 *)
LEMMA StepAboutOne ==
    ASSUME TypeOK, [Next]_vars
    PROVE  orders' = orders \/ orders' = WithoutLapsed \/ \E o \in OrderIds : AboutOne(o)
  BY OrderStepAboutOne, FulfillStepAboutOne, OtherSteps DEF OrderAbout, AboutOne

(* An order's status only moves along OrderLifecycle: an order under       *)
(* review never lapses and what is settled is never reopened or cancelled. *)
THEOREM OrdersLiveOnce == Spec => OrderLifecycle
<1>1. TypeOK /\ [Next]_vars =>
        [\A o \in OrderIds : orders'[o].status # orders[o].status =>
            orders'[o].status \in Successors(orders[o].status)]_vars
  <2>. SUFFICES ASSUME TypeOK, [Next]_vars, NEW o \in OrderIds,
                       orders'[o].status # orders[o].status
                PROVE  orders'[o].status \in Successors(orders[o].status)
    OBVIOUS
  <2>1. ASSUME orders'[o] = WithoutLapsed[o]
        PROVE  orders'[o].status \in Successors(orders[o].status)
    BY <2>1, WithoutLapsedTable DEF Lapsed, Successors
  <2>2. ASSUME Created(o) \/ Paid(o) \/ SentBack(o) \/ Cancelled(o) \/ Delivered(o)
        PROVE  orders'[o].status \in Successors(orders[o].status)
    <3>1. IsOrder(o) => orders[o] \in Order
      BY OrderRow
    <3>2. CASE Created(o)
      <4>1. orders'[o].status = "pending_payment"
        BY <3>2, JustPlaced
      <4>. QED
        BY <3>2, <4>1 DEF Created, IsOrder, Successors
    <3>3. CASE Paid(o)
      BY <3>1, <3>3 DEF Paid, IsOrder, Order, Successors
    <3>4. CASE SentBack(o)
      BY <3>1, <3>4 DEF SentBack, IsOrder, Order, Successors
    <3>5. CASE Cancelled(o)
      BY <3>1, <3>5 DEF Cancelled, IsOrder, Order, Successors, OpenStatuses
    <3>6. CASE Delivered(o)
      BY <3>1, <3>6 DEF Delivered, IsOrder, Order, Successors
    <3>. QED
      BY <2>2, <3>2, <3>3, <3>4, <3>5, <3>6
  <2>3. orders' = orders \/ orders' = WithoutLapsed \/ \E q \in OrderIds : AboutOne(q)
    BY StepAboutOne
  <2>. QED
    BY <2>1, <2>2, <2>3 DEF AboutOne
<1>. QED
  BY <1>1, TypeCorrect, PTL DEF Spec, OrderLifecycle

-----------------------------------------------------------------------------
(* The review trail of an order.                                           *)

(* What ReviewsFollowTheOrder says of one row, and that an order not yet   *)
(* paid has nothing to review.                                             *)
Trail(row) ==
    LET subs == row.submissions
        last == subs[Len(subs)]
    IN  /\ \A i \in 1..(Len(subs) - 1) : subs[i] = "rejected"
        /\ row.status \in {"payment_submitted", "payment_rejected", "fulfilled"}
            => subs # << >>
        /\ row.status = "payment_submitted" => last = "submitted"
        /\ row.status = "payment_rejected" => last = "rejected"
        /\ row.status = "fulfilled" => last = "approved"
        /\ subs # << >> /\ last = "approved" => row.status = "fulfilled"
        /\ row.status = "pending_payment" => subs = << >>

Trails == \A o \in OrderIds : IsOrder(o) => Trail(orders[o])

(* A row keeps its trail through every change.                             *)
LEMMA TrailKept ==
    ASSUME TypeOK, Trails, NEW o \in OrderIds, IsOrder(o)',
           \/ orders'[o] = WithoutLapsed[o]
           \/ Created(o) \/ Paid(o) \/ SentBack(o) \/ Cancelled(o) \/ Delivered(o)
    PROVE  Trail(orders'[o])
<1>1. IsOrder(o) => /\ orders[o] \in Order /\ Trail(orders[o])
                    /\ orders[o].submissions \in Seq(ReviewStatuses)
  BY OrderRow DEF Trails, Order
<1>2. CASE orders'[o] = WithoutLapsed[o]
  <2>1. CASE Lapsed(o)
    BY <1>1, <1>2, <2>1, WithoutLapsedTable DEF Lapsed, IsOrder, Trail
  <2>2. CASE ~Lapsed(o)
    BY <1>1, <1>2, <2>2, WithoutLapsedTable DEF IsOrder
  <2>. QED
    BY <2>1, <2>2
<1>3. CASE Created(o)
  <2>1. orders'[o].status = "pending_payment" /\ orders'[o].submissions = << >>
    BY <1>3, JustPlaced
  <2>. QED
    BY <2>1 DEF Trail
<1>4. CASE Paid(o)
  <2>1. IsOrder(o)
    BY <1>4 DEF Paid, IsOrder
  <2>. DEFINE subs == orders[o].submissions
  <2>2. /\ orders'[o].submissions = Append(subs, "submitted")
        /\ orders'[o].status = "payment_submitted"
    BY <1>1, <1>4, <2>1 DEF Paid, Order
  <2>3. \A i \in 1..Len(subs) : subs[i] = "rejected"
    BY <1>1, <1>4, <2>1 DEF Paid, Trail
  <2>4. /\ Len(Append(subs, "submitted")) = Len(subs) + 1
        /\ Append(subs, "submitted")[Len(subs) + 1] = "submitted"
        /\ \A i \in 1..Len(subs) : Append(subs, "submitted")[i] = subs[i]
        /\ Append(subs, "submitted") # << >>
        /\ Len(subs) \in Nat
    BY <1>1, <2>1 DEF ReviewStatuses
  <2>. QED
    BY <2>2, <2>3, <2>4 DEF Trail
<1>5. CASE SentBack(o) \/ Delivered(o)
  <2>1. IsOrder(o)
    BY <1>5 DEF SentBack, Delivered, IsOrder
  <2>. DEFINE subs == orders[o].submissions
  <2>2. PICK verdict \in {"rejected", "approved"} :
            /\ orders'[o].submissions = Reviewed(subs, verdict)
            /\ orders'[o].status = IF verdict = "rejected" THEN "payment_rejected" ELSE "fulfilled"
            /\ subs # << >>
    BY <1>1, <1>5, <2>1 DEF SentBack, Delivered, Order
  <2>3. /\ Reviewed(subs, verdict) # << >>
        /\ Len(Reviewed(subs, verdict)) = Len(subs)
        /\ Reviewed(subs, verdict)[Len(subs)] = verdict
        /\ \A i \in 1..(Len(subs) - 1) : Reviewed(subs, verdict)[i] = subs[i]
    BY <1>1, <2>1, <2>2, ReviewedList DEF ReviewStatuses
  <2>4. \A i \in 1..(Len(subs) - 1) : subs[i] = "rejected"
    BY <1>1, <2>1 DEF Trail
  <2>. QED
    BY <2>2, <2>3, <2>4 DEF Trail
<1>6. CASE Cancelled(o)
  BY <1>1, <1>6 DEF Cancelled, IsOrder, Order, OpenStatuses, Trail
<1>. QED
  BY <1>2, <1>3, <1>4, <1>5, <1>6

(* Through every rejection, resubmission, cancellation and lapse, the      *)
(* submissions of an order tell its story (ReviewsFollowTheOrder).         *)
THEOREM ReviewsFollow == Spec => []ReviewsFollowTheOrder
<1>1. Init => Trails
  BY DEF Init, Trails, IsOrder, NoOrder
<1>2. TypeOK /\ Trails /\ [Next]_vars => Trails'
  <2>. SUFFICES ASSUME TypeOK, Trails, [Next]_vars, NEW o \in OrderIds, IsOrder(o)'
                PROVE  Trail(orders'[o])
    BY DEF Trails
  <2>1. CASE orders' = orders
    BY <2>1 DEF Trails, IsOrder
  <2>2. CASE orders' = WithoutLapsed \/ \E q \in OrderIds : AboutOne(q)
    BY <2>2, TrailKept DEF AboutOne
  <2>. QED
    BY <2>1, <2>2, StepAboutOne
<1>3. Trails => ReviewsFollowTheOrder
  BY DEF Trails, Trail, ReviewsFollowTheOrder
<1>. QED
  BY <1>1, <1>2, <1>3, TypeCorrect, PTL DEF Spec

-----------------------------------------------------------------------------
(* Renewals and the services they are for.                                 *)

(* An open purchase has no service yet.                                    *)
PurchasesUnbound ==
    \A o \in OrderIds :
        IsOrder(o) /\ orders[o].kind = "new_purchase" /\ orders[o].status \in OpenStatuses =>
            orders[o].service = Nobody

RenewalInv == RenewalsOfOwnService /\ PurchasesUnbound

(* A service stays its customer's and stays on its plan.                   *)
LEMMA ServicesStay ==
    ASSUME TypeOK, RenewalInv, [Next]_vars, NEW s \in ServiceIds, IsService(s)
    PROVE  /\ services'[s].customer = services[s].customer
           /\ services'[s].plan = services[s].plan
<1>. USE ConstantsAssumption
<1>0. services \in [ServiceIds -> Service \cup {NoService}] /\ services[s] \in Service
  BY ServiceRow DEF TypeOK
<1>1. CASE services' = services
  BY <1>1
<1>2. ASSUME NEW o \in OrderIds, NEW S \in SUBSET Serving, NEW t \in ServiceIds,
             NEW p \in PortIds, NEW l \in AutoPorts, FulfillPurchase(o, t, p, l, S)
      PROVE  services'[s] = services[s]
  <2>1. t # s
    BY <1>2 DEF FulfillPurchase, IsService
  <2>. QED
    BY <1>0, <1>2, <2>1 DEF FulfillPurchase
<1>3. ASSUME NEW o \in OrderIds, NEW S \in SUBSET Serving, FulfillRenewal(o, S)
      PROVE  /\ services'[s].customer = services[s].customer
             /\ services'[s].plan = services[s].plan
  <2>1. services' = [services EXCEPT ![orders[o].service].latest = o,
                                     ![orders[o].service].plan = orders[o].plan]
    BY <1>3 DEF FulfillRenewal
  <2>2. services[orders[o].service].plan = orders[o].plan
    BY <1>3 DEF FulfillRenewal, RenewalInv, RenewalsOfOwnService, IsOrder
  <2>3. CASE orders[o].service = s
    BY <1>0, <2>1, <2>2, <2>3 DEF Service
  <2>4. CASE orders[o].service # s
    BY <1>0, <2>1, <2>4
  <2>. QED
    BY <2>3, <2>4
<1>4. CASE FulfillStep
  BY <1>2, <1>3, <1>4 DEF FulfillStep
<1>5. CASE ~FulfillStep
  BY <1>1, <1>5, OtherSteps
<1>. QED
  BY <1>4, <1>5

(* Where an order of the new table comes from: it was there, for the same  *)
(* customer and plan, or it was just placed.  An open one was open and had  *)
(* not lapsed, with the same service.                                      *)
Descends(o) ==
    /\ IsOrder(o)
    /\ orders'[o].kind = orders[o].kind
    /\ orders'[o].customer = orders[o].customer /\ orders'[o].plan = orders[o].plan
    /\ orders[o].kind = "renewal" => orders'[o].service = orders[o].service
    /\ orders'[o].status \in OpenStatuses =>
        /\ orders[o].status \in OpenStatuses
        /\ orders'[o].service = orders[o].service

LEMMA WhereFrom ==
    ASSUME TypeOK, NEW o \in OrderIds, IsOrder(o)',
           \/ orders'[o] = WithoutLapsed[o]
           \/ Created(o) \/ Paid(o) \/ SentBack(o) \/ Cancelled(o) \/ Delivered(o)
    PROVE  Descends(o) \/ Created(o)
<1>1. IsOrder(o) => orders[o] \in Order
  BY OrderRow
<1>2. CASE orders'[o] = WithoutLapsed[o]
  <2>1. CASE Lapsed(o)
    BY <1>1, <1>2, <2>1, WithoutLapsedTable DEF Descends, Lapsed, IsOrder, OpenStatuses
  <2>2. CASE ~Lapsed(o)
    BY <1>1, <1>2, <2>2, WithoutLapsedTable DEF Descends, IsOrder
  <2>. QED
    BY <2>1, <2>2
<1>3. CASE Paid(o)
  BY <1>1, <1>3 DEF Paid, Descends, IsOrder, Order, OpenStatuses
<1>4. CASE SentBack(o)
  BY <1>1, <1>4 DEF SentBack, Descends, IsOrder, Order, OpenStatuses
<1>5. CASE Cancelled(o)
  BY <1>1, <1>5 DEF Cancelled, Descends, IsOrder, Order, OpenStatuses
<1>6. CASE Delivered(o)
  BY <1>1, <1>6 DEF Delivered, Descends, IsOrder, Order, OpenStatuses
<1>. QED
  BY <1>2, <1>3, <1>4, <1>5, <1>6

(* The invariant survives a transaction.                                   *)
LEMMA RenewalStep == TypeOK /\ TypeOK' /\ RenewalInv /\ [Next]_vars => RenewalInv'
<1>. SUFFICES ASSUME TypeOK, TypeOK', RenewalInv, [Next]_vars
              PROVE  RenewalInv'
  OBVIOUS
<1>. USE ConstantsAssumption
<1>1. ASSUME NEW o \in OrderIds, IsOrder(o)'
      PROVE  Descends(o) \/ Created(o)
  <2>1. CASE orders' = orders
    BY <1>1, <2>1, OrderRow DEF Descends, IsOrder
  <2>2. CASE orders' = WithoutLapsed \/ \E q \in OrderIds : AboutOne(q)
    BY <1>1, <2>2, WhereFrom DEF AboutOne
  <2>. QED
    BY <2>1, <2>2, StepAboutOne
<1>2. ASSUME NEW s, IsService(s)
      PROVE  /\ IsService(s)' /\ s # Nobody /\ s \in ServiceIds
             /\ services'[s].customer = services[s].customer
             /\ services'[s].plan = services[s].plan
  BY <1>2, ServicesStay DEF IsService
<1>3. PurchasesUnbound'
  BY <1>1, JustPlaced DEF RenewalInv, PurchasesUnbound, Descends
<1>4. ASSUME NEW o \in OrderIds, IsOrder(o)', orders'[o].kind = "renewal"
      PROVE  /\ IsService(orders'[o].service)
             /\ services[orders'[o].service].customer = orders'[o].customer
             /\ services[orders'[o].service].plan = orders'[o].plan
  <2>1. CASE Descends(o)
    BY <1>4, <2>1 DEF Descends, RenewalInv, RenewalsOfOwnService
  <2>2. CASE Created(o)
    BY <1>4, <2>2, JustPlaced
  <2>. QED
    BY <1>1, <1>4, <2>1, <2>2
\* One just placed is alone: what was open for its service has lapsed with it.
<1>5. ASSUME NEW o \in OrderIds, Created(o), orders'[o].kind = "renewal",
             NEW q \in OrderIds \ {o}, IsOrder(q)', orders'[q].status \in OpenStatuses
      PROVE  orders'[q].service # orders'[o].service
  <2>1. ~HasOpenOrder(orders'[o].service)
    BY <1>5, JustPlaced
  <2>2. orders'[q] = WithoutLapsed[q]
    <3>1. PICK r \in OrderIds : AboutOne(r)
      <4>1. ~IsOrder(o) /\ IsOrder(o)'
        BY <1>5, JustPlaced
      <4>2. orders'[o] # orders[o]
        BY <4>1 DEF IsOrder
      <4>3. orders'[o] # WithoutLapsed[o]
        BY <4>1, <4>2, WithoutLapsedTable DEF IsOrder, Lapsed
      <4>. QED
        BY <4>2, <4>3, StepAboutOne
    <3>2. r = o
      <4>1. orders'[o] # WithoutLapsed[o]
        <5>1. ~IsOrder(o) /\ IsOrder(o)'
          BY <1>5, JustPlaced
        <5>. QED
          BY <5>1, WithoutLapsedTable DEF IsOrder, Lapsed
      <4>. QED
        BY <3>1, <4>1 DEF AboutOne
    <3>. QED
      BY <1>5, <3>1, <3>2 DEF AboutOne
  <2>3. ~Lapsed(q) /\ orders'[q] = orders[q]
    BY <1>5, <2>2, WithoutLapsedTable DEF OpenStatuses
  <2>. QED
    BY <1>5, <2>1, <2>3 DEF HasOpenOrder, IsOrder
<1>6. ASSUME NEW o \in OrderIds, IsOrder(o)', orders'[o].kind = "renewal",
             orders'[o].status \in OpenStatuses,
             NEW q \in OrderIds \ {o}, IsOrder(q)', orders'[q].status \in OpenStatuses
      PROVE  orders'[q].service # orders'[o].service
  <2>1. CASE Created(o)
    BY <1>5, <1>6, <2>1
  <2>2. CASE Descends(o) /\ Created(q)
    <3>1. CASE orders'[q].kind = "renewal"
      BY <1>5, <1>6, <2>2, <3>1
    <3>2. CASE orders'[q].kind # "renewal"
      BY <1>2, <1>4, <1>6, <2>2, <3>2, JustPlaced
    <3>. QED
      BY <3>1, <3>2
  <2>3. CASE Descends(o) /\ Descends(q)
    BY <1>6, <2>3 DEF Descends, RenewalInv, RenewalsOfOwnService
  <2>. QED
    BY <1>1, <1>6, <2>1, <2>2, <2>3
<1>7. RenewalsOfOwnService'
  BY <1>2, <1>4, <1>6 DEF RenewalsOfOwnService
<1>. QED
  BY <1>3, <1>7 DEF RenewalInv

(* A renewal is for a service of the customer who pays, on the plan it     *)
(* runs, and no other open order waits for that service.                   *)
THEOREM RenewalsStayOwn == Spec => []RenewalsOfOwnService
<1>1. Init => RenewalInv
  BY DEF Init, RenewalInv, RenewalsOfOwnService, PurchasesUnbound, IsOrder, NoOrder
<1>2. TypeOK /\ TypeOK' /\ RenewalInv /\ [Next]_vars => RenewalInv'
  BY RenewalStep
<1>3. RenewalInv => RenewalsOfOwnService
  BY DEF RenewalInv
<1>. QED
  BY <1>1, <1>2, <1>3, TypeCorrect, PTL DEF Spec

-----------------------------------------------------------------------------
(* Delivery.                                                               *)

(* What a step does to the rows: a settled order is never written again.   *)
LEMMA SettledStays ==
    ASSUME TypeOK, [Next]_vars, NEW o \in OrderIds, orders[o].status = "fulfilled"
    PROVE  orders'[o] = orders[o]
<1>1. ~Lapsed(o) /\ IsOrder(o)
  BY DEF Lapsed, IsOrder
<1>2. ~(Created(o) \/ Paid(o) \/ SentBack(o) \/ Cancelled(o) \/ Delivered(o))
  BY <1>1 DEF Created, Paid, SentBack, Cancelled, Delivered, OpenStatuses
<1>3. WithoutLapsed[o] = orders[o]
  BY <1>1, WithoutLapsedTable
<1>. QED
  BY <1>2, <1>3, StepAboutOne DEF AboutOne

(* An order becomes fulfilled in one of two actions only.                  *)
LEMMA FulfilledBy ==
    ASSUME TypeOK, [Next]_vars, NEW o \in OrderIds,
           orders[o].status # "fulfilled", orders'[o].status = "fulfilled"
    PROVE  \E S \in SUBSET Serving :
            \/ \E s \in ServiceIds, p \in PortIds, l \in AutoPorts : FulfillPurchase(o, s, p, l, S)
            \/ FulfillRenewal(o, S)
<1>. USE ConstantsAssumption
<1>1. WithoutLapsed[o].status # "fulfilled"
  BY WithoutLapsedTable
<1>2. ~(Created(o) \/ Paid(o) \/ SentBack(o) \/ Cancelled(o))
  <2>1. ~Created(o)
    BY JustPlaced
  <2>2. IsOrder(o) => orders[o] \in Order
    BY OrderRow
  <2>. QED
    BY <2>1, <2>2 DEF Paid, SentBack, Cancelled, IsOrder, Order, OpenStatuses
<1>3. ~OrderStep
  <2>1. SUFFICES ASSUME OrderStep PROVE FALSE
    OBVIOUS
  <2>2. orders' = WithoutLapsed \/ \E q \in OrderIds : OrderAbout(q)
    BY <2>1, OrderStepAboutOne
  <2>. QED
    BY <1>1, <1>2, <2>2 DEF OrderAbout
<1>4. orders' # orders
  OBVIOUS
<1>5. FulfillStep
  BY <1>3, <1>4, OtherSteps
<1>6. ASSUME NEW q \in OrderIds, NEW S \in SUBSET Serving, NEW s \in ServiceIds,
             orders' = Approved(q, s)
      PROVE  q = o
  BY <1>1, <1>6, WithoutLapsedTable DEF Approved, OrderTable
<1>7. ASSUME NEW q \in OrderIds, NEW S \in SUBSET Serving, FulfillRenewal(q, S)
      PROVE  q = o
  BY <1>6, <1>7 DEF FulfillRenewal, IsService
<1>8. ASSUME NEW q \in OrderIds, NEW S \in SUBSET Serving, NEW s \in ServiceIds,
             NEW p \in PortIds, NEW l \in AutoPorts, FulfillPurchase(q, s, p, l, S)
      PROVE  q = o
  BY <1>6, <1>8 DEF FulfillPurchase
<1>. QED
  BY <1>5, <1>7, <1>8 DEF FulfillStep

(* What a step does to the services.                                       *)
LEMMA ServiceSteps ==
    ASSUME TypeOK, [Next]_vars
    PROVE  \/ services' = services /\ \A o \in OrderIds :
                orders'[o].status = "fulfilled" => orders[o].status = "fulfilled"
           \/ \E o \in OrderIds, S \in SUBSET Serving :
                \/ \E s \in ServiceIds, p \in PortIds, l \in AutoPorts : FulfillPurchase(o, s, p, l, S)
                \/ FulfillRenewal(o, S)
<1>1. CASE FulfillStep
  BY <1>1 DEF FulfillStep
<1>2. CASE ~FulfillStep
  <2>1. services' = services
    BY <1>2, OtherSteps
  <2>2. \A o \in OrderIds : orders'[o].status = "fulfilled" => orders[o].status = "fulfilled"
    BY <1>2, FulfilledBy DEF FulfillStep
  <2>. QED
    BY <2>1, <2>2
<1>. QED
  BY <1>1, <1>2

(* What is delivered: the order of a fulfilment and the service it leaves. *)
LEMMA OrderDelivered ==
    ASSUME TypeOK, NEW o \in OrderIds, NEW s \in ServiceIds, orders' = Approved(o, s),
           orders[o].status = "payment_submitted"
    PROVE  /\ orders[o] \in Order
           /\ orders'[o].status = "fulfilled" /\ orders'[o].service = s
           /\ orders'[o].kind = orders[o].kind /\ orders'[o].customer = orders[o].customer
           /\ orders'[o].plan = orders[o].plan /\ orders'[o].terms = orders[o].terms
<1>1. WithoutLapsed[o] = orders[o] /\ orders[o] \in Order
  BY OrderRow, WithoutLapsedTable DEF Lapsed, IsOrder
<1>2. orders'[o] = [orders[o] EXCEPT !.status = "fulfilled", !.service = s,
                                     !.submissions = Reviewed(@, "approved")]
  BY <1>1, WithoutLapsedTable DEF Approved, OrderTable, Order
<1>. QED
  BY <1>1, <1>2 DEF Order

LEMMA DeliveredStep ==
    ASSUME TypeOK, DeliveredOnce, [Next]_vars
    PROVE  DeliveredOnce'
<1>. USE ConstantsAssumption
<1>0. services \in [ServiceIds -> Service \cup {NoService}]
  BY DEF TypeOK
<1>1. ASSUME NEW s \in ServiceIds, IsService(s)
      PROVE  services[s] \in Service /\ services[s].source \in OrderIds /\ services[s].latest \in OrderIds
  BY <1>1, ServiceRow DEF Service
\* What holds of a service goes on holding while its row stays.
<1>2. ASSUME NEW s \in ServiceIds, IsService(s), services'[s].source = services[s].source
      PROVE  /\ orders'[services'[s].source] = orders[services[s].source]
             /\ orders'[services[s].latest] = orders[services[s].latest]
  BY <1>1, <1>2, SettledStays DEF DeliveredOnce
<1>3. CASE /\ services' = services
           /\ \A o \in OrderIds : orders'[o].status = "fulfilled" => orders[o].status = "fulfilled"
  <2>1. ASSUME NEW o \in OrderIds, orders'[o].status = "fulfilled"
        PROVE  orders'[o] = orders[o]
    BY <1>3, <2>1, SettledStays
  <2>. QED
    BY <1>2, <1>3, <2>1 DEF DeliveredOnce, IsService
<1>4. ASSUME NEW o \in OrderIds, NEW S \in SUBSET Serving, NEW s \in ServiceIds,
             NEW p \in PortIds, NEW l \in AutoPorts, FulfillPurchase(o, s, p, l, S)
      PROVE  DeliveredOnce'
  <2>1. services' = [services EXCEPT ![s] =
            [customer |-> orders[o].customer, plan |-> orders[o].plan,
             port |-> p, source |-> o, latest |-> o]]
    BY <1>4 DEF FulfillPurchase
  <2>2. /\ orders[o] \in Order /\ orders'[o].status = "fulfilled" /\ orders'[o].service = s
        /\ orders'[o].kind = "new_purchase" /\ orders'[o].customer = orders[o].customer
        /\ orders'[o].plan = orders[o].plan
    BY <1>4, OrderDelivered DEF FulfillPurchase
  <2>3. /\ services'[s].customer = orders[o].customer /\ services'[s].plan = orders[o].plan
        /\ services'[s].source = o /\ services'[s].latest = o
    BY <1>0, <2>1
  <2>4. ~IsService(s) /\ \A t \in ServiceIds \ {s} : services'[t] = services[t]
    BY <1>0, <1>4, <2>1 DEF FulfillPurchase
  <2>5. services'[s].customer # Nobody
    BY <2>2, <2>3 DEF Order
  <2>6. ASSUME NEW t \in ServiceIds, IsService(t)'
        PROVE  LET source == orders'[services'[t].source]
                   latest == orders'[services'[t].latest]
               IN  /\ source.status = "fulfilled" /\ source.kind = "new_purchase"
                   /\ source.service = t
                   /\ source.customer = services'[t].customer
                   /\ latest.status = "fulfilled" /\ latest.service = t
                   /\ latest.plan = services'[t].plan
    <3>1. CASE t = s
      BY <2>2, <2>3, <3>1
    <3>2. CASE t # s
      BY <1>2, <2>4, <2>6, <3>2 DEF DeliveredOnce, IsService
    <3>. QED
      BY <3>1, <3>2
  <2>7. ASSUME NEW q \in OrderIds, orders'[q].status = "fulfilled", orders'[q].kind = "new_purchase"
        PROVE  \E t \in ServiceIds : IsService(t)' /\ services'[t].source = q
    <3>1. CASE q = o
      BY <2>3, <2>5, <3>1 DEF IsService
    <3>2. CASE q # o
      <4>1. orders[q].status = "fulfilled" /\ orders'[q] = orders[q]
        <5>1. orders[q].status = "fulfilled"
          BY <1>4, <2>7, <3>2, WithoutLapsedTable DEF FulfillPurchase, Approved, OrderTable
        <5>. QED
          BY <5>1, SettledStays
      <4>2. PICK t \in ServiceIds : IsService(t) /\ services[t].source = q
        BY <2>7, <4>1 DEF DeliveredOnce
      <4>. QED
        BY <2>4, <4>2 DEF IsService
    <3>. QED
      BY <3>1, <3>2
  <2>. QED
    BY <2>6, <2>7 DEF DeliveredOnce, IsService
<1>5. ASSUME NEW o \in OrderIds, NEW S \in SUBSET Serving, FulfillRenewal(o, S)
      PROVE  DeliveredOnce'
  <2>. DEFINE s == orders[o].service
  <2>1. /\ services' = [services EXCEPT ![s].latest = o, ![s].plan = orders[o].plan]
        /\ s \in ServiceIds /\ IsService(s)
    BY <1>5 DEF FulfillRenewal, IsService
  <2>2. /\ orders'[o].status = "fulfilled" /\ orders'[o].service = s
        /\ orders'[o].kind = "renewal" /\ orders'[o].plan = orders[o].plan
    BY <1>5, <2>1, OrderDelivered DEF FulfillRenewal
  <2>3. /\ services'[s].customer = services[s].customer /\ services'[s].plan = orders[o].plan
        /\ services'[s].source = services[s].source /\ services'[s].latest = o
    <3>. HIDE DEF s
    <3>. QED
      BY <1>0, <1>1, <2>1 DEF Service
  <2>4. \A t \in ServiceIds \ {s} : services'[t] = services[t]
    <3>. HIDE DEF s
    <3>. QED
      BY <1>0, <2>1
  <2>. HIDE DEF s
  <2>5. \A t \in ServiceIds : services'[t].customer = services[t].customer
                              /\ services'[t].source = services[t].source
    BY <2>1, <2>3, <2>4
  <2>6. ASSUME NEW t \in ServiceIds, IsService(t)'
        PROVE  LET source == orders'[services'[t].source]
                   latest == orders'[services'[t].latest]
               IN  /\ source.status = "fulfilled" /\ source.kind = "new_purchase"
                   /\ source.service = t
                   /\ source.customer = services'[t].customer
                   /\ latest.status = "fulfilled" /\ latest.service = t
                   /\ latest.plan = services'[t].plan
    <3>0. IsService(t)
      BY <2>5, <2>6 DEF IsService
    <3>1. CASE t = s
      BY <1>2, <2>2, <2>3, <3>0, <3>1 DEF DeliveredOnce
    <3>2. CASE t # s
      BY <1>2, <2>4, <3>0, <3>2 DEF DeliveredOnce
    <3>. QED
      BY <3>1, <3>2
  <2>7. ASSUME NEW q \in OrderIds, orders'[q].status = "fulfilled", orders'[q].kind = "new_purchase"
        PROVE  \E t \in ServiceIds : IsService(t)' /\ services'[t].source = q
    <3>1. q # o
      BY <2>2, <2>7
    <3>2. orders[q].status = "fulfilled"
      BY <1>5, <2>7, <3>1, WithoutLapsedTable DEF FulfillRenewal, Approved, OrderTable
    <3>3. orders'[q] = orders[q]
      BY <3>2, SettledStays
    <3>4. PICK t \in ServiceIds : IsService(t) /\ services[t].source = q
      BY <2>7, <3>2, <3>3 DEF DeliveredOnce
    <3>. QED
      BY <2>5, <3>4 DEF IsService
  <2>. QED
    BY <2>6, <2>7 DEF DeliveredOnce, IsService
<1>. QED
  BY <1>3, <1>4, <1>5, ServiceSteps

(* What is paid for is delivered, once: no fulfilment, renewal or lapse    *)
(* leaves a fulfilled purchase without its service, or a service with two. *)
THEOREM PurchasesDelivered == Spec => []DeliveredOnce
<1>1. Init => DeliveredOnce
  BY DEF Init, DeliveredOnce, IsService, NoService, NoOrder
<1>2. TypeOK /\ DeliveredOnce /\ [Next]_vars => DeliveredOnce'
  BY DeliveredStep
<1>. QED
  BY <1>1, <1>2, TypeCorrect, PTL DEF Spec

-----------------------------------------------------------------------------
(* What is delivered.                                                      *)

(* The clean-up leaves a port in date alone.                               *)
LEMMA InDateStays ==
    ASSUME NEW table, NEW use, Apply(table, use), NEW p \in PortIds,
           table[p].exists, ~Expired(table[p])
    PROVE  ports'[p] = table[p]
  BY DEF Apply, AutoStopped, Deletable

(* A term that starts now ends in the future.                              *)
LEMMA TermAhead ==
    ASSUME TypeOK, NEW terms \in Terms
    PROVE  /\ terms.duration \in Nat \ {0} /\ terms.limit \in Nat \ {0}
           /\ now + terms.duration \in Nat /\ ~(now + terms.duration <= now)
<1>1. terms.duration \in Nat \ {0} /\ terms.limit \in Nat \ {0} /\ now \in Nat
  BY ConstantsAssumption DEF TypeOK
<1>. QED
  BY <1>1, SMT

(* The port of the service an order was delivered to.                      *)
PortAsOrdered(o) ==
    LET row == ports'[services'[orders'[o].service].port]
    IN  /\ row.exists /\ row.enabled
        /\ row.expires = now + orders[o].terms.duration
        /\ row.limit = orders[o].terms.limit
        /\ row.customer = orders[o].customer
        /\ orders[o].kind = "renewal" => usage'[row.listen] = 0

LEMMA PurchaseAsOrdered ==
    ASSUME TypeOK, NEW o \in OrderIds, NEW S \in SUBSET Serving, NEW s \in ServiceIds,
           NEW p \in PortIds, NEW l \in AutoPorts, FulfillPurchase(o, s, p, l, S)
    PROVE  PortAsOrdered(o)
<1>. USE ConstantsAssumption
<1>1. orders[o] \in Order /\ orders'[o].service = s /\ orders[o].kind = "new_purchase"
  BY OrderDelivered DEF FulfillPurchase
<1>2. services'[s].port = p
  BY DEF FulfillPurchase, TypeOK
<1>3. [ports EXCEPT ![p] = SoldPort(o, s, l)][p] = SoldPort(o, s, l)
  BY DEF TypeOK
<1>4. ~Expired(SoldPort(o, s, l)) /\ SoldPort(o, s, l).exists
  BY <1>1, TermAhead DEF SoldPort, Expired, Order
<1>5. ports'[p] = SoldPort(o, s, l)
  BY <1>3, <1>4, InDateStays DEF FulfillPurchase
<1>. QED
  BY <1>1, <1>2, <1>5 DEF PortAsOrdered, SoldPort

LEMMA RenewalAsOrdered ==
    ASSUME TypeOK, ServicePortsPaired, NEW o \in OrderIds, NEW S \in SUBSET Serving,
           FulfillRenewal(o, S)
    PROVE  PortAsOrdered(o)
<1>. USE ConstantsAssumption
<1>. DEFINE s == orders[o].service
            p == services[s].port
            row == [ports[p] EXCEPT !.expires = now + orders[o].terms.duration,
                                    !.limit = orders[o].terms.limit, !.enabled = TRUE]
            use == UsageReset(Sampled(S), ports[p].listen)
<1>1. s \in ServiceIds /\ IsService(s) /\ services[s] \in Service
  BY ServiceRow DEF FulfillRenewal, IsService
<1>2. /\ orders[o] \in Order /\ orders'[o].service = s
      /\ services[s].customer = orders[o].customer
  BY <1>1, OrderDelivered DEF FulfillRenewal
<1>3. /\ p \in PortIds /\ ports \in PortTable /\ ports[p].exists /\ ports[p] \in Port
      /\ ports[p].customer = orders[o].customer
  <2>1. p \in PortIds /\ ports \in PortTable
    BY <1>1 DEF Service, TypeOK, PortTable
  <2>2. ports[p].exists /\ ports[p].customer = orders[o].customer
    BY <1>1, <1>2 DEF ServicePortsPaired
  <2>. QED
    BY <2>1, <2>2, PortRow
<1>4. services'[s].port = p
  BY <1>1 DEF FulfillRenewal, TypeOK, Service
<1>5. Apply([ports EXCEPT ![p].expires = now + orders[o].terms.duration,
                          ![p].limit = orders[o].terms.limit,
                          ![p].enabled = TRUE], use)
  BY DEF FulfillRenewal
<1>6. [ports EXCEPT ![p].expires = now + orders[o].terms.duration,
                    ![p].limit = orders[o].terms.limit,
                    ![p].enabled = TRUE] = [ports EXCEPT ![p] = row]
  BY <1>3 DEF PortTable
<1>7. /\ row.exists /\ row.enabled /\ row.expires = now + orders[o].terms.duration
      /\ row.limit = orders[o].terms.limit /\ row.customer = orders[o].customer
      /\ row.listen = ports[p].listen /\ row.listen \in ListenPorts
  BY <1>3 DEF Port
<1>8. use[ports[p].listen] = 0
  BY <1>7 DEF UsageReset, Sampled
<1>9. AutoStoppedUsage([ports EXCEPT ![p] = row], use)[ports[p].listen] = 0
  <2>. HIDE DEF use, row, p
  <2>. QED
    BY <1>7, <1>8 DEF AutoStoppedUsage
<1>. HIDE DEF row, use, p
<1>10. [ports EXCEPT ![p] = row][p] = row
  BY <1>3 DEF PortTable
<1>11. ~Expired(row)
  BY <1>2, <1>7, TermAhead DEF Expired, Order
<1>12. ports'[p] = row
  <2>. DEFINE table == [ports EXCEPT ![p] = row]
  <2>1. Apply(table, use)
    BY <1>5, <1>6
  <2>2. table[p] = row
    BY <1>10
  <2>. HIDE DEF table
  <2>. QED
    BY <1>3, <1>7, <1>11, <2>1, <2>2, InDateStays
<1>13. usage'[row.listen] = 0
  BY <1>5, <1>6, <1>7, <1>9 DEF Apply
<1>. QED
  BY <1>2, <1>4, <1>7, <1>12, <1>13 DEF PortAsOrdered

LEMMA DeliveredAsOrdered ==
    ASSUME TypeOK, ServicePortsPaired, [Next]_vars, NEW o \in OrderIds,
           orders[o].status # "fulfilled", orders'[o].status = "fulfilled"
    PROVE  PortAsOrdered(o) /\ orders[o] \in Order
<1>1. IsOrder(o)
  BY FulfilledBy DEF FulfillPurchase, FulfillRenewal, IsOrder
<1>. QED
  BY <1>1, FulfilledBy, PurchaseAsOrdered, RenewalAsOrdered, OrderRow

(* The customer gets the terms of the order page, whatever the plan says   *)
(* by the time the administrator approves the payment.                     *)
THEOREM TermsKept == Spec => SoldAsOrdered
<1>1. ASSUME TypeOK, [Next]_vars, NEW o \in OrderIds, IsOrder(o)
      PROVE  orders'[o].terms = orders[o].terms /\ orders'[o].customer = orders[o].customer
  <2>0. orders[o] \in Order
    BY <1>1, OrderRow
  <2>1. CASE orders'[o] = orders[o] \/ orders'[o] = WithoutLapsed[o]
    BY <1>1, <2>1, WithoutLapsedTable
  <2>2. CASE Paid(o) \/ SentBack(o) \/ Cancelled(o)
    BY <2>0, <2>2 DEF Paid, SentBack, Cancelled, Order
  <2>3. CASE Delivered(o)
    BY <2>0, <2>3 DEF Delivered, Order
  <2>4. ~Created(o)
    BY <1>1 DEF Created
  <2>. QED
    BY <1>1, <2>1, <2>2, <2>3, <2>4, StepAboutOne DEF AboutOne
<1>2. TypeOK /\ ServicePortsPaired /\ [Next]_vars =>
        [\A o \in OrderIds :
            /\ IsOrder(o) => /\ orders'[o].terms = orders[o].terms
                             /\ orders'[o].customer = orders[o].customer
            /\ orders[o].status # "fulfilled" /\ orders'[o].status = "fulfilled" =>
                LET row == ports'[services'[orders'[o].service].port]
                IN  /\ row.expires = now + orders[o].terms.duration
                    /\ row.limit = orders[o].terms.limit
                    /\ row.customer = orders[o].customer]_vars
  BY <1>1, DeliveredAsOrdered DEF PortAsOrdered
<1>. QED
  BY <1>2, TypeCorrect, ServicesKeepTheirPorts, PTL DEF Spec, SoldAsOrdered

(* A fulfilled renewal brings the service back, whatever state it was in   *)
(* and whatever the traffic sample of its own fulfilment adds.             *)
THEOREM RenewalsRestore == Spec => RenewalRestoresService
<1>1. ASSUME TypeOK, ServicePortsPaired, [Next]_vars, NEW o \in OrderIds,
             orders[o].status # "fulfilled", orders'[o].status = "fulfilled",
             orders[o].kind = "renewal"
      PROVE  PortStatus(ports'[services'[orders'[o].service].port], usage') = "active"
  <2>. DEFINE row == ports'[services'[orders'[o].service].port]
  <2>1. /\ row.enabled /\ row.expires = now + orders[o].terms.duration
        /\ row.limit = orders[o].terms.limit /\ usage'[row.listen] = 0
        /\ orders[o].terms \in Terms
    BY <1>1, DeliveredAsOrdered DEF PortAsOrdered, Order
  <2>. HIDE DEF row
  <2>2. ~Expired(row)
    BY <1>1, <2>1, TermAhead DEF Expired
  <2>3. ~OverLimit(row, usage')
    <3>1. row.limit \in Nat \ {0}
      BY <1>1, <2>1, TermAhead
    <3>. QED
      BY <2>1, <3>1, SMT DEF OverLimit
  <2>4. PortStatus(row, usage') = "active"
    BY <2>1, <2>2, <2>3 DEF PortStatus
  <2>. QED
    BY <2>4 DEF row
<1>2. TypeOK /\ ServicePortsPaired /\ [Next]_vars =>
        [\A o \in OrderIds :
            /\ orders[o].status # "fulfilled" /\ orders'[o].status = "fulfilled"
            /\ orders[o].kind = "renewal"
            => PortStatus(ports'[services'[orders'[o].service].port], usage') = "active"]_vars
  BY <1>1
<1>. QED
  BY <1>2, TypeCorrect, ServicesKeepTheirPorts, PTL DEF Spec, RenewalRestoresService
=============================================================================
