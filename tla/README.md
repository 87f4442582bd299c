# Verification of ai-routing-panel

TLA+ models of the control plane of ai-routing-panel and of its three browser
applications, checked with TLC on small instances and, in part, proved with TLAPS
for all of them. Paths are relative to the repository; `apply.py:189` means that
line of `app/xray/apply.py`, `PanelProvider.jsx:179` that line of
`frontend/src/admin/state/PanelProvider.jsx`.

## 1. Inventory

ai-routing-panel is a Flask process (the *panel*) in front of an Xray data plane.
It sells and administers ports, renders Xray configurations, uploads them to
nodes, moves a Cloudflare record when the data plane fails and keeps incidents of
failing probes. A second process, the *AI manager*, decides which domains go
through which AI node. The two share a SQLite database, the runtime files and a
file lock.

| Component | State | Operations | Hard behaviour | Correct means |
|---|---|---|---|---|
| Orders, services, plans (`app/state/commerce.py`) | orders, submissions, services, plans | order, renew, submit, reject, cancel, fulfil, expire, edit plan | long sequences of legal calls; rows changed by the expiry that opens each transaction | what is paid is delivered once, on the ordered terms; the review trail agrees with the order |
| Ports (`ports.py`) | port rows | create, update, toggle, delete, clean up, allocate | clean-up inside every apply; a port range shared by three allocators | a sold port stays with its service; numbers are distinct; expired ports stop |
| Traffic (`traffic.py`) | totals, log offset | sample, reset | reset-on-read statistics; log rotation | a renewal starts from zero; no sample is counted twice |
| Xray apply (`app/xray/apply.py`) | runtime files, pending marker, last backup mode | apply with rollback, startup rewrite, backup mode | failures after the effect, deaths at any step, four writers, external reloader | files follow the database, processes follow the files |
| AI manager (`app/xray/ai_routing/`) | fragment, report, candidates | periodic and requested cycles, analyses | file lock shared with the panel, compensation, subprocess timeouts | a failed reload is retried; a failed request leaves no trace |
| DNS failover (`app/state/dns_failover.py`) | one row of counters and target, the record at Cloudflare | check, switch, startup snapshot | unserialised read, update and write; lost answers; peak window | the record follows the primary's health |
| Probe incidents (`app/probe_incidents.py`) | streaks, incidents, report files | record, claim, finish, recover | results from two processes, file and row written separately | evidence decides, each incident is analysed once |
| Maintenance and lifecycle (`app/runtime/`, `app/state/lifecycle.py`) | worker threads | cycle, start, stop | an error skips the rest of a cycle | what a cycle does happens again and again |
| Account limits (`app/xray/account_limits.py`, `limit_client.py`) | manifest, receipt | render, reconcile | stale receipts | a limit is reported applied only if it is |
| Backup, restore, node recovery (`scripts/`) | bundles, status files | cycle, upload, restore | partial publishing | a restore is all or nothing |
| Web, sessions, subscriptions (`app/web/`, `app/auth/`) | sessions | requests | -- | the services' guards are reached |
| Console reads (`PanelProvider.jsx`, `IncidentRecords.jsx`) | statistics, incident list, report, a request counter each | timer, choose a period, open and close a report, retry | overlapping requests answered in any order, late, with an error or never | what is shown answers what is asked, is never replaced by something older, and a blank pane says why |
| Console actions (`PanelProvider.jsx`, `DeliveryWorkspace.jsx`, `RoutingWorkspace.jsx`, `HostsWorkspace.jsx`, `ConfirmDialog.jsx`) | copy of the dashboard, busy keys, dialog, selection, filter, form | poll, refresh, click, confirm, answer | polls re-render the list under an open dialog and under an action; answers cross | nothing is sent twice, or for another port than the dialog named; nothing typed is lost |
| Console views (`topology.js`, `diagnose.js`, `hosts.js`, `TrafficTopology.jsx`) | none: functions of a dashboard | render | the path of the traffic is worked out twice, in Python and in JavaScript, from statuses that may contradict each other | the map claims no path the statuses do not support |
| Console shell (`App.jsx`, `useDialogFocus.js`, `WorkspaceNav.jsx`) | drawer, dialogs, saved focus and overflow | open, close, confirm, resize, navigate, crash | each dialog restores what it saved, in the order they close | the page can be scrolled and used when no dialog is open |
| API client (`shared/apiClient.js`) | reported errors, window handlers | request, report, leave for the login | one error passes several handlers, installed by several pages | an error is reported once, and those that matter are |
| Customer portal (`frontend/src/portal/`) | route, mounted page, upload list, requests | navigate, load, pay, renew, tenant login | answers arrive after the customer has moved on; the address changes under a page | the page says what it is doing, follows its address except where the router keeps it, and never goes back |
| Landing page (`frontend/src/landing/`) | animation loop, revealed sections, price panel | mount, scroll, plans arrive, leave | the loop is started and stopped while its next frame is pending; content changes after it is observed | one loop at most, none after leaving; nothing stays hidden |

Interactions. Web handlers and the maintenance worker call the services. A change
of ports takes the file lock, the process lock and a write transaction, in this
order, and passes through the apply. The AI manager takes the same file lock. The
DNS and incident workers are threads of their own and share only the database.
Probes of the panel and of the AI manager record their results as incidents. The
browser applications talk to the web handlers only, by `fetch`, which has no timeout
here: a request may be answered late, fail, or never end.

## 2. Modules

| Module | Models |
|---|---|
| `Commerce` | commerce, ports, traffic counters: one action per committed method |
| `XrayApply` | the apply with its rollback, startup, backup mode, manager cycle, watcher: one action per external effect |
| `DnsFailover` | checks and switches of the worker and of administrators |
| `ProbeIncidents` | recording, claiming, analysing, finishing |
| `FreshPane` | what a pane of the console promises, the abstract specification of `ConsoleReads` |
| `ConsoleReads` | the reads of the console: timers, periods, reports, answers in any order |
| `ConsoleActions` | the dashboard, actions, dialogs, selection, filter and form of the console |
| `ConsoleViews` | the traffic map, the outlet, the checklist and the hosts, as functions of a dashboard |
| `PageShell` | drawer, dialogs, focus, scroll lock, copy button |
| `ApiClient` | how a request ends and what is reported |
| `CustomerPortal` | routes and pages of a customer, the page of a tenant link |
| `Landing` | the landing page's animation, reveal effect, price panel, questions |
| `MCCommerce`, `MCConsoleActions`, `MCFrontend` | constants, symmetry and composition for TLC |
| `CommerceProofs`, `XrayApplyProofs`, `DnsFailoverProofs`, `ProbeIncidentsProofs`, `ConsoleReadsProofs`, `ConsoleActionsProofs`, `ConsoleViewsProofs` | theorems about the modules of these names |
| `FrontendProofs` | theorems about `ApiClient`, `Landing`, `PageShell` and `CustomerPortal`, and about `MCFrontend`, the parts side by side |

The other configurations run a component's module directly. Operators marked
"Seeded fault" are plausible bugs in the definition below them; they are not part
of any specification and serve to show that each property can fail.

### Commerce

`orders`, `services`, `ports` and `plans` are the tables, `usage` is
`traffic_totals` by listen port, `now` the clock. Every public method runs one
transaction under one lock, so a committed method is one action, and a method that
raises is no step. Its whole body is in the action: the expiry of old orders that
opens every order transaction (`WithoutLapsed`), the traffic sample before an
apply (`Sampled`), the clean-up and switching-off that end it (`Apply`). Money,
notes, tokens and proof images are left out.

### XrayApply

A configuration is the set of ports it serves and whether it embeds the routing
fragment. `files` are the files on disk, `node` the one on the SSH node, `running`
and `backup` what the two processes have loaded. All writers hold the file lock, so
one program counter `pc` and one record of local variables `job` serve them all.
Between two steps the clock moves (`Lapse`), AI nodes come and go, the watcher
reloads and a process dies. Every external call may fail, before or after its
effect. `doubt` exists for the properties only: it remembers which process's reload or
rollback was reported as failed ("plane", "backup"), and what a death cut off and nothing
reports ("died", "missed"), until the panel sees the data plane load the file again.

Assumed: `DATAPLANE_DYNAMIC_ROUTING_PATH` is unset (no fragment is pulled from the
node); the runtime files exist; writing a local file does not fail; the external
watcher, which is not in the repository, reloads what it finds in one step and then
clears the marker. The manager's requests for an explicit scope, with their
compensation, and the account limits beyond "may fail" are not in this module.

### DnsFailover

`record` is the Cloudflare record, `row` the database row. Each check or switch in
progress is an `actor` with a step: probe, count and decide, read the record,
update it, write the row. The steps of the worker and of administrators
interleave, as the code holds its lock only for the second and the last.
Cloudflare refuses a call (`errors`) or carries it out and its answer is lost
(`lost`). `seen` counts what the probes really found and exists for
`SwitchesFollowTheNode` only. Records pointing at neither target, history rows and
the resolution of addresses are left out.

### ProbeIncidents

`record` is one action per result. A worker's loop is recover, claim, diagnose,
write the report, store the status; all but the diagnosis may fail. Before the loop
`run` recovers once more outside of its error handling (`Begin`): a storage error there
ends the thread until the panel starts again, and no fairness is asked of an ended
thread or of a restart. A claim becomes `stale`
only when no worker holds it: an analysis is bounded by the runner's timeout and
the age of a claim by that timeout plus 30 seconds. `latest` remembers the results
themselves, for the properties only. Evidence, report text and event rows are left
out.

### ConsoleReads and FreshPane

Three panes (statistics, incident list, report), each with its `question` (the
period, the incident), what is `shown`, the `error` and `loading` flags and the
requests `pending`. `Ask` is the common half of `loadInsights`, `loadIncidents` and
`openReport`: the counter in the ref goes up, the flag up, the error down. Of the
counter a request keeps one bit, whether it is still the newest, since that is all
the code asks (`if (requestId !== ref.current) return`). The server reads its data
at some moment between request and answer (`Serve`); answers, errors and losses come
in any order. `version` counts the changes of the data and orders the answers.
`FreshPane` promises that a pane shows nothing or an answer to its question and
replaces it only by one that is not older; `PanesFresh` instantiates it three times.

### ConsoleActions

`server` is the backend's inventory, `panel` the copy in the console, `reads` the
dashboards under way, `job` the actions under way with the `busy` keys that block
their buttons, `dialog` the confirmation, then selection, filter and the form of a
new port. A handler commits (`ServeJob`), then collects the dashboard of its answer
outside of the lock it held (`AnswerJob`), then the console takes it over like any poll
(`ReceiveJob`); other administrators and the expiry change the server at any time, so a
port that was just created may be missing from the answer. The form is emptied even so,
while filter and selection stay as they were; what was typed into the form since the
click is emptied too. The answer of an action that was carried out may also be an error.
`runAction`'s look at the busy key and its setting of it are one step: React flushes
the state of a click before it delivers the next one, and the buttons are disabled
by that flag. Branches that the backend never takes (the 409 at
PanelProvider.jsx:287-295, the 400 of a deletion at :314-320) are left out.

### ConsoleViews

`snapshot` runs through all combinations of statuses that a dashboard can hold;
`Sync` shows one of them. The map, the outlet in use, the checklist and the hosts
are operators, next to `build_traffic_routing` of `app/web/core.py`, which sends the
path with the dashboard.

### PageShell

`scopes` are the open focus scopes, each with the overflow and the focus its own effect
has saved. The drawer exists in narrow windows only, so a resize closes its scope too.
`Connected` says which of the saved elements are still in the page. The page behind
cannot be used because the drawer makes it inert (`Inert`) or a dialog's backdrop lies
over it (`Covered`). `focus` is the open dialog (anything in it), the button that opened
it, the menu button, or "body", which stands for everything else. Confirming disables
both buttons of the dialog, the focused one with them (ConfirmDialog.jsx:23, :30), and
the focus may be lost to the body; the next `Tab` brings it back.

### ApiClient

A call is idle, sent, answered, thrown, returned or dropped (the caller let the
error escape, where the window's handlers meet it). `reportedErrors` is the WeakSet,
`reports` counts what was really sent to `/api/client-errors`.

### CustomerPortal

The document is loaded at any address, with orders of any status (`PortalInit`): a
bookmark, a reload and the way back from the login all start there. `Follow` is a link
or a step through the browser's history. `Push` mounts a view and reads its record;
where only the id in the address changes, vue-router keeps the view, which reads
nothing. `wire` holds the requests with a bit `mine`: is the view that sent it still
mounted. The backend's orders are those of `Commerce`, reduced to status and revision;
each renews a service or is a purchase (`RenewalOf`). They change by the customer's
requests (`AcceptProof`, `AcceptRenewal`; a renewal while the last one is open is
refused, which the page sees as `FailAction`) and by what happens elsewhere (`Review`:
other windows, the deadline, the administrator). Two requests alike count as one.

### Landing

`frames` are the frames the browser will call back, `raf` the one that can be
cancelled. The loop starts and stops as the canvas is scrolled into and out of view,
and ends with the page; the motion preference is read once. `content` are the elements on the page: each branch of the price
panel's `v-if` is an element of its own.

## 3. Runs

Bounds are constants named `Max...` in the modules.

| Run | Shows | Bounds and why they are enough |
|---|---|---|
| `commerce_orders` | `TypeOK`, `ReviewsFollowTheOrder`, `OrderLifecycle`, `SoldAsOrdered` | two orders, two terms, two submissions: sent back and submitted again, plan edited in between |
| `commerce_services` | `DeliveredOnce`, `RenewalsOfOwnService`, `RenewalRestoresService`, `ServicePortsPaired` | a purchase and two renewals that compete for one service; two port rows and two numbers, so the range is exhausted |
| `apply_direct` | `TypeOK`, `FilesFollowDatabase`, `CommittedPortsServed`, `BackupRunsItsFile` | one fault, one death, one expiry, one change of the AI nodes, each at any step |
| `apply_external` | `MarkerClearedOnceLoaded` | one fault, one death, one expiry, with the watcher |
| `apply_expiry` | `LapsedStopServing` | two faults (one in an apply, one in its rollback), one expiry, no death of the panel |
| `dns` | `TypeOK`, `FailsOverWhenTrusted`, `Recovers`, `SwitchesFollowTheNode` | thresholds 3 and 2; three changes of health, one of everything else |
| `incidents` | `TypeOK`, `IncidentsFollowResults`, `EvidenceDecides`, `OneAnalysisEach`, `FinishedStays`, `ReportMatchesStatus`, `EventuallyFinished` | three results from two hosts at threshold two, on a database with or without a migrated incident: an incident opens, closes and opens again, or is joined by one of the other kind; two workers, two storage errors (so that both threads can end), one death. One target: nothing in the code relates two |
| `console_actions` | `ActionsTypeOK`, `OneAtATime`, `ConfirmedOnly`, `CreationKept`, `PanelCatchesUp`, `DialogHeld` | two ports, two actions under way, two changes of the inventory (a port created and deleted before its answer is collected), one poll: two answers and a poll can cross. `MCConsoleActions` puts the buttons of one task on screen, chosen at the start from seven groups of buttons whose code shares state |
| `frontend_parts` | `PartsTypeOK`, `BlankExplained`, `PanesFresh`, `PanesCatchUp`, `ReportedOnce`, `SnapshotHonest`, `OneFrameLoop`, `ScrollRestored`, `PortalPages` | three requests of a pane with two lost: the newest can be lost behind an older one; two versions so that answers can be out of order; a purchase and a renewal of the one service, each changed twice at most, so that an answer can meet another page, or another order's; two callers and two installers; two candidates and two nodes |

`MCFrontend` runs the parts that share no state side by side: a step of one neither
enables, disables nor changes a step of another, so one part moves, chosen at the
start, and TLC explores the sum of their states (239,228) instead of the product.
Their properties are stated of each part alone.

Runs that must fail, each a disagreement of the code with a document or a test:

| Run | Disagreement |
|---|---|
| `commerce_reuse` | a number freed by renumbering keeps its traffic: the next service sold on it starts throttled (test_commerce.py:235) |
| `dns_race` | two switches leave record and database apart (operations.md:112) |
| `landing_reveal` | the plans arrive after the elements to reveal were collected: the price panel stays hidden (useReveal.js:15) |

Three further disagreements have no run of their own; the models and properties that
show them are there. Each is found by TLC with these constants:

| Disagreement | Module, property | Constants |
|---|---|---|
| a sold port that expires while the panel is down is served for ever (operations.md:43; `lifecycle.py:74`) | `XrayApply`, `LapsedStopServing` under `FairSpec` | `Ports = {p1, p2}`, `Sold = {p1}`, `Remote` only; one death, one lapse, no fault, no flip |
| the backup stays in direct mode after the AI node returned (architecture.md:149; `apply.py:586`) | `XrayApply`, `BackupModeFollowsAi` under `FairSpec` | the same with `Backup`; two flips, nothing else |
| in the peak window a dead primary attracts the record (operations.md:112; `dns_failover.py:207`) | `DnsFailover`, `FailsOver` under `FairSpec` | `Dns.cfg` with one peak boundary and one flip; no error, loss, blind probe, manual switch or death |

The passing properties leave out exactly what these show: `LapsedStopServing` is
checked without deaths, `FailsOverWhenTrusted` and `Recovers` wait for the end of the
peak window and rely on a database that is right about the record.

`CommittedPortsServed` holds through any number of deaths except where the code has
nothing that could make up for them. The panel dies after it restarted the data plane
and before the commit, so that a port that no transaction ever committed is served.
The next start restarts the data plane if its upload changes the node's file
(`apply.py:363`), and that repairs it, but not

- on a local node, for which a start never reloads anything ("missed");
- when the start has uploaded and dies before its restart: the one after it finds
  nothing changed ("missed");
- when the manager uploads and fails, or dies, while the panel is down: its marker is
  there, but the start does not look at it ("missed", until the panel sees a reload);
- when a sold port expires around a death: the startup uploads without a restart
  (`lifecycle.py:74`).

The first version of the property had only the last exception and passed with one
fault and one death on an SSH node; looking for its inductive invariant found the
others, which need two deaths, a local node or a manager at work during the outage.
With two ports, two faults, two deaths and one expiry, TLC agrees with the property and with
its invariant on an SSH node (7.3 million states) and a local one (3.3 million), too
many for a run.

`OneAtATime` has one exception, the
switch of a port's AI scope whose workspace was left while it ran: its flag lives in
the workspace.

Met while modelling and not kept as runs:

- docs/operations.md:44 says that a port over its traffic limit is switched off; the
  code throttles it (`disable_auto_stopped_ports_in_tx` looks at the expiry only);
- docs/api.md:56 says that a traffic reset enables the port again; `reset_port_traffic`
  leaves a disabled port disabled;
- docs/ai-routing.md:62 says that the pending marker of a failed apply is kept and
  retried; in direct mode a panel apply removes it (apply.py:240) even when it
  restarted nothing, so `MarkerClearedOnceLoaded` holds with an external reloader only;
- after a lost answer of Cloudflare the database is wrong about the record until the
  panel starts again (operations.md:101);
- an AI candidate whose probe itself failed is "blocked" for the backend's map and
  "unknown" for the console's;
- the form of an existing port is overwritten by every poll while it is edited
  (PanelProvider.jsx:262 says so);
- a renewal answered after the customer has opened another order, and a step through
  the history from one order to another, change the address under the page of an order
  (SubscriptionDetailView.vue:38; OrderDetailView.vue:58 reads on mounting only): the
  page goes on showing the one order, and a proof of payment chosen there is sent to the
  other. No document says otherwise. `AddressShown` states that nothing else does it;
- after a failed load the list of orders says that there are none (OrdersView.vue:28).

Fairness. Handlers and worker steps are weakly fair: nothing in the code waits for
an event that may not come. A diagnosis worker's steps are fair for as long as its
thread lives; `EventuallyFinished` says what is left when no thread does. `DisableAutoStopped` and `SyncBackupMode` of
`XrayApply` are strongly fair: a cycle that finds the file lock busy gives up, and
the next one comes after the interval, while the lock is held for moments only.
The DNS worker's probe is weakly fair (`DNSFailoverWorker.run` survives every
exception); administrators' requests are not fair, but once begun they end.
Faults, deaths, expiries and changes of health are never fair. In the browser, timers
are weakly fair (`setInterval`), and the newest request of a pane is strongly fairly
served and answered: single requests may be lost, within the bound `MaxLost`, but not
every one that comes after. Nothing is assumed of the console's actions: without a
timeout in `fetch`, a connection that hangs keeps its button, and the dialog that waits
for it, blocked until the page is reloaded. Clicks are never fair.

## 4. Proofs

In `CommerceProofs`, for every value of the constants that satisfies
`ConstantsAssumption`:

- `TypeCorrect`: `Spec => []TypeOK`. `TypeOK` is inductive: no operation leaves a
  partial row. Lemmas type the rewriting of whole tables that the operations share,
  such as `AutoStoppedTable` for the clean-up.
- `ServicesKeepTheirPorts`: `Spec => []ServicePortsPaired`. The invariant that is
  proved inductive is its conjunction with `TypeOK`. The argument is about who may
  change `service`, `customer` or `port`: only a purchase writes them, on a row that
  was free and a service that did not exist; the clean-up and the deletion spare
  `Commercial` rows, and a row that names a service is commercial; everything else
  keeps the three fields.
- `OrdersLiveOnce` (for `OrderLifecycle`), `ReviewsFollow` (for `ReviewsFollowTheOrder`)
  and `RenewalsStayOwn` (for `RenewalsOfOwnService`) rest on `StepAboutOne`: a
  transaction creates, pays, sends back, cancels or delivers one order at most, and the
  others lapse or stay. The trail needs that an unpaid order has nothing to review.
  Renewals need `PurchasesUnbound`, that an open purchase has no service yet, and
  `ServicesStay`: the plan that a renewal writes is the one the service runs. A renewal
  just placed is alone because `HasOpenOrder` and the lapsing of the same transaction
  look at the same clock.
- `PurchasesDelivered`: `Spec => []DeliveredOnce`, inductive with `TypeOK`.
  A fulfilled order never changes again (`SettledStays`), only the two fulfilments make one (`FulfilledBy`), and a renewal keeps the purchase behind its
  service while it replaces the latest order.
- `TermsKept` (for `SoldAsOrdered`) and `RenewalsRestore` (for `RenewalRestoresService`)
  follow from `PortAsOrdered`: after a fulfilment the port carries the terms of the order,
  and after a renewal it counts no traffic. The clean-up of the same transaction spares that port, because a
  term that starts now ends later (`TermAhead`, `InDateStays`). That the port of a renewal
  is the customer's own is `ServicePortsPaired`.

In `XrayApplyProofs`, for every value of the constants that satisfies
`ModesAssumption` and `BoundsAssumption`, so for any number of faults and deaths:

- `TypeCorrect`: `Spec => []TypeOK`, inductive as it stands.
- `FilesFollowTheDatabase`: `Spec => []FilesFollowDatabase`. The property speaks of
  the time between two applies only; `FInv` says what holds inside one. `SavedFollow`:
  what the rollback would put back follows the database. `WrittenIsTransaction`: what
  the files hold is what is about to be committed. `LifeMatches`: a panel that is down
  holds no lock, so a start finds nobody inside an apply. A start after a death may find
  files that do not follow; the rewrite repairs them before the panel is up.
- `CommittedServed`: `Spec => []CommittedPortsServed`, from `PInv`. `UpServes` says step
  by step what the process serves while the panel is up: the committed ports until an
  apply restarts it, the written ones after that, and what was saved or what the node
  has once the apply fails. `Uploaded` says that a restart then loads the file, and
  `RollbackKnows` that an apply that restarts nothing had nothing to change. `DownServes`
  is what makes deaths harmless: whenever the panel dies, the process serves either what
  the node has, so that an upload that changes it is noticed, or what the database says.
  `StartupAppliesQuietly` and `DeathsNoted` confine the exceptions.
- `BackupRuns`: `Spec => []BackupRunsItsFile`, from `BInv`: until an apply has rendered
  the backup runs the file on disk, then the one that would be put back, and a rollback
  that did not touch the process puts exactly that file back. A start forgets the mode
  (`StartForgetsMode`), so a process left behind by a death is not trusted.
- `OwedReloadRemembered`: with `External`, `Spec => MarkerClearedOnceLoaded`. The
  strengthening is that a manager cycle which found or set the marker remembers it
  (`PendingRemembered`), which is why it may write the marker back from its locals.

In `ProbeIncidentsProofs`, for every value of the constants that satisfies
`ThresholdAssumption` and `BoundsAssumption`: `TypeCorrect`, `OneWorkerEach` (for
`OneAnalysisEach`), `ReportsAgree` (for `ReportMatchesStatus`) and `FinishedIsFinal`
(for `FinishedStays`), all from one invariant `IInv`. Its heart is `ClaimsHeld`: what
a worker holds is a row that is there, running, not old enough to be queued again and
held by nobody else. `ReportsWritten` says that between the two halves of `finish` the
file already holds what the row will say; `RowsBounded` that a result opens at most one
incident, so that every row has a report file. That a held claim does not get old is
an assumption of the model (`ClaimAges`), justified by the analysis timeout.
`IncidentsFollow` (for `IncidentsFollowResults`) and `EvidenceIsNeeded` (for
`EvidenceDecides`) add `RInv`, which is about results instead of claims. `StreaksTell`
says that the one streak that is not cut is how often the latest result came in a row,
so the code's per-kind, per-host streaks and the count of the property reach the threshold
together (`StreakIsCount`); `OneOpen` that a target has one open incident of a kind at
most, which the unique index `probe_incidents_open_kind` also demands and which here follows
from the handlers alone; `ResultsClose` and `ResultsOpen` what
the latest result leaves. `FailureWrites` says what one failure does to the rows, and
`RowsStand` that workers and time change none of this.

In `DnsFailoverProofs`, for all thresholds and any number of administrators:
`TypeCorrect`, and `SwitchesFollow` (for `SwitchesFollowTheNode`). The invariant is
conditional: as long as nobody has used the panel, no window opened and nothing died,
the administrators hold nothing, the counters tell what the probes found less the one
still to be counted (`CountersTrue`), and a switch in progress has its evidence
(`GoalGrounded`). `StaysDisturbed` shows that the condition cannot come back.

In `ConsoleReadsProofs`, for any periods, incidents and number of requests:
`ReadsTypeCorrect`, `ReadsExplained` (for `BlankExplained`) and
`ReadsImplementFreshPanes` (for `PanesFresh`, the refinement). `ReadsInv` says of each
pane that at most one request is the newest (`OneNewest`), that it asks the pane's
question (`NewestFits`), that everything shown or read is from the past (`Past`) and
what is under way when nothing is shown (`Explained`). That an answer is not replaced
by an older one follows from `OneNewest`: a request becomes the newest only after the
last answer was received, so the server reads for it later.

In `ConsoleActionsProofs`, for any ports, slots and kinds of action:
`ActionsTypeCorrect`, `ActionsOneAtATime` (for `OneAtATime`), `ActionsConfirmed` (for
`ConfirmedOnly`), `ActionsKeepCreation` (for `CreationKept`) and `ActionsHoldDialogs` (for
`DialogHeld`), from one invariant.
`JobsHaveKeys` says that the busy keys are those of the actions under way, each once;
`OneRouting` and `ScopeWatched` that the workspace's own flag covers what the keys do
not; `DialogAsks` that a dialog holds the key of what it asks; `OneRead` that the
flags of loads agree with the requests; `AnswersCarry` that a created port is in every
dashboard read after the commit that includes no further change (`Tells`). The selection needs that the smallest of a set of
numbers is in it, which is shown by well-foundedness of the naturals.

In `ConsoleViewsProofs`, for any number of candidates and for any nodes that satisfy
`NodesAssumption` (0 stands for a host without an id): `DashboardTrue` (for
`SnapshotHonest`). It holds of every snapshot, so no induction over steps is needed,
only lemmas about what the views compute. `RoutingCases` lists the cases the backend
can find itself in and `PathMeans` what the console concludes from each; `NodeStates`
that the name of a node determines its state, so that the three views of one branch agree;
`OutletsAre` names the one outlet of each path. In the checklist the sort is a
permutation (`PositionsPermute`), so whatever comes before a warning that is shown is
shown as well.

In `FrontendProofs`, for all values of the constants:

- `ErrorsReportedOnce` (for `ReportedOnce`): `ClientInv` ties the WeakSet to the number
  of reports, a call's status to its stage and the window's handlers to their flag.
- `LandingOneLoop` (for `OneFrameLoop`): the one frame that is pending is the one that
  can be cancelled (`FrameLoop`), and a page that is gone starts nothing (`Stopped`).
- `PageGivenBack` (for `ScrollRestored`): one modal is open at most, however its opening,
  closing, a resize and an answer follow each other, its scope has saved the
  scrolling page, and whoever gets the focus back is still in it (`ShellInv`). While a
  confirmed action is under way the focus may be nowhere, but not behind the dialog.
- `PagesHonest`, `OrdersMoveForward`, `PageOfItsAddress` and `TenantServed` (the
  conjuncts of `PortalPages`): of all the requests in the air one at most belongs to the
  page on screen (`OneMine`), nothing is newer than what the backend has and what is on
  the page is not newer than what its own request will bring (`RecordForward`). A load
  belongs to the page on screen and brings the record it asked for (`AsAsked`), which is
  why a page in step with its address stays so until the address moves under it.
- `WholeImplementsParts`: a step of one part is a stutter of the others, so `MCFrontend`
  implements the specification of each. From it and the theorems about the parts follow
  `PartsTypeCorrect` (for `PartsTypeOK`), `PortalPagesTrue` (for `PortalPages`) and
  `PartsKeepTheirPromises`: composing the parts in one run hides nothing.

Only model-checked: the liveness properties `LapsedStopServing`, `FailsOverWhenTrusted`,
`Recovers`, `EventuallyFinished`, `PanelCatchesUp` and `PanesCatchUp`
(fairness and ENABLED are out of the prover's reach). Every other property of a passing
run is proved.

## 5. Not modelled

- Web handlers, sessions and templates keep no state beyond what the services check;
  configuration parsing, logging, the entry gateway's rendering and the MCP server have
  no protocol of their own.
- The AI manager's scope requests with their compensation, the AI analysis, account
  limits, traffic log rotation, backup, restore and node recovery are planned. Their
  hazards (a compensation that dies half way, a stale receipt, a log cut in the middle
  of a line, an upload that stops half way) are not in PROJECT.json's list, which holds
  those of the modelled parts.
- Charts, formatting, texts, themes and geometry: functions from numbers to SVG and
  text. `useCountUp` and `summaryTone` are used by nothing.
- Of the console: notices, the sampled rates (the sampler overstates a rate after a
  stale answer), the form of an existing port, which error the statistics of a host
  show when several are known, the theme.
- Of the portal: the login form, the purchase page and the rows of the lists.
- The bundles under `app/static/` are generated from `frontend/src`.

## 6. Plan

1. Done: `Commerce`, `XrayApply`, `DnsFailover`, `ProbeIncidents`, the front end, and
   proofs of every property of a passing run that is not liveness.
2. `AiRouting`: candidate health and selection (`selector.py`, `candidates.py`), the
   requested scope changes with compensation, the scheduler (`runner.py`), the
   launcher's timeouts; locks of both processes, with the deadlock question asked
   of file lock, process lock and database lock.
3. `AtomicApply`: the promise that an apply happens entirely or not at all, and
   `XrayApply` without deaths as its refinement, by TLC and then by TLAPS.
4. `TrafficSync`: reset-on-read statistics, log deltas with rotation and half
   lines, against an abstract count of what was transferred.
5. `AccountLimits`: manifests, marks and receipts with their freshness.
6. `BackupCycle` and `Restore`: snapshot, bundle, upload, retention; publishing
   with rollback; `NodeRecovery`.
7. `Lifecycle`: start and stop of workers, startup order.
8. Theorems: the refinement of step 3; then the type invariant and the safety
   invariants of each new module.
