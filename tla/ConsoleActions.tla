---------------------------- MODULE ConsoleActions ----------------------------
(***************************************************************************)
(* The admin console at work on the dashboard: PanelProvider.jsx with the  *)
(* buttons, dialogs and forms of the workspaces that call it.              *)
(*                                                                         *)
(* The console holds a copy of the dashboard.  The first load, a 15 second *)
(* timer, the refresh button and the answer to every action replace it, in *)
(* the order in which answers arrive, while other administrators and the   *)
(* backend itself change the inventory.  A dashboard is abstracted to the  *)
(* states of the ports and to rev, the number of changes it includes.      *)
(***************************************************************************)
EXTENDS Naturals, FiniteSets, FiniteSetsExt

CONSTANTS
    Ports,          \* port ids, numbers
    Slots,          \* actions under way at a time, numbered
    Kinds,          \* the buttons considered
    Starts,         \* what ports there may be when the console opens
    None,           \* no port, no dialog, no slot, no copy
    MaxChanges,     \* bound: changes of the dashboard on the server
    MaxPolls        \* bound: polls under way at a time

\* Buttons that act at once, and those that ask first, on the selected port.
Direct == {"update", "toggle"}
Confirmed == {"delete", "reset", "rotate"}
\* AI routing: the two scope switches act at once, the mode asks first.
Routing == {"scope", "port-scope", "mode"}
Restarts == {"restart-data-plane", "restart-ai-node"}
OnPort == Direct \cup Confirmed \cup {"port-scope"}
Asked == Confirmed \cup Restarts \cup {"mode"}

ASSUME PortsAssumption == Starts \subseteq SUBSET Ports /\ Ports \cup Slots \subseteq Nat /\ None \notin Nat
ASSUME KindsAssumption ==
    Kinds \subseteq Direct \cup Confirmed \cup Routing \cup Restarts \cup {"create", "diagnose"}
ASSUME BoundsAssumption == {MaxChanges, MaxPolls} \subseteq Nat

\* The key under which runAction notes that an action is under way.
Keys == (Kinds \cap OnPort) \X Ports \cup (Kinds \ OnPort) \X {None}

VARIABLES
    server,         \* the inventory in the backend
    panel,          \* the console's copy: EMPTY_PANEL, then what it was sent
    loading,        \* the first load is under way
    refreshing,     \* App: a manual refresh is under way
    reads,          \* GET /api/dashboard under way
    lost,           \* the first load or a refresh that is never answered
    job,            \* the actions under way
    busy,           \* keys of the actions under way, as the buttons see them
    scopeBusy,      \* RoutingWorkspace: the scope switch it waits for
    dialog,         \* the confirmation dialog and the action that holds it
    workspace,      \* the workspace on screen
    selected,       \* selectedPortId
    filter,         \* filters.status
    form            \* createForm: empty or typed

copies == <<server, panel>>
loads == <<loading, refreshing, reads, lost>>
work == <<job, busy>>
screen == <<scopeBusy, dialog, workspace>>
choice == <<selected, filter, form>>
actionsVars == <<copies, loads, work, screen, choice>>

PortStates == {"absent", "on", "off"}
Dashboard == [port : [Ports -> PortStates], rev : 0..MaxChanges]
EmptyPanel == [port |-> [p \in Ports |-> "absent"], rev |-> 0]

Listed(d) == {p \in Ports : d.port[p] # "absent"}
Filtered(d, f) == {p \in Listed(d) : f = "all" \/ d.port[p] = f}

\* An action under way: what it made or found, and at which rev of the server.
IdleJob == [key |-> None, stage |-> "idle", copy |-> None, made |-> None, since |-> 0]
Active(s) == job[s].stage # "idle"

ActionsInit ==
    /\ server \in {[port |-> [p \in Ports |-> IF p \in S THEN "on" ELSE "absent"], rev |-> 0] :
                    S \in Starts}
    /\ panel = EmptyPanel
    /\ loading = TRUE /\ refreshing = FALSE
    /\ reads = {[from |-> "first", copy |-> None]} /\ lost = {}
    /\ job = [s \in Slots |-> IdleJob] /\ busy = {}
    /\ scopeBusy = None /\ dialog = None /\ workspace = "delivery"
    /\ selected = None /\ filter = "all" /\ form = "empty"

-----------------------------------------------------------------------------
(* Taking over a dashboard, and the selection effect that follows.          *)

\* A port that left the filtered list is no longer selected: the first one is.
Reselect(sel, d, f) ==
    LET shown == Filtered(d, f)
    IN  IF sel \in shown THEN sel ELSE IF shown = {} THEN None ELSE Min(shown)

Apply(d) ==
    /\ panel' = d
    /\ selected' = Reselect(selected, d, filter)

-----------------------------------------------------------------------------
(* Reading the dashboard.  Nothing tells an older answer from a newer one.  *)

Read(from) == reads' = reads \cup {[from |-> from, copy |-> None]}

\* Every 15 seconds, whether or not the last poll has been answered.
PollTimer ==
    /\ Cardinality({r \in reads : r.from = "poll"}) < MaxPolls
    /\ Read("poll")
    /\ UNCHANGED <<copies, loading, refreshing, lost, work, screen, choice>>

\* The refresh button is disabled while a load or a refresh is under way; a
\* dialog keeps it out of reach.
Refresh ==
    /\ dialog = None /\ ~loading /\ ~refreshing
    /\ Read("manual")
    /\ refreshing' = TRUE
    /\ UNCHANGED <<copies, loading, lost, work, screen, choice>>

ServeRead(r) ==
    /\ r \in reads /\ r.copy = None
    /\ reads' = (reads \ {r}) \cup {[r EXCEPT !.copy = server]}
    /\ UNCHANGED <<copies, loading, refreshing, lost, work, screen, choice>>

\* The finally blocks of the first load and of App.refresh.
ReadEnds(r) ==
    /\ reads' = reads \ {r}
    /\ loading' = (loading /\ r.from # "first")
    /\ refreshing' = (refreshing /\ r.from # "manual")

\* Seeded fault: only the first dashboard is taken over.
ReceiveReadOnce(r) ==
    /\ r \in reads /\ r.copy # None
    /\ ReadEnds(r)
    /\ IF panel = EmptyPanel THEN Apply(r.copy) ELSE UNCHANGED <<panel, selected>>
    /\ UNCHANGED <<server, lost, work, screen, filter, form>>

ReceiveRead(r) ==
    /\ r \in reads /\ r.copy # None
    /\ ReadEnds(r)
    /\ Apply(r.copy)
    /\ UNCHANGED <<server, lost, work, screen, filter, form>>

FailRead(r) ==
    /\ r \in reads
    /\ ReadEnds(r)
    /\ UNCHANGED <<copies, lost, work, screen, choice>>

LoseRead(r) ==
    /\ r \in reads
    /\ lost' = lost \cup ({r.from} \ {"poll"})
    /\ reads' = reads \ {r}
    /\ UNCHANGED <<copies, loading, refreshing, work, screen, choice>>

-----------------------------------------------------------------------------
(* runAction: one action per key.                                           *)

\* Seeded fault: only the buttons that ask first look at the key.
FreeUnlessAsked(key) == key \notin busy \/ key[1] \notin Asked

Free(key) == key \notin busy

\* Seeded fault: the key that is noted holds something else than the id.
StartWrongId(s, key) ==
    /\ ~Active(s) /\ (\A t \in Slots : t < s => Active(t))
    /\ Free(key)
    /\ busy' = busy \cup {<<key[1], s>>}
    /\ job' = [job EXCEPT ![s] = [IdleJob EXCEPT !.key = key, !.stage = "sent"]]

\* Slots stand for promises: which of the idle ones is taken makes no difference.
Start(s, key) ==
    /\ ~Active(s) /\ (\A t \in Slots : t < s => Active(t))
    /\ Free(key)
    /\ busy' = busy \cup {key}
    /\ job' = [job EXCEPT ![s] = [IdleJob EXCEPT !.key = key, !.stage = "sent"]]

\* Seeded fault: the dialog waits for a second answer.
FinishUnderDialog(s) ==
    /\ busy' = busy \ {job[s].key}
    /\ job' = [job EXCEPT ![s] = IdleJob]
    /\ scopeBusy' = IF scopeBusy = s THEN None ELSE scopeBusy
    /\ UNCHANGED <<dialog, workspace>>

\* The finally block; the dialog that waited for the action closes with it.
Finish(s) ==
    /\ busy' = busy \ {job[s].key}
    /\ job' = [job EXCEPT ![s] = IdleJob]
    /\ scopeBusy' = IF scopeBusy = s THEN None ELSE scopeBusy
    /\ dialog' = IF dialog # None /\ dialog.holder = s THEN None ELSE dialog
    /\ UNCHANGED workspace

\* What the handlers of the backend make of it; any of them may refuse.
Changed(port) == [port |-> port, rev |-> server.rev + 1]
Effects(kind, p) ==
    CASE kind = "create" ->
           {[after |-> Changed([server.port EXCEPT ![q] = "on"]), made |-> q] :
                q \in Ports \ Listed(server)}
             \cup {[after |-> server, made |-> q] : q \in Listed(server)}
      [] kind = "toggle" ->
           {[after |-> Changed([server.port EXCEPT
                ![p] = IF @ = "on" THEN "off" ELSE "on"]), made |-> None] :
                q \in {p} \cap Listed(server)}
      [] kind = "delete" ->
           {[after |-> IF p \in Listed(server)
                       THEN Changed([server.port EXCEPT ![p] = "absent"])
                       ELSE server, made |-> None]}
      [] kind \in {"update", "reset", "rotate", "port-scope"} ->
           {[after |-> Changed(server.port), made |-> None] : q \in {p} \cap Listed(server)}
      [] kind \in {"scope", "mode"} -> {[after |-> Changed(server.port), made |-> None]}
      [] OTHER -> {[after |-> server, made |-> None]}

Refuse(s) ==
    job' = [job EXCEPT ![s] = [IdleJob EXCEPT !.key = job[s].key, !.stage = "refused"]]

\* The handler commits, or refuses and changes nothing.
ServeJob(s) ==
    /\ job[s].stage = "sent"
    /\ \/ \E e \in Effects(job[s].key[1], job[s].key[2]) :
            /\ e.after.rev <= MaxChanges
            /\ server' = e.after
            /\ job' = [job EXCEPT ![s].stage = "done", ![s].made = e.made,
                                  ![s].since = e.after.rev]
       \/ Refuse(s) /\ UNCHANGED server
    /\ UNCHANGED <<panel, loads, busy, screen, choice>>

\* The dashboard of the answer is collected after the commit and outside of its
\* lock: others may have changed it in between.  What was done may also end in
\* an error, when collecting fails or the answer is cut off.
AnswerJob(s) ==
    /\ job[s].stage = "done"
    /\ \/ job' = [job EXCEPT ![s].stage = "answered", ![s].copy = server]
       \/ Refuse(s)
    /\ UNCHANGED <<copies, loads, busy, screen, choice>>

\* applyResponse; a creation also empties the form, and if the dashboard of its
\* answer holds the port, drops the filters and selects it.
ReceiveJob(s) ==
    /\ job[s].stage = "answered"
    /\ Finish(s)
    /\ panel' = job[s].copy
    /\ form' = IF job[s].key[1] = "create" THEN "empty" ELSE form
    /\ IF job[s].made \in Listed(job[s].copy)
       THEN filter' = "all" /\ selected' = job[s].made
       ELSE selected' = Reselect(selected, job[s].copy, filter) /\ UNCHANGED filter
    /\ UNCHANGED <<server, loads>>

\* Seeded fault: the form goes whatever the answer.
RefusedJobCleared(s) ==
    /\ job[s].stage = "refused"
    /\ Finish(s)
    /\ form' = IF job[s].key[1] = "create" THEN "empty" ELSE form
    /\ UNCHANGED <<copies, loads, selected, filter>>

\* The catch block: a notice, and everything else stays as it is.
RefusedJob(s) ==
    /\ job[s].stage = "refused"
    /\ Finish(s)
    /\ UNCHANGED <<copies, loads, choice>>

-----------------------------------------------------------------------------
(* The administrator.  An open dialog is modal: only its buttons work.      *)

AtHand(place) == dialog = None /\ workspace = place

\* DeliveryWorkspace: the form of a new port, the list, the selected port.
TypeForm ==
    /\ AtHand("delivery") /\ form = "empty"
    /\ form' = "typed"
    /\ UNCHANGED <<copies, loads, work, screen, selected, filter>>

SetFilter ==
    /\ AtHand("delivery")
    /\ filter' \in {"all", "on", "off"} \ {filter}
    /\ selected' = Reselect(selected, panel, filter')
    /\ UNCHANGED <<copies, loads, work, screen, form>>

SelectPort ==
    /\ AtHand("delivery")
    /\ selected' \in Filtered(panel, filter) \ {selected}
    /\ UNCHANGED <<copies, loads, work, screen, filter, form>>

CreatePort(s) ==
    /\ AtHand("delivery")
    /\ <<"create", None>> \in Keys
    /\ Start(s, <<"create", None>>)
    /\ UNCHANGED <<copies, loads, screen, choice>>

PortButton(s) ==
    /\ AtHand("delivery") /\ selected # None
    /\ \E kind \in Kinds \cap Direct : Start(s, <<kind, selected>>)
    /\ UNCHANGED <<copies, loads, screen, choice>>

Diagnose(s) ==
    /\ AtHand("hosts")
    /\ <<"diagnose", None>> \in Keys
    /\ Start(s, <<"diagnose", None>>)
    /\ UNCHANGED <<copies, loads, screen, choice>>

\* RoutingWorkspace: no routing change while one of the listed ones is under way.
RoutingBusy ==
    \/ scopeBusy # None
    \/ \E key \in busy : \/ key[1] \in {"scope", "mode"}
                         \/ key[1] = "port-scope" /\ key[2] \in Listed(panel)

SwitchScope(s) ==
    /\ AtHand("routing") /\ ~RoutingBusy
    /\ \/ <<"scope", None>> \in Keys /\ Start(s, <<"scope", None>>)
       \/ \E p \in Listed(panel) :
            <<"port-scope", p>> \in Keys /\ Start(s, <<"port-scope", p>>)
    /\ scopeBusy' = s
    /\ UNCHANGED <<copies, loads, dialog, workspace, choice>>

\* useConfirm.ask: what will be done is fixed now, not when it is confirmed.
Askable ==
    \/ /\ workspace = "delivery" /\ selected # None
       /\ dialog'.key \in (Kinds \cap Confirmed) \X {selected}
    \/ /\ workspace = "hosts"
       /\ dialog'.key \in (Kinds \cap Restarts) \X {None}
    \/ /\ workspace = "routing" /\ ~RoutingBusy
       /\ dialog'.key \in (Kinds \cap {"mode"}) \X {None}

AskFirst ==
    /\ dialog = None
    /\ dialog' \in [key : Keys, holder : {None}]
    /\ Askable /\ Free(dialog'.key)
    /\ UNCHANGED <<copies, loads, work, scopeBusy, workspace, choice>>

\* Cancel, Escape or a click beside the dialog; none of them once it is busy.
Cancel ==
    /\ dialog # None /\ dialog.holder = None
    /\ dialog' = None
    /\ UNCHANGED <<copies, loads, work, scopeBusy, workspace, choice>>

\* Seeded fault: what is done is the button's action on whatever port is
\* selected when the dialog is confirmed.
ConfirmSelected(s) ==
    /\ dialog # None /\ dialog.holder = None
    /\ Start(s, IF dialog.key[2] = None \/ selected = None THEN dialog.key
                ELSE <<dialog.key[1], selected>>)
    /\ dialog' = [dialog EXCEPT !.holder = s]
    /\ UNCHANGED <<copies, loads, scopeBusy, workspace, choice>>

Confirm(s) ==
    /\ dialog # None /\ dialog.holder = None
    /\ Start(s, dialog.key)
    /\ dialog' = [dialog EXCEPT !.holder = s]
    /\ UNCHANGED <<copies, loads, scopeBusy, workspace, choice>>

\* The old workspace is unmounted with its state, the actions go on.
SelectWorkspace ==
    /\ dialog = None
    /\ workspace' \in {"delivery", "routing", "hosts"} \ {workspace}
    /\ scopeBusy' = None
    /\ UNCHANGED <<copies, loads, work, dialog, choice>>

-----------------------------------------------------------------------------
\* Another administrator, a fulfilled order or the maintenance worker.
OthersChange ==
    /\ server.rev < MaxChanges
    /\ \E p \in Ports, st \in PortStates :
        st # server.port[p] /\ server' = Changed([server.port EXCEPT ![p] = st])
    /\ UNCHANGED <<panel, loads, work, screen, choice>>

ReadStep(r) == ServeRead(r) \/ ReceiveRead(r) \/ FailRead(r) \/ LoseRead(r)
JobStep(s) == ServeJob(s) \/ AnswerJob(s) \/ ReceiveJob(s) \/ RefusedJob(s)
Click(s) ==
    \/ CreatePort(s) \/ PortButton(s) \/ Diagnose(s) \/ SwitchScope(s) \/ Confirm(s)

ActionsNext ==
    \/ PollTimer \/ Refresh
    \/ \E r \in reads : ReadStep(r)
    \/ \E s \in Slots : JobStep(s) \/ Click(s)
    \/ TypeForm \/ SetFilter \/ SelectPort
    \/ AskFirst \/ Cancel \/ SelectWorkspace
    \/ OthersChange

\* The timer fires again and again, and time and again a poll reaches the backend
\* and comes back with an answer.  Nothing is assumed of the actions: a fetch has
\* no timeout, so any of them may hang.
PollServed == \E r \in reads : r.from = "poll" /\ ServeRead(r)
PollReceived == \E r \in reads : r.from = "poll" /\ ReceiveRead(r)
ActionsFairness ==
    /\ WF_actionsVars(PollTimer)
    /\ SF_actionsVars(PollServed) /\ SF_actionsVars(PollReceived)

ActionsSpec == ActionsInit /\ [][ActionsNext]_actionsVars /\ ActionsFairness

-----------------------------------------------------------------------------
Reads == [from : {"first", "poll", "manual"}, copy : Dashboard \cup {None}]
Jobs == [key : Keys \cup {None}, stage : {"idle", "sent", "done", "answered", "refused"},
         copy : Dashboard \cup {None}, made : Ports \cup {None}, since : 0..MaxChanges]
Dialogs == [key : Keys, holder : Slots \cup {None}] \cup {None}

\* Types.  The state of PanelProvider, of the dialog and of the requests is well-formed.
ActionsTypeOK ==
    /\ server \in Dashboard /\ panel \in Dashboard
    /\ loading \in BOOLEAN /\ refreshing \in BOOLEAN
    /\ reads \subseteq Reads /\ lost \subseteq {"first", "manual"}
    /\ job \in [Slots -> Jobs] /\ busy \subseteq Keys
    /\ scopeBusy \in Slots \cup {None} /\ dialog \in Dialogs
    /\ workspace \in {"delivery", "routing", "hosts"}
    /\ selected \in Ports \cup {None} /\ filter \in {"all", "on", "off"}
    /\ form \in {"empty", "typed"}

\* The flags the buttons look at are those of the requests under way: no key
\* has two actions, a button is blocked exactly as long as its action lasts, a
\* second manual refresh waits for the first (console.test.jsx:63), and only
\* one change of the AI routing is under way at a time (routing-details.test.jsx
\* :127 and :197) - but for the switch of a port whose workspace was left while
\* it ran: when that port also leaves the list, nothing tells of it.
OneAtATime ==
    /\ \A s, t \in Slots :
        Active(s) /\ Active(t) /\ s # t =>
            /\ job[s].key # job[t].key
            /\ {job[s].key[1], job[t].key[1]} \subseteq Routing =>
                \E u \in {s, t} : job[u].key[1] = "port-scope" /\ scopeBusy # u
    /\ busy = {job[s].key : s \in {t \in Slots : Active(t)}}
    /\ refreshing <=> "manual" \in lost \cup {r.from : r \in reads}
    /\ loading <=> "first" \in lost \cup {r.from : r \in reads}

Sent(s) == ~Active(s) /\ Active(s)'

\* What asks first is only done after the administrator has confirmed a dialog
\* that named this very port or node, whatever a poll has selected meanwhile.
ConfirmedOnly ==
    [][\A s \in Slots :
        Sent(s) /\ job'[s].key[1] \in Asked =>
            dialog # None /\ dialog.key = job'[s].key /\ dialog.holder = None]_actionsVars

\* The form of a new port is only emptied by the answer to a creation that the
\* backend has carried out, and then the port is selected and in the list, whatever
\* was filtered (workspaces.test.jsx:140, :172) - unless somebody changed the
\* inventory between the commit and the dashboard of the answer, which is the only
\* way for the port to be missing from it.
CreationKept ==
    [][form = "typed" /\ form' = "empty" =>
        \E s \in Slots :
            /\ job[s].stage = "answered" /\ job[s].key[1] = "create" /\ ~Active(s)'
            /\ job[s].made # None
            /\ IF job[s].made \in Listed(panel')
               THEN selected' = job[s].made /\ selected' \in Filtered(panel', filter')
               ELSE job[s].since < panel'.rev]_actionsVars

\* However answers cross, get lost or fail: time and again the console shows what
\* the backend holds (main page: refreshed every 15 seconds).
PanelCatchesUp == []<>(panel = server)

\* A dialog that can be neither cancelled nor escaped waits for the very action it
\* asked about, and that action is still under way: it never outlives the answer.
DialogHeld ==
    dialog # None /\ dialog.holder # None =>
        Active(dialog.holder) /\ job[dialog.holder].key = dialog.key
=============================================================================
