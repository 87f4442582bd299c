----------------------------- MODULE ConsoleReads -----------------------------
(***************************************************************************)
(* What the admin console reads in the background and on demand: the       *)
(* statistics of a period, the incident records and one incident's report  *)
(* (frontend/src/admin/state/PanelProvider.jsx, IncidentRecords.jsx).      *)
(*                                                                         *)
(* Timers and clicks start requests that overlap; the server reads its     *)
(* data at some moment after that, and the answers come back in any order, *)
(* as errors, or never.  Each pane counts its requests in a ref and only   *)
(* the newest one may touch the pane, so of that counter a request keeps   *)
(* one bit here: is it still the newest.                                   *)
(***************************************************************************)
EXTENDS Naturals, FiniteSets

CONSTANTS
    Periods,        \* the periods the statistics can be asked for
    FirstPeriod,    \* the one the console starts with
    Records,        \* incidents whose report can be opened
    Everything,     \* what the list of incidents is asked for
    Closed,         \* no report is open
    Nothing,        \* no answer is shown
    Unread,         \* the server has not looked at the data yet
    MaxVersion,     \* bound: changes of the data on the server
    MaxInFlight,    \* bound: requests of a pane under way at a time
    MaxLost         \* bound: requests that are never answered

ASSUME QuestionsAssumption ==
    /\ FirstPeriod \in Periods
    /\ Closed \notin Records
ASSUME AnswersAssumption ==
    /\ Unread \notin Nat
    /\ Nothing \notin [to : Periods \cup Records \cup {Everything, Closed}, version : Nat]
ASSUME BoundsAssumption ==
    {MaxVersion, MaxInFlight, MaxLost} \subseteq Nat

Panes == {"insights", "incidents", "report"}
Polled == {"insights", "incidents"}

Questions(p) ==
    CASE p = "insights"  -> Periods
      [] p = "incidents" -> {Everything}
      [] OTHER           -> Records \cup {Closed}

VARIABLES
    question,       \* insightsDays; the incident whose report is open
    shown,          \* insights, incidents and report.text
    error,          \* insightsError, incidentsError, report.error are set
    loading,        \* insightsLoading, incidentsLoading, report.loading
    pending,        \* the requests under way
    version,        \* how often the data on the server has changed
    lost            \* requests never answered so far

readsVars == <<question, shown, error, loading, pending, version, lost>>

Request(q) == [to |-> q, newest |-> TRUE, read |-> Unread]
Superseded(requests) == {[r EXCEPT !.newest = FALSE] : r \in requests}

\* The effects of the mount have run: both polled panes have been asked for.
ReadsInit ==
    /\ question = [p \in Panes |-> CASE p = "insights"  -> FirstPeriod
                                     [] p = "incidents" -> Everything
                                     [] OTHER           -> Closed]
    /\ shown = [p \in Panes |-> Nothing]
    /\ error = [p \in Panes |-> FALSE]
    /\ loading = [p \in Panes |-> p \in Polled]
    /\ pending = [p \in Panes |-> IF p \in Polled THEN {Request(question[p])} ELSE {}]
    /\ version = 0 /\ lost = 0

-----------------------------------------------------------------------------
(* Asking.  The counter goes up, the flag up and the error down.            *)

Ask(p, q, kept) ==
    /\ Cardinality(pending[p]) < MaxInFlight
    /\ question' = [question EXCEPT ![p] = q]
    /\ shown' = [shown EXCEPT ![p] = kept]
    /\ error' = [error EXCEPT ![p] = FALSE]
    /\ loading' = [loading EXCEPT ![p] = TRUE]
    /\ pending' = [pending EXCEPT ![p] = Superseded(@) \cup {Request(q)}]
    /\ UNCHANGED <<version, lost>>

\* Seeded fault: no request while one is under way.
InsightsTimerWaiting ==
    ~loading["insights"] /\ Ask("insights", question["insights"], shown["insights"])

\* The interval effect, re-created with the period of the moment.
InsightsTimer == Ask("insights", question["insights"], shown["insights"])

ChangeInsightsDays == \E d \in Periods : Ask("insights", d, Nothing)

IncidentsTimer == Ask("incidents", Everything, shown["incidents"])

\* The refresh button, disabled while a load is under way.
RefreshIncidents == ~loading["incidents"] /\ IncidentsTimer

\* The report opens in a modal dialog: another one only after it is closed.
OpenReport ==
    /\ question["report"] = Closed
    /\ \E i \in Records : Ask("report", i, Nothing)

CloseReport ==
    /\ question["report"] # Closed
    /\ question' = [question EXCEPT !["report"] = Closed]
    /\ shown' = [shown EXCEPT !["report"] = Nothing]
    /\ error' = [error EXCEPT !["report"] = FALSE]
    /\ loading' = [loading EXCEPT !["report"] = FALSE]
    /\ pending' = [pending EXCEPT !["report"] = Superseded(@)]
    /\ UNCHANGED <<version, lost>>

-----------------------------------------------------------------------------
(* Answers.                                                                 *)

\* The server takes the data as it is now.
Serve(p, r) ==
    /\ r \in pending[p] /\ r.read = Unread
    /\ pending' = [pending EXCEPT ![p] = (@ \ {r}) \cup {[r EXCEPT !.read = version]}]
    /\ UNCHANGED <<question, shown, error, loading, version, lost>>

Done(p, r) == pending' = [pending EXCEPT ![p] = @ \ {r}]

\* Seeded fault: instead of the counter, the question is compared.
ReceiveSameQuestion(p, r) ==
    /\ r \in pending[p] /\ r.read # Unread
    /\ Done(p, r)
    /\ IF r.to = question[p]
       THEN /\ shown' = [shown EXCEPT ![p] = [to |-> r.to, version |-> r.read]]
            /\ error' = [error EXCEPT ![p] = FALSE]
            /\ loading' = [loading EXCEPT ![p] = FALSE]
       ELSE UNCHANGED <<shown, error, loading>>
    /\ UNCHANGED <<question, version, lost>>

\* The try block: a request that is no longer the newest leaves no trace.
Receive(p, r) ==
    /\ r \in pending[p] /\ r.read # Unread
    /\ Done(p, r)
    /\ IF r.newest
       THEN /\ shown' = [shown EXCEPT ![p] = [to |-> r.to, version |-> r.read]]
            /\ error' = [error EXCEPT ![p] = FALSE]
            /\ loading' = [loading EXCEPT ![p] = FALSE]
       ELSE UNCHANGED <<shown, error, loading>>
    /\ UNCHANGED <<question, version, lost>>

\* Seeded fault: a failure clears the pane and says nothing.
FailSilently(p, r) ==
    /\ r \in pending[p]
    /\ Done(p, r)
    /\ IF r.newest
       THEN /\ shown' = [shown EXCEPT ![p] = IF p = "incidents" THEN @ ELSE Nothing]
            /\ loading' = [loading EXCEPT ![p] = FALSE]
       ELSE UNCHANGED <<shown, loading>>
    /\ UNCHANGED <<question, error, version, lost>>

\* The catch block: the statistics and the text go, the list of incidents stays.
Fail(p, r) ==
    /\ r \in pending[p]
    /\ Done(p, r)
    /\ IF r.newest
       THEN /\ shown' = [shown EXCEPT ![p] = IF p = "incidents" THEN @ ELSE Nothing]
            /\ error' = [error EXCEPT ![p] = TRUE]
            /\ loading' = [loading EXCEPT ![p] = FALSE]
       ELSE UNCHANGED <<shown, error, loading>>
    /\ UNCHANGED <<question, version, lost>>

\* No answer ever comes: fetch is called without a timeout.
Lose(p, r) ==
    /\ lost < MaxLost /\ lost' = lost + 1
    /\ r \in pending[p]
    /\ Done(p, r)
    /\ UNCHANGED <<question, shown, error, loading, version>>

\* Traffic is counted, an incident is opened, a report is finished.
DataChanges ==
    /\ version < MaxVersion /\ version' = version + 1
    /\ UNCHANGED <<question, shown, error, loading, pending, lost>>

Newest(p) == {r \in pending[p] : r.newest}
Timer(p) == IF p = "insights" THEN InsightsTimer ELSE IncidentsTimer
Ends(p) == \E r \in pending[p] : Receive(p, r) \/ Fail(p, r)

ReadsNext ==
    \/ InsightsTimer \/ ChangeInsightsDays
    \/ IncidentsTimer \/ RefreshIncidents
    \/ OpenReport \/ CloseReport
    \/ \E p \in Panes : \E r \in pending[p] :
        Serve(p, r) \/ Receive(p, r) \/ Fail(p, r) \/ Lose(p, r)
    \/ DataChanges

ReadsSpec == ReadsInit /\ [][ReadsNext]_readsVars

\* The timer goes on, requests end, and time and again the newest one is served
\* and answered before the next one supersedes it: a period lasts minutes.
PaneFairness(p) ==
    /\ WF_readsVars(Timer(p)) /\ WF_readsVars(Ends(p))
    /\ SF_readsVars(\E r \in Newest(p) : Serve(p, r))
    /\ SF_readsVars(\E r \in Newest(p) : Receive(p, r))

-----------------------------------------------------------------------------
(* What the workspaces make of it.                                          *)

\* TrafficWorkspace shows statistics only under the period they are of.
Traffic ==
    IF shown["insights"] # Nothing /\ shown["insights"].to = question["insights"]
    THEN shown["insights"] ELSE Nothing

\* Where there are no figures, a message says why.
HistoryMessage ==
    IF loading["insights"] THEN "loading" ELSE IF error["insights"] THEN "error" ELSE "not loaded"

\* IncidentRecords says that there are no incidents.
NoIncidents ==
    /\ ~loading["incidents"] /\ ~error["incidents"]
    /\ shown["incidents"] = Nothing \/ shown["incidents"].version = 0

\* The dialog of a report: waiting, an error, or the text.
ReportDialog ==
    IF question["report"] = Closed THEN {}
    ELSE {part \in {"waiting", "error", "text"} :
            \/ part = "waiting" /\ loading["report"]
            \/ part = "error" /\ error["report"]
            \/ part = "text" /\ shown["report"] # Nothing}

-----------------------------------------------------------------------------
Versions == 0..MaxVersion
Answers(p) == [to : Questions(p), version : Versions]
Requests(p) == [to : Questions(p), newest : BOOLEAN, read : Versions \cup {Unread}]

\* Types.  A pane holds questions it can be asked and answers to such a question.
ReadsTypeOK ==
    /\ question \in [Panes -> UNION {Questions(p) : p \in Panes}]
    /\ \A p \in Panes :
        /\ question[p] \in Questions(p)
        /\ shown[p] \in Answers(p) \cup {Nothing}
        /\ pending[p] \subseteq Requests(p)
    /\ shown \in [Panes -> (UNION {Answers(p) : p \in Panes}) \cup {Nothing}]
    /\ error \in [Panes -> BOOLEAN] /\ loading \in [Panes -> BOOLEAN]
    /\ pending \in [Panes -> SUBSET UNION {Requests(p) : p \in Panes}]
    /\ version \in Versions /\ lost \in 0..MaxLost

\* An administrator is never left without an explanation: the statistics are
\* there, or being loaded, or failed, but never "not loaded yet"; that there are
\* no incidents is said only after the backend has said so; an open report shows
\* exactly one of waiting, error and text.
BlankExplained ==
    /\ Traffic = Nothing => HistoryMessage # "not loaded"
    /\ NoIncidents => shown["incidents"] # Nothing
    /\ question["report"] # Closed => \E part \in {"waiting", "error", "text"} : ReportDialog = {part}

\* Each pane keeps the promise of FreshPane: whatever crosses, fails or gets lost,
\* it shows an answer to the question it stands at, and never goes back in time.
InsightsPane == INSTANCE FreshPane WITH
    Topics <- Questions("insights"), question <- question["insights"], answer <- shown["insights"]
IncidentsPane == INSTANCE FreshPane WITH
    Topics <- Questions("incidents"), question <- question["incidents"], answer <- shown["incidents"]
ReportPane == INSTANCE FreshPane WITH
    Topics <- Questions("report"), question <- question["report"], answer <- shown["report"]

PanesFresh == InsightsPane!Spec /\ IncidentsPane!Spec /\ ReportPane!Spec

\* A polled pane shows the data the backend holds, and no spinner.
CaughtUp(p) == ~loading[p] /\ shown[p] # Nothing /\ shown[p].version = version
=============================================================================
