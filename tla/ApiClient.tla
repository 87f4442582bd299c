------------------------------- MODULE ApiClient -------------------------------
(***************************************************************************)
(* How a request of the single page applications ends                      *)
(* (frontend/src/shared/apiClient.js): the client turns every failure into *)
(* an error object, sends some of them to /api/client-errors, leaves for   *)
(* the login page on a 401 and throws.  A caller that lets the error       *)
(* escape meets the handlers that were installed for the whole page, which *)
(* report it too; a WeakSet of error objects is what keeps that to once.   *)
(***************************************************************************)
EXTENDS Naturals, FiniteSets

CONSTANTS
    Calls,          \* requests, each with the error object it may throw
    Installers      \* entry points and effects that install the page's handlers

Statuses == {200, 404, 401, 500}
Unanswered == 0

VARIABLES
    call,           \* each request: how far it is, the status of its answer
    reportedErrors, \* the WeakSet, by the request whose error it holds
    reports,        \* how many reports each error has been sent in
    bounced,        \* requests that have sent the page to the login
    installed,      \* window.__clientErrorLoggingInstalled
    listening       \* installers whose window handlers are registered

clientVars == <<call, reportedErrors, reports, bounced, installed, listening>>

Stages == {"idle", "sent", "answered", "thrown", "returned", "dropped"}

ClientInit ==
    /\ call = [c \in Calls |-> [stage |-> "idle", status |-> Unanswered]]
    /\ reportedErrors = {} /\ reports = [c \in Calls |-> 0]
    /\ bounced = {}
    /\ installed = FALSE /\ listening = {}

\* Seeded fault: no WeakSet.
ReportErrorAlways(c) ==
    /\ reportedErrors' = reportedErrors \cup {c}
    /\ reports' = [reports EXCEPT ![c] = @ + 1]

\* reportClientError after markErrorReported.  That the report itself gets lost
\* is swallowed: it neither throws nor is reported.
ReportError(c) ==
    /\ reportedErrors' = reportedErrors \cup {c}
    /\ reports' = [reports EXCEPT ![c] = @ + IF c \in reportedErrors THEN 0 ELSE 1]

NoReport == UNCHANGED <<reportedErrors, reports>>

ShouldReport(status) == status = 401 \/ status >= 500

CallEnds(c, stage) == call' = [call EXCEPT ![c].stage = stage]

-----------------------------------------------------------------------------
(* request()                                                                *)

SendCall(c) ==
    /\ call[c].stage = "idle"
    /\ CallEnds(c, "sent")
    /\ NoReport /\ UNCHANGED <<bounced, installed, listening>>

FetchFails(c) ==
    /\ call[c].stage = "sent"
    /\ CallEnds(c, "thrown")
    /\ ReportError(c) /\ UNCHANGED <<bounced, installed, listening>>

AnswerCall(c) ==
    /\ call[c].stage = "sent"
    /\ \E s \in Statuses : call' = [call EXCEPT ![c] = [stage |-> "answered", status |-> s]]
    /\ NoReport /\ UNCHANGED <<bounced, installed, listening>>

ReadFails(c) ==
    /\ call[c].stage = "answered"
    /\ CallEnds(c, "thrown")
    /\ ReportError(c) /\ UNCHANGED <<bounced, installed, listening>>

Bounce(c) == bounced' = IF call[c].status = 401 THEN bounced \cup {c} ELSE bounced

\* A page of HTML, say, where JSON was expected.
ParseFails(c) ==
    /\ call[c].stage = "answered"
    /\ CallEnds(c, "thrown")
    /\ ReportError(c) /\ Bounce(c) /\ UNCHANGED <<installed, listening>>

\* A 401, another HTTP error, or ok: false in an answer of status 200.
RefusedCall(c) ==
    /\ call[c].stage = "answered"
    /\ CallEnds(c, "thrown")
    /\ IF ShouldReport(call[c].status) THEN ReportError(c) ELSE NoReport
    /\ Bounce(c) /\ UNCHANGED <<installed, listening>>

ReturnData(c) ==
    /\ call[c].stage = "answered" /\ call[c].status = 200
    /\ CallEnds(c, "returned")
    /\ NoReport /\ UNCHANGED <<bounced, installed, listening>>

-----------------------------------------------------------------------------
(* The callers.                                                             *)

\* A view shows the message, refreshMe forgets the customer.
Catch(c) ==
    /\ call[c].stage = "thrown"
    /\ CallEnds(c, "dropped")
    /\ NoReport /\ UNCHANGED <<bounced, installed, listening>>

\* Nobody catches it (logout has only a finally): the window's handlers, Vue's or
\* the error boundary get to see the same object.
Escape(c) ==
    /\ call[c].stage = "thrown"
    /\ CallEnds(c, "dropped")
    /\ \/ listening # {} /\ ReportError(c)
       \/ listening = {} /\ NoReport
    /\ UNCHANGED <<bounced, installed, listening>>

\* Vue's errorHandler and ErrorBoundary.componentDidCatch need no window handler.
Handled(c) ==
    /\ call[c].stage = "thrown"
    /\ CallEnds(c, "dropped")
    /\ ReportError(c) /\ UNCHANGED <<bounced, installed, listening>>

\* A second installation changes nothing, and neither does its clean-up.
Install(i) ==
    /\ ~installed
    /\ installed' = TRUE /\ listening' = listening \cup {i}
    /\ UNCHANGED <<call, reportedErrors, reports, bounced>>

Uninstall(i) ==
    /\ i \in listening
    /\ installed' = FALSE /\ listening' = listening \ {i}
    /\ UNCHANGED <<call, reportedErrors, reports, bounced>>

ClientNext ==
    \/ \E c \in Calls :
        \/ SendCall(c) \/ FetchFails(c) \/ AnswerCall(c) \/ ReadFails(c) \/ ParseFails(c)
        \/ RefusedCall(c) \/ ReturnData(c) \/ Catch(c) \/ Escape(c) \/ Handled(c)
    \/ \E i \in Installers : Install(i) \/ Uninstall(i)

ClientSpec == ClientInit /\ [][ClientNext]_clientVars

-----------------------------------------------------------------------------
\* Types.  Every request is at one stage of request(); a report is counted per error object.
ClientTypeOK ==
    /\ call \in [Calls -> [stage : Stages, status : Statuses \cup {Unanswered}]]
    /\ reportedErrors \subseteq Calls /\ reports \in [Calls -> Nat]
    /\ bounced \subseteq Calls
    /\ installed \in BOOLEAN /\ listening \subseteq Installers

CallFailed(c) == call[c].stage \in {"thrown", "dropped"}

\* However many handlers get to see an error object, it is reported once at most
\* (the WeakSet of apiClient.js:16), and no page ever listens twice; what the
\* operator has to know of (no answer, a 401, a 5xx) is reported; and
\* only a refused request leads to the login.
ReportedOnce ==
    /\ \A c \in Calls :
        /\ reports[c] <= 1
        /\ CallFailed(c) /\ (call[c].status = Unanswered \/ ShouldReport(call[c].status)) =>
            reports[c] = 1
        /\ c \in bounced => call[c].status = 401 /\ CallFailed(c)
    /\ Cardinality(listening) <= 1 /\ (installed <=> listening # {})
=============================================================================
