--------------------------- MODULE ProbeIncidents ---------------------------
(***************************************************************************)
(* Probe incidents: app/probe_incidents.py.                                *)
(*                                                                         *)
(* Every protocol probe of the panel and of the AI manager process records *)
(* its result in one transaction.  Enough failures of one kind in a row    *)
(* open an incident; workers claim open and closed incidents alike, have   *)
(* them diagnosed outside of any transaction, write a report to a file and *)
(* then the outcome to the database.                                       *)
(***************************************************************************)
EXTENDS Naturals, Sequences

CONSTANTS
    Targets,        \* probed targets (source and target of the code)
    Origins,        \* hosts the probes are executed on
    Workers,        \* diagnosis workers (one per running panel)
    FailureThreshold,
    MaxRecords,     \* bound: results recorded
    MaxErrors,      \* bound: storage operations of the workers that fail
    MaxCrashes      \* bound: deaths of a worker's panel

ASSUME ThresholdAssumption == FailureThreshold \in Nat \ {0}
ASSUME BoundsAssumption == {MaxRecords, MaxErrors, MaxCrashes} \subseteq Nat

VARIABLES
    streaks,        \* probe_failure_streaks: n = 0 where there is no row
    incidents,      \* probe_incidents, in the order they were inserted
    reports,        \* what the report file of each incident holds
    worker,         \* what each worker holds in its locals
    clock,          \* results recorded so far: the time of the code's timestamps
    latest,         \* per target: the latest result and how often in a row it came
    used            \* storage errors and crashes so far

vars == <<streaks, incidents, reports, worker, clock, latest, used>>

Kinds == {"node_failure", "executor_error"}
Failures == Kinds \X Origins
Success == <<"ok", "ok">>
Statuses == {"queued", "running", "completed", "failed"}
Finished == {"completed", "failed"}
Reports == {"none", "diagnosis", "unavailable"}
Steps == {"start", "recover", "claim", "diagnose", "report", "store", "ended"}

Streak == [n : 0..FailureThreshold, since : 0..MaxRecords]
Incident == [target : Targets, kind : Kinds, since : 0..MaxRecords, open : BOOLEAN,
             qualified : BOOLEAN, status : Statuses, stale : BOOLEAN]
WorkerState == [step : Steps, id : 0..(MaxRecords + 1), verdict : {"diagnosis", "unavailable"}]
NoStreak == [n |-> 0, since |-> 0]
AtRest == [step |-> "recover", id |-> 0, verdict |-> "diagnosis"]
Started == [AtRest EXCEPT !.step = "start"]

\* Incidents of a database that was migrated: history alone qualifies nothing,
\* an analysis already accepted keeps its lifecycle.
Migrated(t, status) ==
    [target |-> t, kind |-> "node_failure", since |-> 0, open |-> TRUE,
     qualified |-> status # "queued", status |-> status, stale |-> status = "running"]

Init ==
    /\ streaks = [t \in Targets |-> [f \in Failures |-> NoStreak]]
    /\ incidents \in {<<>>} \cup {<<Migrated(t, s)>> : t \in Targets, s \in {"queued", "running"}}
    /\ reports = [i \in 1..(MaxRecords + 1) |-> "none"]
    /\ worker = [w \in Workers |-> Started]
    /\ clock = 0
    /\ latest = [t \in Targets |-> [result |-> Success, n |-> 0]]
    /\ used = [errors |-> 0, crashes |-> 0]

-----------------------------------------------------------------------------
(* IncidentStore.record                                                     *)

Open(i, t, kinds) ==
    incidents[i].target = t /\ incidents[i].open /\ incidents[i].kind \in kinds
Close(t, kinds) ==
    [i \in DOMAIN incidents |->
        [incidents[i] EXCEPT !.open = @ /\ ~Open(i, t, kinds)]]

\* Nobody reads more than the last FailureThreshold results of a kind.
Repeated(t, result) ==
    [result |-> result,
     n |-> IF latest[t].result # result THEN 1
           ELSE IF latest[t].n < FailureThreshold THEN latest[t].n + 1 ELSE latest[t].n]

\* The one streak that goes on: any other kind or host of the target is cut.
\* Counting past the threshold makes no difference.
Longer(s) ==
    IF s.n = 0 THEN [n |-> 1, since |-> clock + 1]
    ELSE IF s.n < FailureThreshold THEN [s EXCEPT !.n = @ + 1] ELSE s
\* Seeded fault: only another kind, not another host, cuts the streak.
StreaksOfKind(t, kind, origin) ==
    [f \in Failures |->
        IF f = <<kind, origin>> THEN Longer(streaks[t][f])
        ELSE IF f[1] = kind THEN streaks[t][f] ELSE NoStreak]
Streaks(t, kind, origin) ==
    [f \in Failures |->
        IF f = <<kind, origin>> THEN Longer(streaks[t][f]) ELSE NoStreak]

NewIncident(t, kind, streak) ==
    [target |-> t, kind |-> kind, since |-> streak.since, open |-> TRUE,
     qualified |-> TRUE, status |-> "queued", stale |-> FALSE]

RecordSuccess(t) ==
    /\ clock < MaxRecords
    /\ clock' = clock + 1
    /\ latest' = [latest EXCEPT ![t] = Repeated(t, Success)]
    /\ streaks' = [streaks EXCEPT ![t] = [f \in Failures |-> NoStreak]]
    /\ incidents' = Close(t, Kinds)
    /\ UNCHANGED <<reports, worker, used>>

\* Seeded fault: an incident that is already there is not accepted any more.
RepeatedIncidentUnqualified(i, enough) == IF enough THEN i ELSE [i EXCEPT !.qualified = @]
RepeatedIncident(i, enough) == [i EXCEPT !.qualified = @ \/ enough]

\* A result of the target, even a failure, proves that the executor works.
ClosedBy(kind) == IF kind = "node_failure" THEN {"executor_error"} ELSE {}

RecordFailure(t, kind, origin) ==
    LET streak == Longer(streaks[t][<<kind, origin>>])
        enough == streak.n >= FailureThreshold
        closed == Close(t, ClosedBy(kind))
        current == {i \in DOMAIN closed : Open(i, t, {kind})}
    IN  /\ clock < MaxRecords
        /\ clock' = clock + 1
        /\ latest' = [latest EXCEPT ![t] = Repeated(t, <<kind, origin>>)]
        /\ streaks' = [streaks EXCEPT ![t] = Streaks(t, kind, origin)]
        /\ incidents' =
            IF current # {}
            THEN [i \in DOMAIN closed |->
                    IF i \in current THEN RepeatedIncident(closed[i], enough) ELSE closed[i]]
            ELSE IF enough THEN Append(closed, NewIncident(t, kind, streak)) ELSE closed
        /\ UNCHANGED <<reports, worker, used>>

Record == \E t \in Targets :
    RecordSuccess(t) \/ \E f \in Failures : RecordFailure(t, f[1], f[2])

-----------------------------------------------------------------------------
(* IncidentWorker.run                                                       *)

StorageFails == used.errors < MaxErrors /\ used' = [used EXCEPT !.errors = @ + 1]
GoOn(w, step) == worker' = [worker EXCEPT ![w].step = step]
Rest(w) == worker' = [worker EXCEPT ![w] = AtRest]

\* Seeded fault: every old claim is queued again, finished or not.
RecoverFinishedToo(w) ==
    /\ worker[w].step = "recover"
    /\ GoOn(w, "claim")
    /\ incidents' = [i \in DOMAIN incidents |->
            IF incidents[i].stale
            THEN [incidents[i] EXCEPT !.status = "queued", !.stale = FALSE] ELSE incidents[i]]
    /\ UNCHANGED <<streaks, reports, clock, latest, used>>
\* recover_stale: claims older than any analysis may take are queued again.
Recovered ==
    [i \in DOMAIN incidents |->
        IF incidents[i].status = "running" /\ incidents[i].stale
        THEN [incidents[i] EXCEPT !.status = "queued", !.stale = FALSE] ELSE incidents[i]]

\* The first recovery is made before the loop and its error handling: an error
\* of the storage ends the thread, and nothing starts it again but the next
\* start of the panel.
Begin(w) ==
    /\ worker[w].step = "start"
    /\ \/ GoOn(w, "recover") /\ incidents' = Recovered /\ UNCHANGED used
       \/ StorageFails /\ GoOn(w, "ended") /\ UNCHANGED incidents
    /\ UNCHANGED <<streaks, reports, clock, latest>>

\* Every round of the loop recovers first; an error is logged and waited out.
RecoverStale(w) ==
    /\ worker[w].step = "recover"
    /\ \/ GoOn(w, "claim") /\ incidents' = Recovered /\ UNCHANGED used
       \/ StorageFails /\ UNCHANGED <<worker, incidents>>
    /\ UNCHANGED <<streaks, reports, clock, latest>>

Claimable == {i \in DOMAIN incidents : incidents[i].status = "queued" /\ incidents[i].qualified}

\* Seeded fault: the claim is not written before the analysis starts.
ClaimUnmarked(w) ==
    /\ worker[w].step = "claim"
    /\ \/ \E i \in Claimable :
          /\ \A j \in Claimable : incidents[i].since <= incidents[j].since
          /\ worker' = [worker EXCEPT ![w] = [AtRest EXCEPT !.step = "diagnose", !.id = i]]
       \/ Claimable = {} /\ Rest(w)
    /\ UNCHANGED <<streaks, incidents, reports, clock, latest, used>>
\* The oldest queued and qualified incident.
Claim(w) ==
    /\ worker[w].step = "claim"
    /\ \/ \E i \in Claimable :
          /\ \A j \in Claimable : incidents[i].since <= incidents[j].since
          /\ incidents' = [incidents EXCEPT ![i].status = "running", ![i].stale = FALSE]
          /\ worker' = [worker EXCEPT ![w] = [AtRest EXCEPT !.step = "diagnose", !.id = i]]
          /\ UNCHANGED used
       \/ Claimable = {} /\ Rest(w) /\ UNCHANGED <<incidents, used>>
       \/ StorageFails /\ Rest(w) /\ UNCHANGED incidents
    /\ UNCHANGED <<streaks, reports, clock, latest>>

\* The model answers, or fails, times out or breaks its contract.
Diagnose(w) ==
    /\ worker[w].step = "diagnose"
    /\ \E v \in {"diagnosis", "unavailable"} :
        worker' = [worker EXCEPT ![w].step = "report", ![w].verdict = v]
    /\ UNCHANGED <<streaks, incidents, reports, clock, latest, used>>

\* An error while a diagnosis is being stored is handled by storing a failure
\* instead; an error while a failure is being stored leaves the claim.
OnError(w) ==
    IF worker[w].verdict = "diagnosis"
    THEN worker' = [worker EXCEPT ![w].step = "report", ![w].verdict = "unavailable"]
    ELSE Rest(w)

\* Seeded fault: the report of a failed attempt is kept.
WriteReportOnce(w) ==
    /\ worker[w].step = "report"
    /\ GoOn(w, "store")
    /\ reports' = [reports EXCEPT ![worker[w].id] = IF @ = "none" THEN worker[w].verdict ELSE @]
    /\ UNCHANGED <<streaks, incidents, clock, latest, used>>
\* finish, first the file
WriteReport(w) ==
    /\ worker[w].step = "report"
    /\ \/ /\ GoOn(w, "store") /\ UNCHANGED used
          /\ reports' = [reports EXCEPT ![worker[w].id] = worker[w].verdict]
       \/ StorageFails /\ OnError(w) /\ UNCHANGED reports
    /\ UNCHANGED <<streaks, incidents, clock, latest>>

\* Seeded fault: a failure that cannot be stored is forgotten.
StoreOrForget(w) ==
    /\ worker[w].step = "store" /\ Rest(w)
    /\ incidents' = [incidents EXCEPT
            ![worker[w].id].status = IF worker[w].verdict = "diagnosis" THEN "completed" ELSE @]
    /\ UNCHANGED <<streaks, reports, clock, latest, used>>
\* Seeded fault: what is stored is the kind of report.
StoreVerdict(w) ==
    /\ worker[w].step = "store" /\ Rest(w)
    /\ incidents' = [incidents EXCEPT ![worker[w].id].status = worker[w].verdict]
    /\ UNCHANGED <<streaks, reports, clock, latest, used>>
\* finish, then the row
Store(w) ==
    /\ worker[w].step = "store"
    /\ \/ /\ Rest(w) /\ UNCHANGED used
          /\ incidents' = [incidents EXCEPT ![worker[w].id].status =
                    IF worker[w].verdict = "diagnosis" THEN "completed" ELSE "failed"]
       \/ StorageFails /\ OnError(w) /\ UNCHANGED incidents
    /\ UNCHANGED <<streaks, reports, clock, latest>>

Work(w) == Begin(w) \/ RecoverStale(w) \/ Claim(w) \/ Diagnose(w) \/ WriteReport(w) \/ Store(w)

\* The panel dies, with or without its diagnosis thread, and is started again.
Crash(w) ==
    /\ worker[w].step # "start"
    /\ used.crashes < MaxCrashes
    /\ used' = [used EXCEPT !.crashes = @ + 1]
    /\ worker' = [worker EXCEPT ![w] = Started]
    /\ UNCHANGED <<streaks, incidents, reports, clock, latest>>

Holds(w, i) == worker[w].id = i /\ worker[w].step \in {"diagnose", "report", "store"}

\* An analysis ends before its claim is old enough: only a claim that no
\* worker holds any longer gets there (the time of the claim stays in the row).
ClaimAges(i) ==
    /\ incidents[i].status # "queued" /\ ~incidents[i].stale
    /\ \A w \in Workers : ~Holds(w, i)
    /\ incidents' = [incidents EXCEPT ![i].stale = TRUE]
    /\ UNCHANGED <<streaks, reports, worker, clock, latest, used>>

Next ==
    \/ Record
    \/ \E w \in Workers : Work(w) \/ Crash(w)
    \/ \E i \in DOMAIN incidents : ClaimAges(i)

Spec == Init /\ [][Next]_vars

\* A worker's loop goes on for as long as its thread lives, and time passes.
\* Nothing is asked of a thread that has ended, nor that its panel restarts.
FairSpec ==
    /\ Spec
    /\ \A w \in Workers : WF_vars(Work(w))
    /\ WF_vars(\E i \in DOMAIN incidents : ClaimAges(i))

-----------------------------------------------------------------------------
\* Types.  Rows, claims and workers are well-formed, and streaks stay in their range.
TypeOK ==
    /\ streaks \in [Targets -> [Failures -> Streak]]
    /\ incidents \in Seq(Incident)
    /\ reports \in [1..(MaxRecords + 1) -> Reports]
    /\ worker \in [Workers -> WorkerState]
    /\ clock \in 0..MaxRecords
    /\ latest \in [Targets -> [result : {Success} \cup Failures, n : 0..FailureThreshold]]
    /\ used \in [errors : 0..MaxErrors, crashes : 0..MaxCrashes]

\* A target whose latest result is a success has no open incident, one whose
\* latest result is a failure of the node has no open executor incident, and
\* one that failed often enough in a row, in one way and seen from one host,
\* has exactly one open incident of that kind, accepted for diagnosis
\* (operations.md:267 and 269).
IncidentsFollowResults ==
    \A t \in Targets :
        LET open == {i \in DOMAIN incidents : Open(i, t, Kinds)}
            last == latest[t].result
        IN  latest[t].n > 0 =>
            IF last = Success THEN open = {}
            ELSE /\ last[1] = "node_failure" => \A i \in open : incidents[i].kind = "node_failure"
                 /\ latest[t].n >= FailureThreshold =>
                      \E i \in open : /\ incidents[i].kind = last[1] /\ incidents[i].qualified
                                      /\ \A j \in open \ {i} : incidents[j].kind # last[1]

\* Nothing but enough failures in a row, of one kind and from one host, makes
\* an incident a candidate for diagnosis, and an incident of the node is only
\* closed by a success (operations.md:267-269).
EvidenceDecides ==
    [][/\ \A i \in DOMAIN incidents' :
            (i \notin DOMAIN incidents \/ ~incidents[i].qualified) /\ incidents'[i].qualified =>
                LET last == latest'[incidents'[i].target]
                IN  last.n >= FailureThreshold /\ last.result[1] = incidents'[i].kind
       /\ \A i \in DOMAIN incidents :
            incidents[i].kind = "node_failure" /\ incidents[i].open /\ ~incidents'[i].open =>
                latest'[incidents[i].target].result = Success]_vars

\* No two workers analyse the same incident, and what a worker analyses is
\* marked as running.
OneAnalysisEach ==
    \A v, w \in Workers : \A i \in DOMAIN incidents :
        Holds(v, i) /\ Holds(w, i) => v = w /\ incidents[i].status = "running"

\* A finished analysis is final: no later failure, retry or recovery of a
\* claim opens it again (operations.md:269: queued for analysis only once).
FinishedStays ==
    [][\A i \in DOMAIN incidents :
        incidents[i].status \in Finished => incidents'[i].status = incidents[i].status]_vars

\* The report of a completed incident holds a diagnosis, the report of a
\* failed one says there is none, whatever went wrong while they were stored.
ReportMatchesStatus ==
    \A i \in DOMAIN incidents :
        /\ incidents[i].status = "completed" => reports[i] = "diagnosis"
        /\ incidents[i].status = "failed" => reports[i] = "unavailable"

\* Every incident accepted for diagnosis ends completed or failed, unless there
\* comes a moment at which no panel has its diagnosis thread any more: whatever
\* one storage error or one death leaves behind, another worker finishes.
EventuallyFinished ==
    \A i \in 1..(MaxRecords + 1) :
        (i \in DOMAIN incidents /\ incidents[i].qualified)
            ~> \/ i \in DOMAIN incidents /\ incidents[i].status \in Finished
               \/ \A w \in Workers : worker[w].step = "ended"
=============================================================================
