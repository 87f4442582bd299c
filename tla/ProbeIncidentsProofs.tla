------------------------ MODULE ProbeIncidentsProofs ------------------------
(***************************************************************************)
(* Proofs about ProbeIncidents for every number of targets, hosts and      *)
(* workers, every threshold and every bound.                               *)
(*                                                                         *)
(* The invariant ties three places together that the code writes in three  *)
(* separate steps: the worker's locals, the incident's row and the report  *)
(* file.                                                                   *)
(***************************************************************************)
EXTENDS ProbeIncidents, SequenceTheorems, TLAPS

Busy(w) == worker[w].step \in {"diagnose", "report", "store"}

\* What a worker holds is a row that is marked running, is not yet old enough
\* to be queued again, and is held by no other worker.
ClaimsHeld ==
    \A w \in Workers : Busy(w) =>
        /\ worker[w].id \in DOMAIN incidents
        /\ incidents[worker[w].id].status = "running"
        /\ ~incidents[worker[w].id].stale
        /\ \A v \in Workers : Busy(v) /\ worker[v].id = worker[w].id => v = w

\* Between the two halves of finish the file holds what the row will say.
ReportsWritten ==
    \A w \in Workers : worker[w].step = "store" =>
        reports[worker[w].id] = worker[w].verdict

\* A result opens at most one incident.
RowsBounded == Len(incidents) <= clock + 1

IInv == TypeOK /\ RowsBounded /\ ClaimsHeld /\ ReportsWritten /\ ReportMatchesStatus

-----------------------------------------------------------------------------
\* The incident list as a function on the numbers of its rows.
LEMMA RowsAreFunction ==
    ASSUME NEW rows \in Seq(Incident)
    PROVE  /\ Len(rows) \in Nat
           /\ DOMAIN rows = 1..Len(rows)
           /\ rows \in [1..Len(rows) -> Incident]
  BY LenProperties

\* Rewriting rows one by one keeps the list a list of the same length.
LEMMA RowsRewritten ==
    ASSUME NEW rows \in Seq(Incident), NEW new \in [DOMAIN rows -> Incident]
    PROVE  /\ new \in Seq(Incident)
           /\ Len(new) = Len(rows)
           /\ DOMAIN new = DOMAIN rows
<1>1. Len(rows) \in Nat /\ DOMAIN rows = 1..Len(rows)
  BY RowsAreFunction
<1>2. new \in [1..Len(rows) -> Incident]
  BY <1>1
<1>3. new \in Seq(Incident)
  BY <1>1, <1>2, SeqDef
<1>4. DOMAIN new = 1..Len(new) /\ Len(new) \in Nat
  BY <1>3, RowsAreFunction
<1>. QED
  BY <1>1, <1>2, <1>3, <1>4

\* Closing incidents of a target changes nothing but whether they are open.
LEMMA CloseRows ==
    ASSUME TypeOK, NEW t \in Targets, NEW kinds
    PROVE  /\ Close(t, kinds) \in Seq(Incident)
           /\ Len(Close(t, kinds)) = Len(incidents)
           /\ DOMAIN Close(t, kinds) = DOMAIN incidents
           /\ \A i \in DOMAIN incidents :
                /\ Close(t, kinds)[i] \in Incident
                /\ Close(t, kinds)[i].status = incidents[i].status
                /\ Close(t, kinds)[i].stale = incidents[i].stale
<1>1. incidents \in Seq(Incident)
  BY DEF TypeOK
<1>2. \A i \in DOMAIN incidents : incidents[i] \in Incident
  BY <1>1, RowsAreFunction
<1>3. ASSUME NEW row \in Incident, NEW open \in BOOLEAN
      PROVE  /\ [row EXCEPT !.open = open] \in Incident
             /\ [row EXCEPT !.open = open].status = row.status
             /\ [row EXCEPT !.open = open].stale = row.stale
  BY DEF Incident
<1>4. ASSUME NEW i \in DOMAIN incidents
      PROVE  /\ Close(t, kinds)[i] \in Incident
             /\ Close(t, kinds)[i].status = incidents[i].status
             /\ Close(t, kinds)[i].stale = incidents[i].stale
  <2>. DEFINE open == incidents[i].open /\ ~Open(i, t, kinds)
  <2>1. Close(t, kinds)[i] = [incidents[i] EXCEPT !.open = open]
    BY Zenon DEF Close
  <2>2. open \in BOOLEAN
    OBVIOUS
  <2>. QED
    BY <1>2, <1>3, <2>1, <2>2, Zenon
<1>5. Close(t, kinds) \in [DOMAIN incidents -> Incident]
  BY <1>4, Zenon DEF Close
<1>. QED
  BY <1>1, <1>4, <1>5, RowsRewritten

LEMMA LongerStreak ==
    ASSUME ThresholdAssumption, BoundsAssumption, clock \in Nat, clock < MaxRecords,
           NEW s \in Streak
    PROVE  Longer(s) \in Streak
  BY DEF ThresholdAssumption, BoundsAssumption, Streak, Longer

\* What the invariant says of a list of rows does not depend on more than
\* this: the rows the workers hold are still there, running and not old, and
\* the rows that are finished were finished before.
LEMMA RowsForWorkers ==
    ASSUME IInv, NEW new \in Seq(Incident),
           Len(incidents) <= Len(new),
           \A i \in DOMAIN incidents :
                new[i].status = incidents[i].status /\ new[i].stale = incidents[i].stale,
           \A i \in DOMAIN new \ DOMAIN incidents : new[i].status = "queued",
           incidents' = new, UNCHANGED <<worker, reports>>
    PROVE  ClaimsHeld' /\ ReportsWritten' /\ ReportMatchesStatus'
<1>1. DOMAIN incidents \subseteq DOMAIN new
  BY RowsAreFunction DEF IInv, TypeOK
<1>2. ClaimsHeld'
  BY <1>1 DEF IInv, ClaimsHeld, Busy
<1>3. ReportsWritten'
  BY DEF IInv, ReportsWritten
<1>4. ReportMatchesStatus'
  BY <1>1 DEF IInv, ReportMatchesStatus
<1>. QED
  BY <1>2, <1>3, <1>4

-----------------------------------------------------------------------------
LEMMA InitKeeps ==
    ASSUME ThresholdAssumption, BoundsAssumption, Init
    PROVE  IInv
<1>1. incidents \in Seq(Incident) /\ Len(incidents) <= 1
  <2>1. CASE incidents = <<>>
    BY <2>1
  <2>2. ASSUME NEW t \in Targets, NEW s \in {"queued", "running"},
               incidents = <<Migrated(t, s)>>
        PROVE  incidents \in Seq(Incident) /\ Len(incidents) <= 1
    <3>1. Migrated(t, s) \in Incident
      BY DEF BoundsAssumption, Migrated, Incident, Statuses, Kinds
    <3>. QED
      BY <2>2, <3>1
  <2>. QED
    BY <2>1, <2>2 DEF Init
<1>2. TypeOK
  <2>1. latest \in [Targets -> [result : {Success} \cup Failures, n : 0..FailureThreshold]]
    BY DEF Init, ThresholdAssumption
  <2>2. streaks \in [Targets -> [Failures -> Streak]]
    BY DEF Init, ThresholdAssumption, BoundsAssumption, NoStreak, Streak
  <2>3. worker \in [Workers -> WorkerState]
    BY DEF Init, BoundsAssumption, AtRest, Started, WorkerState, Steps
  <2>4. reports \in [1..(MaxRecords + 1) -> Reports]
    BY DEF Init, Reports
  <2>5. clock \in 0..MaxRecords /\ used \in [errors : 0..MaxErrors, crashes : 0..MaxCrashes]
    BY DEF Init, BoundsAssumption
  <2>. QED
    BY <1>1, <2>1, <2>2, <2>3, <2>4, <2>5 DEF TypeOK
<1>3. RowsBounded
  BY <1>1 DEF Init, RowsBounded
<1>4. ClaimsHeld /\ ReportsWritten
  BY DEF Init, ClaimsHeld, ReportsWritten, Busy, AtRest, Started
<1>5. ReportMatchesStatus
  <2>1. \A i \in DOMAIN incidents : incidents[i].status \in {"queued", "running"}
    BY DEF Init, Migrated
  <2>. QED
    BY <2>1 DEF ReportMatchesStatus
<1>. QED
  BY <1>2, <1>3, <1>4, <1>5 DEF IInv

-----------------------------------------------------------------------------
(* Recording a result.                                                      *)

LEMMA SuccessKeeps ==
    ASSUME ThresholdAssumption, BoundsAssumption, IInv, NEW t \in Targets, RecordSuccess(t)
    PROVE  IInv'
<1>1. /\ incidents' \in Seq(Incident) /\ Len(incidents') = Len(incidents)
      /\ DOMAIN incidents' = DOMAIN incidents
      /\ \A i \in DOMAIN incidents : /\ incidents'[i].status = incidents[i].status
                                     /\ incidents'[i].stale = incidents[i].stale
  <2>1. incidents' = Close(t, Kinds) /\ TypeOK
    BY DEF RecordSuccess, IInv
  <2>. QED
    BY <2>1, CloseRows
<1>2. ClaimsHeld' /\ ReportsWritten' /\ ReportMatchesStatus'
  <2>1. Len(incidents) \in Nat
    BY RowsAreFunction DEF IInv, TypeOK
  <2>. QED
    BY <1>1, <2>1, RowsForWorkers DEF RecordSuccess
<1>3. clock' = clock + 1 /\ clock' \in 0..MaxRecords
  BY DEF RecordSuccess, IInv, TypeOK, BoundsAssumption
<1>4. RowsBounded'
  BY <1>1, <1>3, RowsAreFunction DEF IInv, TypeOK, RowsBounded
<1>5. Repeated(t, Success) \in [result : {Success} \cup Failures, n : 0..FailureThreshold]
  BY DEF Repeated, IInv, TypeOK, ThresholdAssumption
<1>6. [f \in Failures |-> NoStreak] \in [Failures -> Streak]
  BY DEF NoStreak, Streak, ThresholdAssumption, BoundsAssumption
<1>7. TypeOK'
  BY <1>1, <1>3, <1>5, <1>6 DEF RecordSuccess, IInv, TypeOK
<1>. QED
  BY <1>2, <1>4, <1>7 DEF IInv

LEMMA FailureKeeps ==
    ASSUME ThresholdAssumption, BoundsAssumption, IInv,
           NEW t \in Targets, NEW kind \in Kinds, NEW origin \in Origins,
           RecordFailure(t, kind, origin)
    PROVE  IInv'
<1>. DEFINE streak == Longer(streaks[t][<<kind, origin>>])
            enough == streak.n >= FailureThreshold
            closed == Close(t, ClosedBy(kind))
            current == {i \in DOMAIN closed : Open(i, t, {kind})}
            repeated == [i \in DOMAIN closed |->
                IF i \in current THEN RepeatedIncident(closed[i], enough) ELSE closed[i]]
            new == NewIncident(t, kind, streak)
<1>1. /\ clock \in Nat /\ clock < MaxRecords /\ clock' = clock + 1
      /\ clock' \in 0..MaxRecords
  BY DEF RecordFailure, IInv, TypeOK, BoundsAssumption
<1>2. <<kind, origin>> \in Failures
  BY DEF Failures
<1>3. streak \in Streak
  BY <1>1, <1>2, LongerStreak DEF IInv, TypeOK
<1>4. /\ closed \in Seq(Incident) /\ Len(closed) = Len(incidents)
      /\ DOMAIN closed = DOMAIN incidents
      /\ \A i \in DOMAIN incidents : /\ closed[i].status = incidents[i].status
                                     /\ closed[i].stale = incidents[i].stale
                                     /\ closed[i] \in Incident
  BY CloseRows DEF IInv
<1>5. /\ repeated \in Seq(Incident) /\ Len(repeated) = Len(incidents)
      /\ DOMAIN repeated = DOMAIN incidents
      /\ \A i \in DOMAIN incidents : /\ repeated[i].status = incidents[i].status
                                     /\ repeated[i].stale = incidents[i].stale
  <2>. HIDE DEF closed, enough, current
  <2>1. enough \in BOOLEAN
    BY DEF enough
  <2>2. \A i \in DOMAIN closed :
            /\ RepeatedIncident(closed[i], enough) \in Incident
            /\ RepeatedIncident(closed[i], enough).status = closed[i].status
            /\ RepeatedIncident(closed[i], enough).stale = closed[i].stale
    <3>1. \A i \in DOMAIN closed : (closed[i].qualified \/ enough) \in BOOLEAN
      BY <2>1
    <3>. QED
      BY <1>4, <3>1 DEF RepeatedIncident, Incident
  <2>3. repeated \in [DOMAIN closed -> Incident]
    BY <1>4, <2>2
  <2>. QED
    BY <1>4, <2>2, <2>3, RowsRewritten
<1>6. new \in Incident /\ new.status = "queued"
  <2>. HIDE DEF streak
  <2>. QED
    BY <1>3 DEF NewIncident, Incident, Statuses, Streak
<1>7. incidents' \in {repeated, closed, Append(closed, new)}
  BY DEF RecordFailure
<1>8. /\ incidents' \in Seq(Incident)
      /\ Len(incidents) <= Len(incidents') /\ Len(incidents') <= Len(incidents) + 1
      /\ DOMAIN incidents \subseteq DOMAIN incidents'
      /\ \A i \in DOMAIN incidents : /\ incidents'[i].status = incidents[i].status
                                     /\ incidents'[i].stale = incidents[i].stale
      /\ \A i \in DOMAIN incidents' \ DOMAIN incidents : incidents'[i].status = "queued"
  <2>. HIDE DEF closed, repeated, new
  <2>1. Len(incidents) \in Nat /\ DOMAIN incidents = 1..Len(incidents)
    BY RowsAreFunction DEF IInv, TypeOK
  <2>2. CASE incidents' = repeated
    BY <1>5, <2>1, <2>2
  <2>3. CASE incidents' = closed
    BY <1>4, <2>1, <2>3
  <2>4. CASE incidents' = Append(closed, new)
    <3>1. /\ incidents' \in Seq(Incident) /\ Len(incidents') = Len(incidents) + 1
          /\ incidents'[Len(incidents) + 1] = new
          /\ \A i \in 1..Len(incidents) : incidents'[i] = closed[i]
      BY <1>4, <1>6, <2>1, <2>4
    <3>2. DOMAIN incidents' = 1..(Len(incidents) + 1)
      BY <3>1, RowsAreFunction
    <3>. QED
      BY <1>4, <1>6, <2>1, <3>1, <3>2
  <2>. QED
    BY <1>7, <2>2, <2>3, <2>4
<1>9. ClaimsHeld' /\ ReportsWritten' /\ ReportMatchesStatus'
  BY <1>8, RowsForWorkers DEF RecordFailure
<1>10. RowsBounded'
  BY <1>1, <1>8, RowsAreFunction DEF IInv, TypeOK, RowsBounded
<1>11. Repeated(t, <<kind, origin>>) \in [result : {Success} \cup Failures, n : 0..FailureThreshold]
  BY <1>2 DEF Repeated, IInv, TypeOK, ThresholdAssumption
<1>12. Streaks(t, kind, origin) \in [Failures -> Streak]
  <2>1. NoStreak \in Streak
    BY DEF NoStreak, Streak, ThresholdAssumption, BoundsAssumption
  <2>. QED
    BY <1>3, <2>1 DEF Streaks
<1>13. TypeOK'
  BY <1>1, <1>8, <1>11, <1>12 DEF RecordFailure, IInv, TypeOK
<1>. QED
  BY <1>9, <1>10, <1>13 DEF IInv

-----------------------------------------------------------------------------
(* The workers.                                                             *)

\* What a worker's step does to its locals keeps them typed.
LEMMA WorkerTyped ==
    ASSUME IInv, NEW w \in Workers, NEW local \in WorkerState
    PROVE  [worker EXCEPT ![w] = local] \in [Workers -> WorkerState]
  BY DEF IInv, TypeOK

LEMMA ErrorCounted ==
    ASSUME BoundsAssumption, IInv, StorageFails
    PROVE  used' \in [errors : 0..MaxErrors, crashes : 0..MaxCrashes]
  BY DEF BoundsAssumption, IInv, TypeOK, StorageFails

\* What a worker without a claim does next disturbs nothing.
LEMMA IdleGoesOn ==
    ASSUME BoundsAssumption, IInv, NEW w \in Workers, ~Busy(w),
           NEW step \in Steps \ {"diagnose", "report", "store"}, GoOn(w, step)
    PROVE  /\ worker' \in [Workers -> WorkerState]
           /\ \A v \in Workers :
                /\ worker'[v].id = worker[v].id
                /\ worker'[v].verdict = worker[v].verdict
                /\ worker'[v].step = IF v = w THEN step ELSE worker[v].step
<1>1. worker' = [worker EXCEPT ![w].step = step] /\ worker \in [Workers -> WorkerState]
  BY DEF GoOn, IInv, TypeOK
<1>. QED
  BY <1>1 DEF WorkerState

\* The recovery of old claims, before the loop and in it.
LEMMA RecoverKeeps ==
    ASSUME BoundsAssumption, IInv, NEW w \in Workers, Begin(w) \/ RecoverStale(w)
    PROVE  IInv'
<1>1. /\ incidents \in Seq(Incident)
      /\ \A i \in DOMAIN incidents : incidents[i] \in Incident
  BY RowsAreFunction DEF IInv, TypeOK
<1>2. ~Busy(w) /\ UNCHANGED <<streaks, reports, clock, latest>>
  BY DEF Begin, RecoverStale, Busy
<1>3. CASE StorageFails /\ UNCHANGED <<worker, incidents>>
  <2>1. TypeOK'
    BY <1>2, <1>3, ErrorCounted DEF IInv, TypeOK
  <2>. QED
    BY <1>2, <1>3, <2>1 DEF IInv, RowsBounded, ClaimsHeld, ReportsWritten,
                            ReportMatchesStatus, Busy
<1>4. CASE StorageFails /\ GoOn(w, "ended") /\ UNCHANGED incidents
  <2>1. "ended" \in Steps \ {"diagnose", "report", "store"}
    BY DEF Steps
  <2>2. /\ worker' \in [Workers -> WorkerState]
        /\ \A v \in Workers : /\ worker'[v].id = worker[v].id
                               /\ worker'[v].verdict = worker[v].verdict
                               /\ worker'[v].step = IF v = w THEN "ended" ELSE worker[v].step
    BY <1>2, <1>4, <2>1, IdleGoesOn
  <2>3. TypeOK'
    BY <1>2, <1>4, <2>2, ErrorCounted DEF IInv, TypeOK
  <2>4. ClaimsHeld' /\ ReportsWritten'
    BY <1>2, <1>4, <2>2 DEF IInv, ClaimsHeld, ReportsWritten, Busy
  <2>. QED
    BY <1>2, <1>4, <2>3, <2>4 DEF IInv, RowsBounded, ReportMatchesStatus
<1>5. ASSUME NEW step \in {"recover", "claim"}, GoOn(w, step), UNCHANGED used,
             incidents' = Recovered
      PROVE  IInv'
  <2>1. \A i \in DOMAIN incidents :
            [incidents[i] EXCEPT !.status = "queued", !.stale = FALSE] \in Incident
    BY <1>1 DEF Incident, Statuses
  <2>2. incidents' \in [DOMAIN incidents -> Incident]
    BY <1>1, <1>5, <2>1 DEF Recovered
  <2>3. /\ incidents' \in Seq(Incident) /\ Len(incidents') = Len(incidents)
        /\ DOMAIN incidents' = DOMAIN incidents
    BY <1>1, <2>2, RowsRewritten
  <2>4. \A i \in DOMAIN incidents :
            \/ incidents'[i] = incidents[i]
            \/ /\ incidents[i].status = "running" /\ incidents[i].stale
               /\ incidents'[i].status = "queued"
    BY <1>1, <1>5 DEF Recovered, Incident
  <2>5. step \in Steps \ {"diagnose", "report", "store"}
    BY DEF Steps
  <2>6. /\ worker' \in [Workers -> WorkerState]
        /\ \A v \in Workers : /\ worker'[v].id = worker[v].id
                               /\ worker'[v].verdict = worker[v].verdict
                               /\ worker'[v].step = IF v = w THEN step ELSE worker[v].step
    BY <1>2, <1>5, <2>5, IdleGoesOn
  <2>7. TypeOK'
    BY <1>2, <1>5, <2>3, <2>6 DEF IInv, TypeOK
  <2>8. ClaimsHeld'
    BY <2>3, <2>4, <2>6 DEF IInv, ClaimsHeld, Busy
  <2>9. ReportsWritten' /\ RowsBounded'
    BY <1>2, <2>3, <2>6 DEF IInv, ReportsWritten, RowsBounded
  <2>10. ReportMatchesStatus'
    BY <1>2, <2>3, <2>4 DEF IInv, ReportMatchesStatus
  <2>. QED
    BY <2>7, <2>8, <2>9, <2>10 DEF IInv
<1>. QED
  BY <1>3, <1>4, <1>5 DEF Begin, RecoverStale

\* A worker that lets go of what it holds disturbs nothing.
LEMMA LetGoKeeps ==
    ASSUME BoundsAssumption, IInv, NEW w \in Workers, NEW local \in {AtRest, Started},
           worker' = [worker EXCEPT ![w] = local],
           UNCHANGED <<incidents, reports, clock>>
    PROVE  ClaimsHeld' /\ ReportsWritten' /\ ReportMatchesStatus' /\ RowsBounded'
           /\ worker' \in [Workers -> WorkerState]
<1>1. local \in WorkerState /\ local.step \in {"recover", "start"}
  BY DEF AtRest, Started, WorkerState, Steps, BoundsAssumption
<1>2. worker' \in [Workers -> WorkerState]
  BY <1>1, WorkerTyped
<1>3. \A v \in Workers : worker'[v] = IF v = w THEN local ELSE worker[v]
  BY DEF IInv, TypeOK
<1>4. ClaimsHeld'
  BY <1>1, <1>3 DEF IInv, ClaimsHeld, Busy
<1>5. ReportsWritten'
  BY <1>1, <1>3 DEF IInv, ReportsWritten
<1>. QED
  BY <1>2, <1>4, <1>5 DEF IInv, ReportMatchesStatus, RowsBounded

LEMMA RestKeeps ==
    ASSUME BoundsAssumption, IInv, NEW w \in Workers, Rest(w),
           UNCHANGED <<incidents, reports, clock>>
    PROVE  ClaimsHeld' /\ ReportsWritten' /\ ReportMatchesStatus' /\ RowsBounded'
           /\ worker' \in [Workers -> WorkerState]
  BY LetGoKeeps DEF Rest

LEMMA ClaimKeeps ==
    ASSUME BoundsAssumption, IInv, NEW w \in Workers, Claim(w)
    PROVE  IInv'
<1>1. CASE Rest(w) /\ UNCHANGED incidents
  <2>1. used' \in [errors : 0..MaxErrors, crashes : 0..MaxCrashes]
    <3>1. Claim(w) => StorageFails \/ UNCHANGED used
      BY DEF Claim
    <3>. QED
      BY <3>1, ErrorCounted DEF IInv, TypeOK
  <2>2. ClaimsHeld' /\ ReportsWritten' /\ ReportMatchesStatus' /\ RowsBounded'
        /\ worker' \in [Workers -> WorkerState]
    BY <1>1, RestKeeps DEF Claim
  <2>. QED
    BY <1>1, <2>1, <2>2 DEF Claim, IInv, TypeOK
<1>2. ASSUME NEW i \in Claimable,
             incidents' = [incidents EXCEPT ![i].status = "running", ![i].stale = FALSE],
             worker' = [worker EXCEPT ![w] = [AtRest EXCEPT !.step = "diagnose", !.id = i]],
             UNCHANGED used
      PROVE  IInv'
  <2>1. /\ incidents \in Seq(Incident) /\ i \in DOMAIN incidents
        /\ incidents[i].status = "queued"
        /\ incidents \in [DOMAIN incidents -> Incident]
        /\ i \in 1..(MaxRecords + 1)
    BY RowsAreFunction DEF IInv, TypeOK, Claimable, RowsBounded, BoundsAssumption
  <2>2. incidents' \in [DOMAIN incidents -> Incident]
    BY <1>2, <2>1 DEF Incident, Statuses
  <2>3. /\ incidents' \in Seq(Incident) /\ Len(incidents') = Len(incidents)
        /\ DOMAIN incidents' = DOMAIN incidents
    BY <2>1, <2>2, RowsRewritten
  <2>4. /\ incidents'[i].status = "running" /\ ~incidents'[i].stale
        /\ \A j \in DOMAIN incidents \ {i} : incidents'[j] = incidents[j]
    BY <1>2, <2>1 DEF Incident
  <2>. DEFINE local == [AtRest EXCEPT !.step = "diagnose", !.id = i]
  <2>5. i \in 0..(MaxRecords + 1)
    BY <2>1 DEF BoundsAssumption
  <2>6. /\ local \in WorkerState /\ local.id = i
        /\ local.step \in {"diagnose", "report", "store"} /\ local.step # "store"
    BY <2>5 DEF AtRest, WorkerState, Steps
  <2>. HIDE DEF local
  <2>7. worker' \in [Workers -> WorkerState]
    BY <1>2, <2>6, WorkerTyped DEF local
  <2>8. \A v \in Workers : worker'[v] = IF v = w THEN local ELSE worker[v]
    BY <1>2 DEF local, IInv, TypeOK
  <2>9. \A v \in Workers \ {w} : Busy(v) => worker[v].id # i
    BY <2>1 DEF IInv, ClaimsHeld
  <2>10. UNCHANGED <<streaks, reports, clock, latest>>
    BY DEF Claim
  <2>11. TypeOK'
    BY <1>2, <2>3, <2>7, <2>10 DEF IInv, TypeOK
  <2>12. ClaimsHeld'
    BY <2>1, <2>3, <2>4, <2>6, <2>8, <2>9 DEF IInv, ClaimsHeld, Busy
  <2>13. ReportsWritten'
    BY <2>6, <2>8, <2>10 DEF IInv, ReportsWritten
  <2>14. RowsBounded'
    BY <2>3, <2>10 DEF IInv, RowsBounded
  <2>15. ReportMatchesStatus'
    BY <2>1, <2>3, <2>4, <2>10 DEF IInv, ReportMatchesStatus
  <2>. QED
    BY <2>11, <2>12, <2>13, <2>14, <2>15 DEF IInv
<1>. QED
  BY <1>1, <1>2 DEF Claim

\* A worker that comes to a verdict goes on to its report with what it holds.
LEMMA VerdictReached ==
    ASSUME IInv, NEW w \in Workers, Busy(w), NEW v \in {"diagnosis", "unavailable"},
           worker' = [worker EXCEPT ![w].step = "report", ![w].verdict = v]
    PROVE  /\ worker' \in [Workers -> WorkerState]
           /\ \A u \in Workers :
                /\ worker'[u].id = worker[u].id
                /\ worker'[u].step \in {"diagnose", "report", "store"} => Busy(u)
                /\ worker'[u].step = "store" => worker'[u] = worker[u]
<1>1. worker' \in [Workers -> WorkerState]
  BY DEF IInv, TypeOK, WorkerState, Steps
<1>2. \A u \in Workers :
        /\ worker'[u].id = worker[u].id
        /\ worker'[u].step \in {"diagnose", "report", "store"} => Busy(u)
        /\ worker'[u].step = "store" => worker'[u] = worker[u]
  BY DEF IInv, TypeOK, WorkerState, Busy
<1>. QED
  BY <1>1, <1>2

LEMMA DiagnoseKeeps ==
    ASSUME BoundsAssumption, IInv, NEW w \in Workers, Diagnose(w)
    PROVE  IInv'
<1>1. PICK v \in {"diagnosis", "unavailable"} :
        worker' = [worker EXCEPT ![w].step = "report", ![w].verdict = v]
  BY DEF Diagnose
<1>0. Busy(w)
  BY DEF Diagnose, Busy
<1>2. worker' \in [Workers -> WorkerState]
  BY <1>0, <1>1, VerdictReached
<1>3. \A u \in Workers :
        /\ worker'[u].id = worker[u].id
        /\ worker'[u].step \in {"diagnose", "report", "store"} => Busy(u)
        /\ worker'[u].step = "store" => worker'[u] = worker[u]
  BY <1>0, <1>1, VerdictReached
<1>4. TypeOK'
  BY <1>2 DEF Diagnose, IInv, TypeOK
<1>5. ClaimsHeld'
  <2>1. incidents' = incidents
    BY DEF Diagnose
  <2>. QED
    BY <1>3, <2>1 DEF IInv, ClaimsHeld, Busy
<1>6. ReportsWritten'
  BY <1>3 DEF Diagnose, IInv, ReportsWritten
<1>. QED
  BY <1>4, <1>5, <1>6 DEF Diagnose, IInv, RowsBounded, ReportMatchesStatus

\* An error on the way to storing a diagnosis or a failure: the worker keeps
\* its claim and tries to store a failure, or lets it go.
LEMMA ErrorKeeps ==
    ASSUME BoundsAssumption, IInv, NEW w \in Workers, StorageFails, OnError(w),
           worker[w].step \in {"report", "store"},
           UNCHANGED <<streaks, incidents, reports, clock, latest>>
    PROVE  IInv'
<1>1. used' \in [errors : 0..MaxErrors, crashes : 0..MaxCrashes]
  BY ErrorCounted
<1>2. CASE Rest(w)
  <2>1. ClaimsHeld' /\ ReportsWritten' /\ ReportMatchesStatus' /\ RowsBounded'
        /\ worker' \in [Workers -> WorkerState]
    BY <1>2, RestKeeps
  <2>. QED
    BY <1>1, <2>1 DEF IInv, TypeOK
<1>3. CASE worker' = [worker EXCEPT ![w].step = "report", ![w].verdict = "unavailable"]
  <2>0. Busy(w)
    BY DEF Busy
  <2>1. worker' \in [Workers -> WorkerState]
    BY <1>3, <2>0, VerdictReached
  <2>2. \A v \in Workers :
            /\ worker'[v].id = worker[v].id
            /\ worker'[v].step \in {"diagnose", "report", "store"} => Busy(v)
            /\ worker'[v].step = "store" => worker'[v] = worker[v]
    BY <1>3, <2>0, VerdictReached
  <2>3. ClaimsHeld'
    BY <2>2 DEF IInv, ClaimsHeld, Busy
  <2>4. ReportsWritten'
    BY <2>2 DEF IInv, ReportsWritten
  <2>. QED
    BY <1>1, <2>1, <2>3, <2>4 DEF IInv, TypeOK, RowsBounded, ReportMatchesStatus
<1>. QED
  BY <1>2, <1>3 DEF OnError

LEMMA WriteKeeps ==
    ASSUME BoundsAssumption, IInv, NEW w \in Workers, WriteReport(w)
    PROVE  IInv'
<1>1. worker[w].step = "report" /\ UNCHANGED <<streaks, incidents, clock, latest>>
  BY DEF WriteReport
<1>2. CASE StorageFails /\ OnError(w) /\ UNCHANGED reports
  BY <1>1, <1>2, ErrorKeeps
<1>3. CASE /\ GoOn(w, "store") /\ UNCHANGED used
           /\ reports' = [reports EXCEPT ![worker[w].id] = worker[w].verdict]
  <2>1. worker' \in [Workers -> WorkerState]
    BY <1>3 DEF GoOn, IInv, TypeOK, WorkerState, Steps
  <2>2. \A v \in Workers :
            /\ worker'[v].id = worker[v].id /\ worker'[v].verdict = worker[v].verdict
            /\ worker'[v].step = IF v = w THEN "store" ELSE worker[v].step
    BY <1>3 DEF GoOn, IInv, TypeOK, WorkerState
  <2>3. /\ worker[w].verdict \in Reports
        /\ worker[w].id \in DOMAIN incidents
        /\ incidents[worker[w].id].status = "running"
        /\ \A v \in Workers : Busy(v) /\ worker[v].id = worker[w].id => v = w
    BY <1>1 DEF IInv, TypeOK, WorkerState, Reports, ClaimsHeld, Busy
  <2>4. DOMAIN incidents \subseteq DOMAIN reports
    BY RowsAreFunction DEF IInv, TypeOK, RowsBounded, BoundsAssumption
  <2>5. /\ reports' \in [1..(MaxRecords + 1) -> Reports]
        /\ reports'[worker[w].id] = worker[w].verdict
        /\ \A i : i # worker[w].id => reports'[i] = reports[i]
    BY <1>3, <2>3, <2>4 DEF IInv, TypeOK
  <2>6. TypeOK'
    BY <1>1, <1>3, <2>1, <2>5 DEF IInv, TypeOK
  <2>7. ClaimsHeld'
    BY <1>1, <2>2 DEF IInv, ClaimsHeld, Busy
  <2>8. ReportsWritten'
    BY <2>2, <2>3, <2>5 DEF IInv, ReportsWritten, Busy
  <2>9. ReportMatchesStatus'
    BY <1>1, <2>3, <2>5 DEF IInv, ReportMatchesStatus
  <2>. QED
    BY <1>1, <2>6, <2>7, <2>8, <2>9 DEF IInv, RowsBounded
<1>. QED
  BY <1>2, <1>3 DEF WriteReport

LEMMA StoreKeeps ==
    ASSUME BoundsAssumption, IInv, NEW w \in Workers, Store(w)
    PROVE  IInv'
<1>1. worker[w].step = "store" /\ UNCHANGED <<streaks, reports, clock, latest>>
  BY DEF Store
<1>2. CASE StorageFails /\ OnError(w) /\ UNCHANGED incidents
  BY <1>1, <1>2, ErrorKeeps
<1>3. CASE /\ Rest(w) /\ UNCHANGED used
           /\ incidents' = [incidents EXCEPT ![worker[w].id].status =
                    IF worker[w].verdict = "diagnosis" THEN "completed" ELSE "failed"]
  <2>. DEFINE i == worker[w].id
              outcome == IF worker[w].verdict = "diagnosis" THEN "completed" ELSE "failed"
  <2>1. /\ incidents \in Seq(Incident) /\ i \in DOMAIN incidents
        /\ incidents \in [DOMAIN incidents -> Incident]
        /\ \A v \in Workers : Busy(v) /\ worker[v].id = i => v = w
    BY <1>1, RowsAreFunction DEF IInv, TypeOK, ClaimsHeld, Busy
  <2>2. outcome \in Statuses
    BY DEF Statuses
  <2>3. incidents' \in [DOMAIN incidents -> Incident]
    BY <1>3, <2>1, <2>2 DEF Incident
  <2>4. /\ incidents' \in Seq(Incident) /\ Len(incidents') = Len(incidents)
        /\ DOMAIN incidents' = DOMAIN incidents
    BY <2>1, <2>3, RowsRewritten
  <2>5. /\ incidents'[i].status = outcome
        /\ \A j \in DOMAIN incidents \ {i} : incidents'[j] = incidents[j]
    BY <1>3, <2>1 DEF Incident
  <2>6. worker' \in [Workers -> WorkerState]
    <3>1. AtRest \in WorkerState
      BY DEF AtRest, WorkerState, Steps, BoundsAssumption
    <3>. QED
      BY <1>3, <3>1, WorkerTyped DEF Rest
  <2>7. \A v \in Workers : worker'[v] = IF v = w THEN AtRest ELSE worker[v]
    BY <1>3 DEF Rest, IInv, TypeOK
  <2>8. reports[i] = worker[w].verdict /\ worker[w].verdict \in {"diagnosis", "unavailable"}
    BY <1>1 DEF IInv, TypeOK, ReportsWritten, WorkerState
  <2>9. TypeOK'
    BY <1>1, <1>3, <2>4, <2>6 DEF IInv, TypeOK
  <2>10. ClaimsHeld'
    BY <2>1, <2>4, <2>5, <2>7 DEF IInv, ClaimsHeld, Busy, AtRest
  <2>11. ReportsWritten'
    BY <1>1, <2>7 DEF IInv, ReportsWritten, AtRest
  <2>12. ReportMatchesStatus'
    BY <1>1, <2>4, <2>5, <2>8 DEF IInv, ReportMatchesStatus
  <2>. QED
    BY <1>1, <2>4, <2>9, <2>10, <2>11, <2>12 DEF IInv, RowsBounded
<1>. QED
  BY <1>2, <1>3 DEF Store

LEMMA CrashKeeps ==
    ASSUME BoundsAssumption, IInv, NEW w \in Workers, Crash(w)
    PROVE  IInv'
<1>1. /\ worker' = [worker EXCEPT ![w] = Started]
      /\ UNCHANGED <<streaks, incidents, reports, clock, latest>>
  BY DEF Crash
<1>2. ClaimsHeld' /\ ReportsWritten' /\ ReportMatchesStatus' /\ RowsBounded'
      /\ worker' \in [Workers -> WorkerState]
  BY <1>1, LetGoKeeps
<1>3. used' \in [errors : 0..MaxErrors, crashes : 0..MaxCrashes]
  BY DEF Crash, IInv, TypeOK, BoundsAssumption
<1>. QED
  BY <1>1, <1>2, <1>3 DEF IInv, TypeOK

\* Only rows that no worker holds get old.
LEMMA AgeKeeps ==
    ASSUME IInv, NEW i \in DOMAIN incidents, ClaimAges(i)
    PROVE  IInv'
<1>1. /\ incidents' = [incidents EXCEPT ![i].stale = TRUE]
      /\ \A w \in Workers : ~Holds(w, i)
      /\ UNCHANGED <<streaks, reports, worker, clock, latest, used>>
  BY DEF ClaimAges
<1>2. incidents \in Seq(Incident) /\ incidents \in [DOMAIN incidents -> Incident]
  BY RowsAreFunction DEF IInv, TypeOK
<1>3. incidents' \in [DOMAIN incidents -> Incident]
  BY <1>1, <1>2 DEF Incident
<1>4. /\ incidents' \in Seq(Incident) /\ Len(incidents') = Len(incidents)
      /\ DOMAIN incidents' = DOMAIN incidents
  BY <1>2, <1>3, RowsRewritten
<1>5. \A j \in DOMAIN incidents : /\ incidents'[j].status = incidents[j].status
                                  /\ j # i => incidents'[j] = incidents[j]
  BY <1>1, <1>2 DEF Incident
<1>6. TypeOK'
  BY <1>1, <1>4 DEF IInv, TypeOK
<1>7. ClaimsHeld'
  BY <1>1, <1>4, <1>5 DEF IInv, ClaimsHeld, Busy, Holds
<1>8. ReportMatchesStatus'
  BY <1>1, <1>4, <1>5 DEF IInv, ReportMatchesStatus
<1>. QED
  BY <1>1, <1>4, <1>6, <1>7, <1>8 DEF IInv, RowsBounded, ReportsWritten

-----------------------------------------------------------------------------
\* The inductive step: every action, taken anywhere, keeps the invariant.
LEMMA Inductive ==
    ASSUME ThresholdAssumption, BoundsAssumption, IInv, [Next]_vars
    PROVE  IInv'
<1>1. CASE Record
  <2>1. PICK t \in Targets : RecordSuccess(t)
                             \/ \E f \in Failures : RecordFailure(t, f[1], f[2])
    BY <1>1 DEF Record
  <2>2. CASE RecordSuccess(t)
    BY <2>2, SuccessKeeps
  <2>3. ASSUME NEW f \in Failures, RecordFailure(t, f[1], f[2])
        PROVE  IInv'
    <3>1. f[1] \in Kinds /\ f[2] \in Origins
      BY DEF Failures
    <3>. QED
      BY <2>3, <3>1, FailureKeeps
  <2>. QED
    BY <2>1, <2>2, <2>3
<1>2. ASSUME NEW w \in Workers, Work(w) \/ Crash(w)
      PROVE  IInv'
  <2>1. \/ Begin(w) \/ RecoverStale(w) \/ Claim(w) \/ Diagnose(w)
        \/ WriteReport(w) \/ Store(w) \/ Crash(w)
    BY <1>2 DEF Work
  <2>. QED
    BY <2>1, RecoverKeeps, ClaimKeeps, DiagnoseKeeps, WriteKeeps, StoreKeeps, CrashKeeps
<1>3. ASSUME NEW i \in DOMAIN incidents, ClaimAges(i)
      PROVE  IInv'
  BY <1>3, AgeKeeps
<1>4. CASE UNCHANGED vars
  BY <1>4 DEF vars, IInv, TypeOK, RowsBounded, ClaimsHeld, ReportsWritten,
              ReportMatchesStatus, Busy
<1>. QED
  BY <1>1, <1>2, <1>3, <1>4 DEF Next

LEMMA Invariant == Spec => []IInv
<1>1. Init => IInv
  BY InitKeeps, ThresholdAssumption, BoundsAssumption
<1>2. IInv /\ [Next]_vars => IInv'
  BY Inductive, ThresholdAssumption, BoundsAssumption
<1>. QED
  BY <1>1, <1>2, PTL DEF Spec

\* No step of IncidentStore and IncidentWorker writes an ill-typed row, holds
\* a row that is not there, or counts a streak past the threshold.
THEOREM TypeCorrect == Spec => []TypeOK
<1>1. IInv => TypeOK
  BY DEF IInv
<1>. QED
  BY <1>1, Invariant, PTL

\* Two workers never hold one incident, and an incident that is being
\* diagnosed is marked as running: claim_next marks the row it returns, and
\* recover_stale only queues claims that are older than any analysis.
THEOREM OneWorkerEach == Spec => []OneAnalysisEach
<1>1. IInv => OneAnalysisEach
  <2>1. ASSUME NEW v \in Workers, NEW i
        PROVE  Holds(v, i) <=> Busy(v) /\ worker[v].id = i
    BY DEF Holds, Busy
  <2>. QED
    BY <2>1 DEF IInv, OneAnalysisEach, ClaimsHeld
<1>. QED
  BY <1>1, Invariant, PTL

\* The report file of a finished incident says what its row says, although
\* finish writes the two one after the other and either can fail.
THEOREM ReportsAgree == Spec => []ReportMatchesStatus
<1>1. IInv => ReportMatchesStatus
  BY DEF IInv
<1>. QED
  BY <1>1, Invariant, PTL

-----------------------------------------------------------------------------
(* A finished analysis is final.                                            *)

Stays == \A i \in DOMAIN incidents :
            incidents[i].status \in Finished => incidents'[i].status = incidents[i].status

\* A result rewrites rows without touching how far their analysis is.
LEMMA FailureStays ==
    ASSUME IInv, NEW t \in Targets, NEW kind \in Kinds, NEW origin \in Origins,
           RecordFailure(t, kind, origin)
    PROVE  Stays
<1>. DEFINE streak == Longer(streaks[t][<<kind, origin>>])
            enough == streak.n >= FailureThreshold
            closed == Close(t, ClosedBy(kind))
            current == {i \in DOMAIN closed : Open(i, t, {kind})}
            repeated == [i \in DOMAIN closed |->
                IF i \in current THEN RepeatedIncident(closed[i], enough) ELSE closed[i]]
            new == NewIncident(t, kind, streak)
<1>1. /\ closed \in Seq(Incident) /\ DOMAIN closed = DOMAIN incidents
      /\ Len(incidents) = Len(closed) /\ DOMAIN incidents = 1..Len(incidents)
      /\ Len(incidents) \in Nat
      /\ \A i \in DOMAIN incidents : /\ closed[i].status = incidents[i].status
                                     /\ closed[i] \in Incident
  BY CloseRows, RowsAreFunction DEF IInv, TypeOK
<1>2. incidents' \in {repeated, closed, Append(closed, new)}
  BY DEF RecordFailure
<1>. HIDE DEF closed, enough, current, new
<1>3. CASE incidents' = repeated
  <2>1. \A i \in DOMAIN closed : RepeatedIncident(closed[i], enough).status = closed[i].status
    BY <1>1 DEF RepeatedIncident, Incident
  <2>2. \A i \in DOMAIN closed : incidents'[i].status = closed[i].status
    BY <1>3, <2>1
  <2>. QED
    BY <1>1, <2>2 DEF Stays
<1>4. CASE incidents' = closed
  BY <1>1, <1>4 DEF Stays
<1>5. CASE incidents' = Append(closed, new)
  <2>1. \A i \in 1..Len(closed) : incidents'[i] = closed[i]
    BY <1>1, <1>5
  <2>. QED
    BY <1>1, <2>1 DEF Stays
<1>. QED
  BY <1>2, <1>3, <1>4, <1>5

\* The workers start from rows that are not finished.
LEMMA WorkStays ==
    ASSUME IInv, NEW w \in Workers, Work(w)
    PROVE  Stays
<1>1. /\ incidents \in Seq(Incident)
      /\ \A i \in DOMAIN incidents : incidents[i] \in Incident
  BY RowsAreFunction DEF IInv, TypeOK
<1>2. CASE UNCHANGED incidents
  BY <1>2 DEF Stays
<1>3. CASE incidents' = Recovered
  BY <1>1, <1>3 DEF Recovered, Stays, Finished
<1>4. ASSUME NEW i \in Claimable,
             incidents' = [incidents EXCEPT ![i].status = "running", ![i].stale = FALSE]
      PROVE  Stays
  <2>1. \A j \in DOMAIN incidents \ {i} : incidents'[j] = incidents[j]
    BY <1>4
  <2>. QED
    BY <2>1 DEF Stays, Claimable, Finished
<1>5. CASE Store(w) /\ ~UNCHANGED incidents
  <2>1. /\ worker[w].id \in DOMAIN incidents
        /\ incidents[worker[w].id].status = "running"
    BY <1>5 DEF Store, IInv, ClaimsHeld, Busy
  <2>2. \A j \in DOMAIN incidents \ {worker[w].id} : incidents'[j] = incidents[j]
    BY <1>5 DEF Store
  <2>. QED
    BY <2>1, <2>2 DEF Stays, Finished
<1>. QED
  <2>1. CASE Begin(w) \/ RecoverStale(w)
    BY <2>1, <1>2, <1>3 DEF Begin, RecoverStale
  <2>2. CASE Claim(w)
    BY <2>2, <1>2, <1>4 DEF Claim
  <2>3. CASE Diagnose(w) \/ WriteReport(w)
    BY <2>3, <1>2 DEF Diagnose, WriteReport
  <2>4. CASE Store(w)
    BY <2>4, <1>2, <1>5
  <2>. QED
    BY <2>1, <2>2, <2>3, <2>4 DEF Work

\* No later failure of the target, no retry after an error and no recovery of
\* a claim brings an analysis back that is completed or failed.
THEOREM FinishedIsFinal == Spec => FinishedStays
<1>1. IInv /\ [Next]_vars => [Stays]_vars
  <2>. SUFFICES ASSUME IInv, Next
                PROVE  Stays
    OBVIOUS
  <2>1. ASSUME NEW t \in Targets, RecordSuccess(t)
        PROVE  Stays
    BY <2>1, CloseRows DEF RecordSuccess, Stays, IInv
  <2>2. ASSUME NEW t \in Targets, NEW f \in Failures, RecordFailure(t, f[1], f[2])
        PROVE  Stays
    <3>1. f[1] \in Kinds /\ f[2] \in Origins
      BY DEF Failures
    <3>. QED
      BY <2>2, <3>1, FailureStays
  <2>3. ASSUME NEW w \in Workers, Work(w)
        PROVE  Stays
    BY <2>3, WorkStays
  <2>4. ASSUME NEW w \in Workers, Crash(w)
        PROVE  Stays
    BY <2>4 DEF Crash, Stays
  <2>5. ASSUME NEW i \in DOMAIN incidents, ClaimAges(i)
        PROVE  Stays
    <3>1. \A j \in DOMAIN incidents : incidents[j] \in Incident
      BY RowsAreFunction DEF IInv, TypeOK
    <3>. QED
      BY <2>5, <3>1 DEF ClaimAges, Stays, Incident
  <2>. QED
    BY <2>1, <2>2, <2>3, <2>4, <2>5 DEF Next, Record
<1>2. FinishedStays <=> [][Stays]_vars
  BY PTL DEF FinishedStays, Stays
<1>. QED
  BY <1>1, <1>2, Invariant, PTL DEF Spec
-----------------------------------------------------------------------------
(* Incidents follow the results.                                            *)

\* There is one open incident of a kind and target at most, ...
OneOpen ==
    \A i, j \in DOMAIN incidents :
        /\ incidents[i].open /\ incidents[j].open
        /\ incidents[i].target = incidents[j].target
        /\ incidents[i].kind = incidents[j].kind
        => i = j

\* ... a streak is how often the latest result came in a row, ...
StreaksTell ==
    \A t \in Targets : \A f \in Failures :
        streaks[t][f].n = IF f = latest[t].result THEN latest[t].n ELSE 0

\* ... a success leaves nothing open, a failure of the node nothing of the executor, ...
ResultsClose ==
    \A t \in Targets : \A i \in DOMAIN incidents :
        /\ latest[t].n > 0
        /\ incidents[i].target = t /\ incidents[i].open
        => /\ latest[t].result # Success
           /\ latest[t].result[1] = "node_failure" => incidents[i].kind = "node_failure"

\* ... and enough failures leave an incident that has been accepted.
ResultsOpen ==
    \A t \in Targets :
        latest[t].result # Success /\ latest[t].n >= FailureThreshold =>
            \E i \in DOMAIN incidents :
                /\ incidents[i].target = t /\ incidents[i].open
                /\ incidents[i].kind = latest[t].result[1] /\ incidents[i].qualified

RInv == OneOpen /\ StreaksTell /\ ResultsClose /\ ResultsOpen

LEMMA SuccessIsNone == Success \notin Failures
  BY DEF Success, Failures, Kinds

\* Closing incidents keeps what else a row says and closes those of the kinds.
LEMMA CloseCloses ==
    ASSUME TypeOK, NEW t \in Targets, NEW kinds, NEW i \in DOMAIN incidents
    PROVE  /\ Close(t, kinds)[i].target = incidents[i].target
           /\ Close(t, kinds)[i].kind = incidents[i].kind
           /\ Close(t, kinds)[i].qualified = incidents[i].qualified
           /\ Close(t, kinds)[i].open <=> incidents[i].open /\ ~Open(i, t, kinds)
<1>. DEFINE open == incidents[i].open /\ ~Open(i, t, kinds)
<1>1. incidents[i] \in Incident
  BY RowsAreFunction DEF TypeOK
<1>2. Close(t, kinds)[i] = [incidents[i] EXCEPT !.open = open]
  BY Zenon DEF Close
<1>3. open \in BOOLEAN
  OBVIOUS
<1>. HIDE DEF open
<1>4. LET row == [incidents[i] EXCEPT !.open = open]
      IN  /\ row.target = incidents[i].target /\ row.kind = incidents[i].kind
          /\ row.qualified = incidents[i].qualified /\ row.open = open
  BY <1>1, <1>3 DEF Incident
<1>. QED
  BY <1>2, <1>4, Zenon DEF open

\* The streak that a failure continues and the count of the latest result
\* reach the threshold together.
LEMMA StreakIsCount ==
    ASSUME ThresholdAssumption, IInv, StreaksTell, NEW t \in Targets, NEW f \in Failures
    PROVE  Longer(streaks[t][f]).n = Repeated(t, f).n
<1>1. streaks[t][f] \in Streak /\ latest[t].n \in 0..FailureThreshold
  BY DEF IInv, TypeOK
<1>2. streaks[t][f].n = IF f = latest[t].result THEN latest[t].n ELSE 0
  BY DEF StreaksTell
<1>. QED
  BY <1>1, <1>2 DEF ThresholdAssumption, Streak, Longer, Repeated

LEMMA StreaksStep ==
    ASSUME ThresholdAssumption, IInv, StreaksTell, NEW t \in Targets,
           RecordSuccess(t) \/ \E f \in Failures : RecordFailure(t, f[1], f[2])
    PROVE  StreaksTell'
<1>. SUFFICES ASSUME NEW u \in Targets, NEW g \in Failures
              PROVE  (streaks[u][g].n = IF g = latest[u].result THEN latest[u].n ELSE 0)'
  BY DEF StreaksTell
<1>1. CASE RecordSuccess(t)
  BY <1>1, SuccessIsNone DEF RecordSuccess, Repeated, NoStreak, IInv, TypeOK, StreaksTell
<1>2. ASSUME NEW f \in Failures, RecordFailure(t, f[1], f[2])
      PROVE  (streaks[u][g].n = IF g = latest[u].result THEN latest[u].n ELSE 0)'
  <2>1. f = <<f[1], f[2]>>
    BY DEF Failures
  <2>2. /\ latest' = [latest EXCEPT ![t] = Repeated(t, f)]
        /\ streaks' = [streaks EXCEPT ![t] = Streaks(t, f[1], f[2])]
    BY <1>2, <2>1 DEF RecordFailure
  <2>3. CASE u # t
    BY <2>2, <2>3 DEF IInv, TypeOK, StreaksTell
  <2>4. CASE u = t
    <3>1. latest'[t] = Repeated(t, f) /\ latest'[t].result = f
      BY <2>2 DEF IInv, TypeOK, Repeated
    <3>2. streaks'[t][g] = IF g = f THEN Longer(streaks[t][f]) ELSE NoStreak
      BY <2>1, <2>2 DEF IInv, TypeOK, Streaks
    <3>. QED
      BY <2>4, <3>1, <3>2, StreakIsCount DEF NoStreak
  <2>. QED
    BY <2>3, <2>4
<1>. QED
  BY <1>1, <1>2

\* What a failure does to the rows: those of the kinds it disproves are closed,
\* the open one of its own kind is accepted, or a new one is, if it was enough.
FailureRows(t, kind, enough) ==
    /\ DOMAIN incidents \subseteq DOMAIN incidents'
    /\ \A i \in DOMAIN incidents :
        /\ incidents'[i].target = incidents[i].target
        /\ incidents'[i].kind = incidents[i].kind
        /\ incidents'[i].open <=> incidents[i].open /\ ~Open(i, t, ClosedBy(kind))
        /\ incidents'[i].qualified <=> incidents[i].qualified \/ (enough /\ Open(i, t, {kind}))
    /\ \A i \in DOMAIN incidents' \ DOMAIN incidents :
        /\ incidents'[i].target = t /\ incidents'[i].kind = kind
        /\ incidents'[i].open /\ incidents'[i].qualified
        /\ enough
        /\ \A j \in DOMAIN incidents : ~Open(j, t, {kind})
        /\ \A j \in DOMAIN incidents' \ DOMAIN incidents : i = j
    /\ enough => \/ \E i \in DOMAIN incidents : Open(i, t, {kind})
                 \/ \E i \in DOMAIN incidents' : i \notin DOMAIN incidents

LEMMA FailureWrites ==
    ASSUME BoundsAssumption, IInv, NEW t \in Targets, NEW kind, NEW origin,
           RecordFailure(t, kind, origin)
    PROVE  FailureRows(t, kind, Longer(streaks[t][<<kind, origin>>]).n >= FailureThreshold)
<1>. DEFINE streak == Longer(streaks[t][<<kind, origin>>])
            enough == streak.n >= FailureThreshold
            closed == Close(t, ClosedBy(kind))
            current == {i \in DOMAIN closed : Open(i, t, {kind})}
            repeated == [i \in DOMAIN closed |->
                IF i \in current THEN RepeatedIncident(closed[i], enough) ELSE closed[i]]
            new == NewIncident(t, kind, streak)
<1>1. IF current # {} THEN incidents' = repeated
      ELSE IF enough THEN incidents' = Append(closed, new) ELSE incidents' = closed
  BY Zenon DEF RecordFailure
<1>2. /\ closed \in Seq(Incident) /\ DOMAIN closed = DOMAIN incidents
      /\ \A i \in DOMAIN incidents : closed[i] \in Incident
  BY CloseRows DEF IInv
<1>3. \A i \in DOMAIN incidents :
        /\ closed[i].target = incidents[i].target
        /\ closed[i].kind = incidents[i].kind
        /\ closed[i].qualified = incidents[i].qualified
        /\ closed[i].open <=> incidents[i].open /\ ~Open(i, t, ClosedBy(kind))
  BY CloseCloses DEF IInv
<1>4. current = {i \in DOMAIN incidents : Open(i, t, {kind})}
  BY <1>2
<1>5. enough \in BOOLEAN
  OBVIOUS
<1>6. /\ new.target = t /\ new.kind = kind /\ new.open /\ new.qualified
  BY DEF NewIncident
<1>. HIDE DEF closed, current, enough, new
<1>7. CASE current # {}
  <2>1. incidents' = repeated
    BY <1>1, <1>7
  <2>2. ASSUME NEW i \in DOMAIN incidents
        PROVE  /\ repeated[i].target = closed[i].target
               /\ repeated[i].kind = closed[i].kind
               /\ repeated[i].open = closed[i].open
               /\ repeated[i].qualified <=> closed[i].qualified \/ (enough /\ i \in current)
    <3>1. CASE i \notin current
      BY <1>2, <3>1
    <3>2. CASE i \in current
      <4>. DEFINE q == closed[i].qualified \/ enough
      <4>1. repeated[i] = [closed[i] EXCEPT !.qualified = q]
        BY <1>2, <3>2, Zenon DEF RepeatedIncident
      <4>2. q \in BOOLEAN
        OBVIOUS
      <4>. HIDE DEF q
      <4>3. LET row == [closed[i] EXCEPT !.qualified = q]
            IN  /\ row.target = closed[i].target /\ row.kind = closed[i].kind
                /\ row.open = closed[i].open /\ row.qualified = q
        BY <1>2, <4>2 DEF Incident
      <4>. QED
        BY <3>2, <4>1, <4>3, Zenon DEF q
    <3>. QED
      BY <3>1, <3>2
  <2>3. DOMAIN incidents' = DOMAIN incidents
    BY <1>2, <2>1
  <2>. HIDE DEF repeated
  <2>. QED
    BY <1>3, <1>4, <1>7, <2>1, <2>2, <2>3 DEF FailureRows, enough, streak
<1>8. CASE current = {} /\ enough
  <2>1. incidents' = Append(closed, new)
    BY <1>1, <1>8
  <2>2. /\ Len(incidents) \in Nat /\ DOMAIN incidents = 1..Len(incidents)
        /\ Len(closed) = Len(incidents)
    BY <1>2, RowsAreFunction, CloseRows DEF IInv, TypeOK, closed
  <2>3. /\ DOMAIN incidents' = 1..(Len(incidents) + 1)
        /\ incidents'[Len(incidents) + 1] = new
        /\ \A i \in DOMAIN incidents : incidents'[i] = closed[i]
    BY <1>2, <2>1, <2>2
  <2>4. \A i \in DOMAIN incidents' \ DOMAIN incidents : i = Len(incidents) + 1
    BY <2>2, <2>3
  <2>5. \A i \in DOMAIN incidents : ~Open(i, t, {kind})
    BY <1>4, <1>8
  <2>6. Len(incidents) + 1 \in DOMAIN incidents' /\ Len(incidents) + 1 \notin DOMAIN incidents
    BY <2>2, <2>3
  <2>7. \A i \in DOMAIN incidents' \ DOMAIN incidents : incidents'[i] = new
    BY <2>3, <2>4
  <2>8. DOMAIN incidents \subseteq DOMAIN incidents'
    BY <2>2, <2>3
  <2>9. \A i \in DOMAIN incidents :
            /\ incidents'[i].target = incidents[i].target
            /\ incidents'[i].kind = incidents[i].kind
            /\ incidents'[i].open <=> incidents[i].open /\ ~Open(i, t, ClosedBy(kind))
            /\ incidents'[i].qualified <=> incidents[i].qualified
    BY <1>3, <2>3
  <2>10. FailureRows(t, kind, enough)
    BY <1>6, <1>8, <2>4, <2>5, <2>6, <2>7, <2>8, <2>9, Zenon DEF FailureRows
  <2>. QED
    BY <2>10 DEF enough, streak
<1>9. CASE current = {} /\ ~enough
  <2>1. incidents' = closed
    BY <1>1, <1>9
  <2>. QED
    BY <1>2, <1>3, <1>4, <1>9, <2>1 DEF FailureRows, enough, streak
<1>. QED
  BY <1>7, <1>8, <1>9

\* A failure of any kind leaves open what it does not disprove.
LEMMA ClosedByOther ==
    ASSUME NEW kind \in Kinds
    PROVE  kind \notin ClosedBy(kind) /\ "node_failure" \notin ClosedBy(kind)
  BY DEF Kinds, ClosedBy

LEMMA OpenStep ==
    ASSUME BoundsAssumption, IInv, OneOpen, NEW t \in Targets,
           RecordSuccess(t) \/ \E f \in Failures : RecordFailure(t, f[1], f[2])
    PROVE  OneOpen'
<1>1. CASE RecordSuccess(t)
  <2>1. incidents' = Close(t, Kinds) /\ DOMAIN incidents' = DOMAIN incidents
    BY <1>1, CloseRows DEF RecordSuccess, IInv
  <2>2. \A i \in DOMAIN incidents :
            /\ incidents'[i].target = incidents[i].target
            /\ incidents'[i].kind = incidents[i].kind
            /\ incidents'[i].open => incidents[i].open
    BY <2>1, CloseCloses DEF IInv
  <2>. QED
    BY <2>1, <2>2 DEF OneOpen
<1>2. ASSUME NEW f \in Failures, RecordFailure(t, f[1], f[2])
      PROVE  OneOpen'
  <2>. DEFINE enough == Longer(streaks[t][<<f[1], f[2]>>]).n >= FailureThreshold
  <2>1. FailureRows(t, f[1], enough)
    BY <1>2, FailureWrites
  <2>. HIDE DEF enough
  <2>2. SUFFICES ASSUME NEW i \in DOMAIN incidents', NEW j \in DOMAIN incidents',
                        incidents'[i].open, incidents'[j].open,
                        incidents'[i].target = incidents'[j].target,
                        incidents'[i].kind = incidents'[j].kind
                 PROVE  i = j
    BY DEF OneOpen
  <2>3. CASE i \in DOMAIN incidents /\ j \in DOMAIN incidents
    BY <2>1, <2>2, <2>3 DEF FailureRows, OneOpen
  <2>4. CASE i \notin DOMAIN incidents /\ j \notin DOMAIN incidents
    BY <2>1, <2>4 DEF FailureRows
  <2>5. ASSUME NEW old \in DOMAIN incidents, NEW new \in DOMAIN incidents' \ DOMAIN incidents,
               incidents'[old].open, incidents'[old].target = incidents'[new].target,
               incidents'[old].kind = incidents'[new].kind
        PROVE  FALSE
    BY <2>1, <2>5 DEF FailureRows, Open
  <2>. QED
    BY <2>2, <2>3, <2>4, <2>5
<1>. QED
  BY <1>1, <1>2

\* Rows of other targets, and what is known of these, stay as they are.
LEMMA CloseStep ==
    ASSUME ThresholdAssumption, BoundsAssumption, IInv, ResultsClose, NEW t \in Targets,
           RecordSuccess(t) \/ \E f \in Failures : RecordFailure(t, f[1], f[2])
    PROVE  ResultsClose'
<1>. SUFFICES ASSUME NEW u \in Targets, NEW i \in DOMAIN incidents',
                     latest'[u].n > 0, incidents'[i].target = u, incidents'[i].open
              PROVE  /\ latest'[u].result # Success
                     /\ latest'[u].result[1] = "node_failure" =>
                            incidents'[i].kind = "node_failure"
  BY DEF ResultsClose
<1>0. \A j \in DOMAIN incidents : incidents[j].kind \in Kinds
  BY RowsAreFunction DEF IInv, TypeOK, Incident
<1>1. CASE RecordSuccess(t)
  <2>1. incidents' = Close(t, Kinds) /\ DOMAIN incidents' = DOMAIN incidents
    BY <1>1, CloseRows DEF RecordSuccess, IInv
  <2>2. /\ incidents'[i].target = incidents[i].target
        /\ incidents'[i].kind = incidents[i].kind
        /\ incidents[i].open /\ ~Open(i, t, Kinds)
    BY <2>1, CloseCloses DEF IInv
  <2>3. u # t
    BY <1>0, <2>1, <2>2 DEF Open
  <2>4. latest'[u] = latest[u]
    BY <1>1, <2>3 DEF RecordSuccess, IInv, TypeOK
  <2>. QED
    BY <2>1, <2>2, <2>4 DEF ResultsClose
<1>2. ASSUME NEW f \in Failures, RecordFailure(t, f[1], f[2])
      PROVE  /\ latest'[u].result # Success
             /\ latest'[u].result[1] = "node_failure" => incidents'[i].kind = "node_failure"
  <2>. DEFINE enough == Longer(streaks[t][<<f[1], f[2]>>]).n >= FailureThreshold
  <2>1. FailureRows(t, f[1], enough)
    BY <1>2, FailureWrites
  <2>. HIDE DEF enough
  <2>2. f = <<f[1], f[2]>> /\ f[1] \in Kinds
    BY DEF Failures
  <2>3. latest' = [latest EXCEPT ![t] = Repeated(t, f)]
    BY <1>2, <2>2 DEF RecordFailure
  <2>4. CASE u # t
    <3>1. latest'[u] = latest[u]
      BY <2>3, <2>4 DEF IInv, TypeOK
    <3>2. i \in DOMAIN incidents
      BY <2>1, <2>4 DEF FailureRows
    <3>. QED
      BY <2>1, <3>1, <3>2 DEF FailureRows, ResultsClose
  <2>5. CASE u = t
    <3>1. latest'[u].result = f
      BY <2>3, <2>5 DEF IInv, TypeOK, Repeated
    <3>2. f # Success
      BY SuccessIsNone
    <3>3. ASSUME f[1] = "node_failure"
          PROVE  incidents'[i].kind = "node_failure"
      <4>1. CASE i \notin DOMAIN incidents
        BY <2>1, <3>3, <4>1 DEF FailureRows
      <4>2. CASE i \in DOMAIN incidents
        <5>1. /\ incidents[i].open /\ ~Open(i, t, {"executor_error"})
              /\ incidents[i].target = t /\ incidents'[i].kind = incidents[i].kind
          BY <2>1, <2>5, <3>3, <4>2 DEF FailureRows, ClosedBy
        <5>. QED
          BY <1>0, <4>2, <5>1 DEF Open, Kinds
      <4>. QED
        BY <4>1, <4>2
    <3>. QED
      BY <3>1, <3>2, <3>3
  <2>. QED
    BY <2>4, <2>5
<1>. QED
  BY <1>1, <1>2

LEMMA EnoughStep ==
    ASSUME ThresholdAssumption, BoundsAssumption, IInv, StreaksTell, ResultsOpen, NEW t \in Targets,
           RecordSuccess(t) \/ \E f \in Failures : RecordFailure(t, f[1], f[2])
    PROVE  ResultsOpen'
<1>. DEFINE Accepted(rows, u, kind) ==
        \E i \in DOMAIN rows : /\ rows[i].target = u /\ rows[i].open
                               /\ rows[i].kind = kind /\ rows[i].qualified
<1>. SUFFICES ASSUME NEW u \in Targets,
                     latest'[u].result # Success, latest'[u].n >= FailureThreshold
              PROVE  Accepted(incidents', u, latest'[u].result[1])
  BY DEF ResultsOpen
<1>1. CASE RecordSuccess(t)
  <2>1. incidents' = Close(t, Kinds) /\ DOMAIN incidents' = DOMAIN incidents
    BY <1>1, CloseRows DEF RecordSuccess, IInv
  <2>2. latest' = [latest EXCEPT ![t] = Repeated(t, Success)]
    BY <1>1 DEF RecordSuccess
  <2>3. u # t
    BY <2>2 DEF IInv, TypeOK, Repeated
  <2>4. latest'[u] = latest[u]
    BY <2>2, <2>3 DEF IInv, TypeOK
  <2>5. PICK i \in DOMAIN incidents :
            /\ incidents[i].target = u /\ incidents[i].open
            /\ incidents[i].kind = latest[u].result[1] /\ incidents[i].qualified
    BY <2>4 DEF ResultsOpen
  <2>6. /\ incidents'[i].target = u /\ incidents'[i].open
        /\ incidents'[i].kind = latest'[u].result[1] /\ incidents'[i].qualified
    BY <2>1, <2>3, <2>4, <2>5, CloseCloses DEF IInv, Open
  <2>. QED
    BY <2>1, <2>6
<1>2. ASSUME NEW f \in Failures, RecordFailure(t, f[1], f[2])
      PROVE  Accepted(incidents', u, latest'[u].result[1])
  <2>. DEFINE enough == Longer(streaks[t][<<f[1], f[2]>>]).n >= FailureThreshold
  <2>1. FailureRows(t, f[1], enough)
    BY <1>2, FailureWrites
  <2>2. f = <<f[1], f[2]>> /\ f[1] \in Kinds
    BY DEF Failures
  <2>3. latest' = [latest EXCEPT ![t] = Repeated(t, f)]
    BY <1>2, <2>2 DEF RecordFailure
  <2>4. CASE u # t
    <3>. HIDE DEF enough
    <3>1. latest'[u] = latest[u]
      BY <2>3, <2>4 DEF IInv, TypeOK
    <3>2. PICK i \in DOMAIN incidents :
            /\ incidents[i].target = u /\ incidents[i].open
            /\ incidents[i].kind = latest[u].result[1] /\ incidents[i].qualified
      BY <3>1 DEF ResultsOpen
    <3>. QED
      BY <2>1, <2>4, <3>1, <3>2 DEF FailureRows, Open
  <2>5. CASE u = t
    <3>1. latest'[u].result = f /\ enough
      <4>1. latest'[u] = Repeated(t, f) /\ Repeated(t, f).result = f
        BY <2>3, <2>5 DEF IInv, TypeOK, Repeated
      <4>. QED
        BY <2>2, <4>1, StreakIsCount
    <3>. HIDE DEF enough
    <3>2. CASE \E i \in DOMAIN incidents : Open(i, t, {f[1]})
      <4>1. PICK i \in DOMAIN incidents : Open(i, t, {f[1]})
        BY <3>2
      <4>2. ~Open(i, t, ClosedBy(f[1]))
        BY <2>2, <4>1, ClosedByOther DEF Open
      <4>3. /\ i \in DOMAIN incidents'
            /\ incidents'[i].target = t /\ incidents'[i].kind = f[1]
            /\ incidents'[i].open /\ incidents'[i].qualified
        BY <2>1, <3>1, <4>1, <4>2 DEF FailureRows, Open
      <4>. QED
        BY <2>5, <3>1, <4>3
    <3>3. CASE \E i \in DOMAIN incidents' : i \notin DOMAIN incidents
      BY <2>1, <2>5, <3>1, <3>3 DEF FailureRows
    <3>. QED
      BY <2>1, <3>1, <3>2, <3>3 DEF FailureRows
  <2>. QED
    BY <2>4, <2>5
<1>. QED
  BY <1>1, <1>2

\* The workers and time change only how far the analysis of a row has come.
RowsStand ==
    /\ DOMAIN incidents' = DOMAIN incidents
    /\ \A i \in DOMAIN incidents :
        /\ incidents'[i].target = incidents[i].target
        /\ incidents'[i].kind = incidents[i].kind
        /\ incidents'[i].open = incidents[i].open
        /\ incidents'[i].qualified = incidents[i].qualified

LEMMA WorkStands ==
    ASSUME IInv, NEW w \in Workers, Work(w) \/ Crash(w)
    PROVE  RowsStand /\ UNCHANGED <<streaks, latest>>
<1>1. /\ \A i \in DOMAIN incidents : incidents[i] \in Incident
      /\ incidents \in [DOMAIN incidents -> Incident]
  BY RowsAreFunction DEF IInv, TypeOK
<1>2. CASE UNCHANGED <<incidents, streaks, latest>>
  BY <1>2 DEF RowsStand
<1>3. CASE Begin(w) \/ RecoverStale(w)
  <2>1. CASE UNCHANGED incidents
    BY <1>2, <1>3, <2>1 DEF Begin, RecoverStale
  <2>2. CASE incidents' = Recovered
    BY <1>1, <1>3, <2>2 DEF Begin, RecoverStale, Recovered, RowsStand, Incident
  <2>. QED
    BY <1>3, <2>1, <2>2 DEF Begin, RecoverStale
<1>4. CASE Claim(w)
  <2>1. CASE UNCHANGED incidents
    BY <1>2, <1>4, <2>1 DEF Claim
  <2>2. ASSUME NEW i \in Claimable,
               incidents' = [incidents EXCEPT ![i].status = "running", ![i].stale = FALSE]
        PROVE  RowsStand
    BY <1>1, <2>2 DEF RowsStand, Incident, Claimable
  <2>. QED
    BY <1>4, <2>1, <2>2 DEF Claim
<1>5. CASE Store(w)
  <2>1. CASE UNCHANGED incidents
    BY <1>2, <1>5, <2>1 DEF Store
  <2>2. ASSUME NEW s, incidents' = [incidents EXCEPT ![worker[w].id].status = s]
        PROVE  RowsStand
    BY <1>1, <2>2 DEF RowsStand, Incident
  <2>. QED
    BY <1>5, <2>1, <2>2 DEF Store
<1>6. CASE Diagnose(w) \/ WriteReport(w) \/ Crash(w)
  BY <1>2, <1>6 DEF Diagnose, WriteReport, Crash
<1>. QED
  BY <1>3, <1>4, <1>5, <1>6 DEF Work

LEMMA AgeStands ==
    ASSUME IInv, NEW i \in DOMAIN incidents, ClaimAges(i)
    PROVE  RowsStand /\ UNCHANGED <<streaks, latest>>
<1>1. incidents \in [DOMAIN incidents -> Incident]
  BY RowsAreFunction DEF IInv, TypeOK
<1>. QED
  BY <1>1 DEF ClaimAges, RowsStand, Incident

LEMMA ResultsStep ==
    ASSUME ThresholdAssumption, BoundsAssumption, IInv, RInv, [Next]_vars
    PROVE  RInv'
<1>1. CASE Record
  <2>1. PICK t \in Targets : RecordSuccess(t)
                             \/ \E f \in Failures : RecordFailure(t, f[1], f[2])
    BY <1>1 DEF Record
  <2>. QED
    BY <2>1, OpenStep, StreaksStep, CloseStep, EnoughStep DEF RInv
<1>2. CASE RowsStand /\ UNCHANGED <<streaks, latest>>
  <2>1. OneOpen'
    BY <1>2 DEF RInv, OneOpen, RowsStand
  <2>2. StreaksTell' /\ ResultsClose'
    BY <1>2 DEF RInv, StreaksTell, ResultsClose, RowsStand
  <2>3. ResultsOpen'
    BY <1>2 DEF RInv, ResultsOpen, RowsStand
  <2>. QED
    BY <2>1, <2>2, <2>3 DEF RInv
<1>3. CASE UNCHANGED vars
  BY <1>2, <1>3 DEF vars, RowsStand
<1>. QED
  BY <1>1, <1>2, <1>3, WorkStands, AgeStands DEF Next

LEMMA ResultsInvariant == Spec => [](IInv /\ RInv)
<1>1. Init => RInv
  <2>. SUFFICES ASSUME Init
                PROVE  RInv
    OBVIOUS
  <2>1. \A i, j \in DOMAIN incidents : i = j
    BY DEF Init
  <2>2. OneOpen
    BY <2>1 DEF OneOpen
  <2>3. StreaksTell /\ ResultsClose /\ ResultsOpen
    BY DEF Init, StreaksTell, ResultsClose, ResultsOpen, NoStreak
  <2>. QED
    BY <2>2, <2>3 DEF RInv
<1>2. Init => IInv
  BY InitKeeps, ThresholdAssumption, BoundsAssumption
<1>3. IInv /\ RInv /\ [Next]_vars => IInv' /\ RInv'
  BY Inductive, ResultsStep, ThresholdAssumption, BoundsAssumption
<1>. QED
  BY <1>1, <1>2, <1>3, PTL DEF Spec

\* However results of several hosts and processes follow each other: after a
\* success nothing of the target is open, after a failure of the node nothing
\* of the executor is, and enough failures of one kind from one host leave
\* exactly one open incident of that kind, accepted for diagnosis.
THEOREM IncidentsFollow == Spec => []IncidentsFollowResults
<1>1. IInv /\ RInv => IncidentsFollowResults
  <2>. SUFFICES ASSUME IInv, RInv, NEW t \in Targets, latest[t].n > 0
                PROVE  LET open == {i \in DOMAIN incidents : Open(i, t, Kinds)}
                           last == latest[t].result
                       IN  IF last = Success THEN open = {}
                           ELSE /\ last[1] = "node_failure" =>
                                        \A i \in open : incidents[i].kind = "node_failure"
                                /\ latest[t].n >= FailureThreshold =>
                                    \E i \in open :
                                        /\ incidents[i].kind = last[1] /\ incidents[i].qualified
                                        /\ \A j \in open \ {i} : incidents[j].kind # last[1]
    BY DEF IncidentsFollowResults
  <2>. DEFINE open == {i \in DOMAIN incidents : Open(i, t, Kinds)}
              last == latest[t].result
  <2>1. \A i \in DOMAIN incidents : incidents[i].kind \in Kinds
    BY RowsAreFunction DEF IInv, TypeOK, Incident
  <2>2. \A i : i \in open <=> /\ i \in DOMAIN incidents
                              /\ incidents[i].target = t /\ incidents[i].open
    BY <2>1 DEF Open
  <2>. HIDE DEF open
  <2>3. ASSUME last = Success
        PROVE  open = {}
    BY <2>2, <2>3 DEF RInv, ResultsClose
  <2>4. ASSUME last # Success
        PROVE  /\ last[1] = "node_failure" => \A i \in open : incidents[i].kind = "node_failure"
               /\ latest[t].n >= FailureThreshold =>
                    \E i \in open : /\ incidents[i].kind = last[1] /\ incidents[i].qualified
                                    /\ \A j \in open \ {i} : incidents[j].kind # last[1]
    <3>1. last[1] = "node_failure" => \A i \in open : incidents[i].kind = "node_failure"
      BY <2>2, <2>4 DEF RInv, ResultsClose
    <3>2. ASSUME latest[t].n >= FailureThreshold
          PROVE  \E i \in open : /\ incidents[i].kind = last[1] /\ incidents[i].qualified
                                 /\ \A j \in open \ {i} : incidents[j].kind # last[1]
      <4>1. PICK i \in DOMAIN incidents :
                /\ incidents[i].target = t /\ incidents[i].open
                /\ incidents[i].kind = last[1] /\ incidents[i].qualified
        BY <2>4, <3>2 DEF RInv, ResultsOpen
      <4>2. i \in open /\ \A j \in open \ {i} : incidents[j].kind # last[1]
        BY <2>2, <4>1 DEF RInv, OneOpen
      <4>. QED
        BY <4>1, <4>2
    <3>. QED
      BY <3>1, <3>2
  <2>. QED
    BY <2>3, <2>4 DEF open
<1>. QED
  BY <1>1, ResultsInvariant, PTL

\* What EvidenceDecides says of one step.
Evidence ==
    /\ \A i \in DOMAIN incidents' :
        (i \notin DOMAIN incidents \/ ~incidents[i].qualified) /\ incidents'[i].qualified =>
            LET last == latest'[incidents'[i].target]
            IN  last.n >= FailureThreshold /\ last.result[1] = incidents'[i].kind
    /\ \A i \in DOMAIN incidents :
        incidents[i].kind = "node_failure" /\ incidents[i].open /\ ~incidents'[i].open =>
            latest'[incidents[i].target].result = Success

\* No row is accepted for diagnosis, new or old, but by the failure that makes
\* it enough of one kind from one host, and no failure of any kind, no worker
\* and no recovery closes an incident of the node.
THEOREM EvidenceIsNeeded == Spec => EvidenceDecides
<1>1. ASSUME IInv, RInv, NEW t \in Targets, RecordSuccess(t)
      PROVE  Evidence
  <2>1. incidents' = Close(t, Kinds) /\ DOMAIN incidents' = DOMAIN incidents
    BY <1>1, CloseRows DEF RecordSuccess, IInv
  <2>2. latest'[t].result = Success
    BY <1>1 DEF RecordSuccess, IInv, TypeOK, Repeated
  <2>3. \A i \in DOMAIN incidents :
            /\ incidents'[i].qualified = incidents[i].qualified
            /\ incidents'[i].open <=> incidents[i].open /\ ~Open(i, t, Kinds)
    BY <1>1, <2>1, CloseCloses DEF IInv
  <2>. QED
    BY <2>1, <2>2, <2>3 DEF Evidence, Open
<1>2. ASSUME IInv, RInv, NEW t \in Targets, NEW f \in Failures, RecordFailure(t, f[1], f[2])
      PROVE  Evidence
  <2>. DEFINE enough == Longer(streaks[t][<<f[1], f[2]>>]).n >= FailureThreshold
  <2>1. FailureRows(t, f[1], enough)
    BY <1>2, FailureWrites, BoundsAssumption
  <2>2. f = <<f[1], f[2]>> /\ f[1] \in Kinds
    BY DEF Failures
  <2>3. latest'[t] = Repeated(t, f) /\ latest'[t].result = f
    BY <1>2, <2>2 DEF RecordFailure, IInv, TypeOK, Repeated
  <2>4. enough => latest'[t].n >= FailureThreshold
    BY <1>2, <2>2, <2>3, StreakIsCount, ThresholdAssumption DEF RInv
  <2>. HIDE DEF enough
  <2>5. ASSUME NEW i \in DOMAIN incidents', i \notin DOMAIN incidents \/ ~incidents[i].qualified,
               incidents'[i].qualified
        PROVE  enough /\ incidents'[i].target = t /\ incidents'[i].kind = f[1]
    BY <2>1, <2>5 DEF FailureRows, Open
  <2>6. ASSUME NEW i \in DOMAIN incidents, incidents[i].kind = "node_failure",
               incidents[i].open, ~incidents'[i].open
        PROVE  FALSE
    <3>1. Open(i, t, ClosedBy(f[1]))
      BY <2>1, <2>6 DEF FailureRows
    <3>. QED
      BY <2>2, <2>6, <3>1, ClosedByOther DEF Open
  <2>. QED
    BY <2>3, <2>4, <2>5, <2>6 DEF Evidence
<1>3. ASSUME RowsStand
      PROVE  Evidence
  BY <1>3 DEF RowsStand, Evidence
<1>4. IInv /\ RInv /\ [Next]_vars => [Evidence]_vars
  BY <1>1, <1>2, <1>3, WorkStands, AgeStands DEF Next, Record
<1>5. EvidenceDecides <=> [][Evidence]_vars
  BY PTL DEF EvidenceDecides, Evidence
<1>. QED
  BY <1>4, <1>5, ResultsInvariant, PTL DEF Spec
=============================================================================
