----------------------------- MODULE DnsFailover -----------------------------
(***************************************************************************)
(* DNS failover: app/state/dns_failover.py, scheduled by                   *)
(* app/runtime/dns_failover.py and reachable from the admin API.           *)
(*                                                                         *)
(* A check probes the primary outside of any lock, updates the counters    *)
(* and decides under the write lock, and talks to Cloudflare outside of it *)
(* again.  The worker and an administrator can be in the middle of it at   *)
(* the same time, each at one of the steps below.                          *)
(***************************************************************************)
EXTENDS Naturals

CONSTANTS
    Admins,         \* administrators' requests in progress at a time
    Worker,         \* the DNS failover worker
    FailureThreshold, RecoveryThreshold,
    MaxFlips,       \* bound: changes of the primary's health
    MaxPeaks,       \* bound: boundaries of the peak window that pass
    MaxErrors,      \* bound: Cloudflare calls refused
    MaxLost,        \* bound: updates done whose answer is lost
    MaxBlind,       \* bound: probes the executor could not carry out
    MaxManual,      \* bound: switches and checks asked for by administrators
    MaxCrashes      \* bound: deaths of the panel

ASSUME ThresholdsAssumption ==
    /\ FailureThreshold \in Nat \ {0}
    /\ RecoveryThreshold \in Nat \ {0}
ASSUME WorkerAssumption == Worker \notin Admins
ASSUME BoundsAssumption ==
    {MaxFlips, MaxPeaks, MaxErrors, MaxLost, MaxBlind, MaxManual, MaxCrashes} \subseteq Nat

VARIABLES
    record,         \* where the Cloudflare record points
    row,            \* dns_failover_state: current_target and the counters
    up,             \* the primary answers protocol probes
    peak,           \* the peak window is configured and active
    actor,          \* what each check or switch in progress holds in its locals
    life,           \* "up", or "down" until the startup snapshot is taken
    seen,           \* how often in a row the probes found the primary [down, up]
    used            \* how much of each bound has been used

vars == <<record, row, up, peak, actor, life, seen, used>>

Actors == {Worker} \cup Admins
Targets == {"primary", "backup"}
Other(t) == IF t = "primary" THEN "backup" ELSE "primary"

Steps == {"idle", "count", "get", "put", "write"}
Outcomes == {"healthy", "unhealthy", "management_error"}
Actor == [step : Steps, probe : Outcomes, goal : Targets, auto : BOOLEAN]
Idle == [step |-> "idle", probe |-> "healthy", goal |-> "primary", auto |-> FALSE]

\* The counters are only ever compared with the thresholds: counting further
\* than one past them makes no difference.
CounterCap ==
    1 + IF FailureThreshold > RecoveryThreshold THEN FailureThreshold ELSE RecoveryThreshold
More(n) == IF n < CounterCap THEN n + 1 ELSE n

Kinds == {"flips", "peaks", "errors", "lost", "blind", "manual", "crashes"}
Bound == [flips |-> MaxFlips, peaks |-> MaxPeaks, errors |-> MaxErrors, lost |-> MaxLost,
          blind |-> MaxBlind, manual |-> MaxManual, crashes |-> MaxCrashes]
Use(kind) == used[kind] < Bound[kind] /\ used' = [used EXCEPT ![kind] = @ + 1]

Init ==
    /\ record = "primary"
    /\ row = [target |-> "primary", failures |-> 0, successes |-> 0]
    /\ up = TRUE /\ peak = FALSE
    /\ actor = [a \in Actors |-> Idle]
    /\ life = "up"
    /\ seen = [down |-> 0, up |-> 0]
    /\ used = [kind \in Kinds |-> 0]

-----------------------------------------------------------------------------
(* run_dns_failover_check                                                   *)

\* What the probe finds; an executor that cannot probe reports that instead.
Seen(outcome) ==
    CASE outcome = "healthy"   -> [down |-> 0, up |-> More(seen.up)]
      [] outcome = "unhealthy" -> [down |-> More(seen.down), up |-> 0]
      [] OTHER -> seen

Probe(a) ==
    /\ life = "up" /\ actor[a].step = "idle"
    /\ \E outcome \in Outcomes :
        /\ IF outcome = "management_error" THEN used.blind < MaxBlind
           ELSE outcome = IF up THEN "healthy" ELSE "unhealthy"
        /\ actor' = [actor EXCEPT ![a].step = "count", ![a].probe = outcome]
        /\ seen' = Seen(outcome)
        /\ used' = [used EXCEPT !.blind = @ + IF outcome = "management_error" THEN 1 ELSE 0,
                                !.manual = @ + IF a = Worker THEN 0 ELSE 1]
        /\ a # Worker => used.manual < MaxManual
    /\ UNCHANGED <<record, row, up, peak, life>>

\* Seeded fault: a switch is asked for only in the check that reaches the threshold.
TransitionAtExactCount(target, failures, successes, ok, preferred) ==
    IF ok THEN target # preferred /\ successes = RecoveryThreshold
          ELSE target = preferred /\ failures = FailureThreshold
\* evaluate_dns_failover_transition: move to the other target?
Transition(target, failures, successes, ok, preferred) ==
    IF ok THEN target # preferred /\ successes >= RecoveryThreshold
          ELSE target = preferred /\ failures >= FailureThreshold

Preferred == IF peak THEN "backup" ELSE "primary"

\* Seeded fault: a probe that could not be carried out counts as a failure.
CountBlindAsFailure(a) ==
    LET ok == actor[a].probe = "healthy"
        failures == IF ok THEN 0 ELSE More(row.failures)
        successes == IF ok THEN More(row.successes) ELSE 0
    IN  /\ actor[a].step = "count"
        /\ row' = [row EXCEPT !.failures = failures, !.successes = successes]
        /\ IF Transition(row.target, failures, successes, ok, Preferred)
           THEN actor' = [actor EXCEPT ![a] =
                    [@ EXCEPT !.step = "get", !.goal = Other(row.target), !.auto = TRUE]]
           ELSE actor' = [actor EXCEPT ![a] = Idle]
        /\ UNCHANGED <<record, up, peak, life, seen, used>>
\* Count the outcome and decide, in one transaction.  The counters are not
\* reset by a switch, and an executor error leaves them alone.
Count(a) ==
    LET ok == actor[a].probe = "healthy"
        failures == IF ok THEN 0 ELSE More(row.failures)
        successes == IF ok THEN More(row.successes) ELSE 0
    IN  /\ actor[a].step = "count"
        /\ IF actor[a].probe = "management_error"
           THEN actor' = [actor EXCEPT ![a] = Idle] /\ UNCHANGED row
           ELSE /\ row' = [row EXCEPT !.failures = failures, !.successes = successes]
                /\ IF Transition(row.target, failures, successes, ok, Preferred)
                   THEN actor' = [actor EXCEPT ![a] =
                            [@ EXCEPT !.step = "get", !.goal = Other(row.target), !.auto = TRUE]]
                   ELSE actor' = [actor EXCEPT ![a] = Idle]
        /\ UNCHANGED <<record, up, peak, life, seen, used>>

-----------------------------------------------------------------------------
(* switch_dns_target                                                        *)

\* POST /api/dns-failover/switch
ManualSwitch(a) ==
    /\ life = "up" /\ a # Worker /\ actor[a].step = "idle"
    /\ Use("manual")
    /\ \E t \in Targets : actor' = [actor EXCEPT ![a] = [@ EXCEPT !.step = "get", !.goal = t, !.auto = FALSE]]
    /\ UNCHANGED <<record, row, up, peak, life, seen>>

\* Read the record: nothing to update if it is already where it should be.
GetRecord(a) ==
    /\ actor[a].step = "get"
    /\ \/ /\ actor' = [actor EXCEPT ![a].step = IF record = actor[a].goal THEN "write" ELSE "put"]
          /\ UNCHANGED used
       \/ Use("errors") /\ actor' = [actor EXCEPT ![a] = Idle]
    /\ UNCHANGED <<record, row, up, peak, life, seen>>

\* Update the record.  A refused call changes nothing; an answer can also be
\* lost after the update.
PutRecord(a) ==
    /\ actor[a].step = "put"
    /\ \/ /\ record' = actor[a].goal
          /\ actor' = [actor EXCEPT ![a].step = "write"]
          /\ UNCHANGED used
       \/ Use("errors") /\ actor' = [actor EXCEPT ![a] = Idle] /\ UNCHANGED record
       \/ Use("lost") /\ record' = actor[a].goal /\ actor' = [actor EXCEPT ![a] = Idle]
    /\ UNCHANGED <<row, up, peak, life, seen>>

\* Seeded fault: what is written is the content of the record, a third target.
WriteContent(a) ==
    /\ actor[a].step = "write"
    /\ row' = [row EXCEPT !.target = "unknown"]
    /\ actor' = [actor EXCEPT ![a] = Idle]
    /\ UNCHANGED <<record, up, peak, life, seen, used>>
\* Remember the target, after an update or because none was needed.
Write(a) ==
    /\ actor[a].step = "write"
    /\ row' = [row EXCEPT !.target = actor[a].goal]
    /\ actor' = [actor EXCEPT ![a] = Idle]
    /\ UNCHANGED <<record, up, peak, life, seen, used>>

Continue(a) == Count(a) \/ GetRecord(a) \/ PutRecord(a) \/ Write(a)

-----------------------------------------------------------------------------
Crash ==
    /\ life = "up"
    /\ Use("crashes")
    /\ actor' = [a \in Actors |-> Idle]
    /\ life' = "down"
    /\ UNCHANGED <<record, row, up, peak, seen>>

\* Seeded fault: the startup believes the database.
RestartUnverified ==
    /\ life = "down"
    /\ life' = "up"
    /\ UNCHANGED <<record, row, up, peak, actor, seen, used>>
\* refresh_dns_failover_record_snapshot, before the workers start; the panel
\* starts without it if Cloudflare refuses.
Restart ==
    /\ life = "down"
    /\ life' = "up"
    /\ \/ row' = [row EXCEPT !.target = record] /\ UNCHANGED used
       \/ Use("errors") /\ UNCHANGED row
    /\ UNCHANGED <<record, up, peak, actor, seen>>

PrimaryFlips ==
    /\ Use("flips")
    /\ up' = ~up
    /\ UNCHANGED <<record, row, peak, actor, life, seen>>

PeakBoundary ==
    /\ Use("peaks")
    /\ peak' = ~peak
    /\ UNCHANGED <<record, row, up, actor, life, seen>>

Next ==
    \/ \E a \in Actors : Probe(a) \/ ManualSwitch(a) \/ Continue(a)
    \/ Crash \/ Restart \/ PrimaryFlips \/ PeakBoundary

Spec == Init /\ [][Next]_vars

\* The worker's loop goes on for ever, requests end, the panel is restarted.
FairSpec ==
    /\ Spec
    /\ WF_vars(Probe(Worker)) /\ WF_vars(Restart)
    /\ \A a \in Actors : WF_vars(Continue(a))

-----------------------------------------------------------------------------
\* Types.  The row, the record and the step of every actor are well-formed.
TypeOK ==
    /\ record \in Targets
    /\ row \in [target : Targets, failures : 0..CounterCap, successes : 0..CounterCap]
    /\ up \in BOOLEAN /\ peak \in BOOLEAN
    /\ actor \in [Actors -> Actor]
    /\ life \in {"up", "down"}
    /\ seen \in [down : 0..CounterCap, up : 0..CounterCap]
    /\ used \in [Kinds -> Nat] /\ \A kind \in Kinds : used[kind] <= Bound[kind]

\* A primary that stays down ends up without the record pointing at it
\* (operations.md:112: data plane down, DNS goes to backup).
FailsOver == <>[]~up => <>[](record = "backup")

\* What the database says of the record can be relied on: nobody switched by
\* hand and Cloudflare answered every call, or else, whenever no check and no
\* switch is in progress, it is right.
RecordTrusted ==
    \/ \A kind \in {"manual", "errors", "lost"} : used[kind] = 0
    \/ (\A a \in Actors : actor[a].step = "idle") => row.target = record

\* Once the peak window is over for good, and as long as the database can be
\* relied on, a primary that stays down loses the record, whatever was refused,
\* switched by hand or interrupted by a death before (operations.md:112).
FailsOverWhenTrusted == <>[](~up /\ ~peak /\ RecordTrusted) => <>[](record = "backup")

\* Likewise a primary that stays up gets the record back (operations.md:101:
\* after the recovery threshold the record goes back to the primary).
Recovers == <>[](up /\ ~peak /\ RecordTrusted) => <>[](record = "primary")

\* While only the worker switches, no peak window interferes and no death loses a
\* probe's outcome, it moves the record away from the primary after that many
\* probes in a row have found the primary down, and back after that many have
\* found it up; executor errors are no evidence of either (dns-failover.md:101).
SwitchesFollowTheNode ==
    [][record' # record /\ (\A kind \in {"manual", "peaks", "crashes"} : used[kind] = 0) =>
        IF record' = "backup" THEN seen.down >= FailureThreshold
                              ELSE seen.up >= RecoveryThreshold]_vars
=============================================================================
