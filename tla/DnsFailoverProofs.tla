-------------------------- MODULE DnsFailoverProofs --------------------------
(***************************************************************************)
(* Theorems about DnsFailover, for any number of administrators, any       *)
(* thresholds and any number of flips, errors, lost answers and deaths.    *)
(***************************************************************************)
EXTENDS DnsFailover, TLAPS

-----------------------------------------------------------------------------
(* Types                                                                    *)

\* The bounds are numbers.
LEMMA BoundTyped == Bound \in [Kinds -> Nat]
BY BoundsAssumption, SMT DEF Bound, Kinds

\* The cap of the counters is a number that neither threshold reaches.
LEMMA CapAbove ==
    /\ CounterCap \in Nat
    /\ FailureThreshold \in Nat /\ FailureThreshold < CounterCap
    /\ RecoveryThreshold \in Nat /\ RecoveryThreshold < CounterCap
BY ThresholdsAssumption, SMT DEF CounterCap

\* Counting stays below the cap.
LEMMA MoreTyped ==
    ASSUME NEW n \in 0..CounterCap
    PROVE  More(n) \in 0..CounterCap
BY CapAbove, SMT DEF More

\* Using up a bound keeps the account of the bounds well-formed.
LEMMA UseTyped ==
    ASSUME NEW kind \in Kinds, Use(kind),
           used \in [Kinds -> Nat], \A k \in Kinds : used[k] <= Bound[k]
    PROVE  used' \in [Kinds -> Nat] /\ \A k \in Kinds : used'[k] <= Bound[k]
BY BoundTyped, SMT DEF Use

\* The step of one actor that becomes idle or stays well-formed.
LEMMA ActorTyped ==
    ASSUME TypeOK, NEW a \in Actors, NEW local \in Actor,
           actor' = [actor EXCEPT ![a] = local]
    PROVE  actor' \in [Actors -> Actor]
BY DEF TypeOK

LEMMA IdleTyped == Idle \in Actor
BY DEF Idle, Actor, Steps, Outcomes, Targets

LEMMA InitTyped == Init => TypeOK
<1> SUFFICES ASSUME Init PROVE TypeOK
  OBVIOUS
<1>1. record \in Targets /\ up \in BOOLEAN /\ peak \in BOOLEAN /\ life \in {"up", "down"}
  BY DEF Init, Targets
<1>2. /\ row \in [target : Targets, failures : 0..CounterCap, successes : 0..CounterCap]
      /\ seen \in [down : 0..CounterCap, up : 0..CounterCap]
  BY CapAbove, SMT DEF Init, Targets
<1>3. actor \in [Actors -> Actor]
  BY IdleTyped DEF Init
<1>4. used \in [Kinds -> Nat] /\ \A kind \in Kinds : used[kind] <= Bound[kind]
  BY BoundTyped, SMT DEF Init
<1> QED BY <1>1, <1>2, <1>3, <1>4 DEF TypeOK

\* What a probe takes from the bounds.
ProbeUses(a, b, m) ==
    /\ used' = [used EXCEPT !.blind = @ + b, !.manual = @ + m]
    /\ b = 1 => used.blind < MaxBlind
    /\ m = 1 => used.manual < MaxManual
    /\ a # Worker => m = 1

LEMMA ProbeUsed ==
    ASSUME NEW a \in Actors, Probe(a)
    PROVE  \E b \in {0, 1}, m \in {0, 1} : ProbeUses(a, b, m)
<1>1. PICK outcome \in Outcomes :
        /\ outcome = "management_error" => used.blind < MaxBlind
        /\ used' = [used EXCEPT !.blind = @ + IF outcome = "management_error" THEN 1 ELSE 0,
                                !.manual = @ + IF a = Worker THEN 0 ELSE 1]
        /\ a # Worker => used.manual < MaxManual
  BY DEF Probe
<1> DEFINE b == IF outcome = "management_error" THEN 1 ELSE 0
           m == IF a = Worker THEN 0 ELSE 1
<1>2. used' = [used EXCEPT !.blind = @ + b, !.manual = @ + m]
  BY <1>1
<1>3. b \in {0, 1} /\ m \in {0, 1} /\ (b = 1 => outcome = "management_error") /\ (m = 1 <=> a # Worker)
  OBVIOUS
<1> HIDE DEF b, m
<1> QED BY <1>1, <1>2, <1>3 DEF ProbeUses

LEMMA ProbeTyped == ASSUME TypeOK, NEW a \in Actors, Probe(a) PROVE TypeOK'
<1>1. PICK outcome \in Outcomes :
        /\ IF outcome = "management_error" THEN used.blind < MaxBlind
           ELSE outcome = IF up THEN "healthy" ELSE "unhealthy"
        /\ actor' = [actor EXCEPT ![a].step = "count", ![a].probe = outcome]
        /\ seen' = Seen(outcome)
        /\ used' = [used EXCEPT !.blind = @ + IF outcome = "management_error" THEN 1 ELSE 0,
                                !.manual = @ + IF a = Worker THEN 0 ELSE 1]
        /\ a # Worker => used.manual < MaxManual
  BY DEF Probe
<1>2. actor' \in [Actors -> Actor]
  BY <1>1 DEF TypeOK, Actor, Steps
<1>3. seen' \in [down : 0..CounterCap, up : 0..CounterCap]
  <2>1. seen.down \in 0..CounterCap /\ seen.up \in 0..CounterCap
    BY DEF TypeOK
  <2>2. 0 \in 0..CounterCap
    BY CapAbove, SMT
  <2>3. More(seen.down) \in 0..CounterCap /\ More(seen.up) \in 0..CounterCap
    BY <2>1, MoreTyped
  <2> QED BY <1>1, <2>1, <2>2, <2>3 DEF Seen, Outcomes, TypeOK
<1>4. used' \in [Kinds -> Nat] /\ \A kind \in Kinds : used'[kind] <= Bound[kind]
  <2>1. PICK b \in {0, 1}, m \in {0, 1} : ProbeUses(a, b, m)
    BY ProbeUsed
  <2>2. Bound["blind"] = MaxBlind /\ Bound["manual"] = MaxManual /\ {"blind", "manual"} \subseteq Kinds
    BY DEF Bound, Kinds
  <2>3. used \in [Kinds -> Nat] /\ \A k \in Kinds : used[k] <= Bound[k]
    BY DEF TypeOK
  <2>4. \A k \in Kinds \ {"blind", "manual"} : used'[k] = used[k]
    BY <2>1, <2>3 DEF ProbeUses
  <2>5. used'["blind"] = used["blind"] + b /\ used'["manual"] = used["manual"] + m
    BY <2>1, <2>2, <2>3, SMT DEF ProbeUses
  <2>6. DOMAIN used' = Kinds /\ used' = [k \in Kinds |-> used'[k]]
    BY <2>1, <2>3 DEF ProbeUses
  <2>7. ASSUME NEW k \in Kinds PROVE used'[k] \in Nat /\ used'[k] <= Bound[k]
    <3>1. CASE k = "blind"
      BY <2>1, <2>2, <2>3, <2>5, <3>1, BoundTyped, SMT DEF ProbeUses
    <3>2. CASE k = "manual"
      BY <2>1, <2>2, <2>3, <2>5, <3>2, BoundTyped, SMT DEF ProbeUses
    <3>3. CASE k \notin {"blind", "manual"}
      BY <2>3, <2>4, <3>3
    <3> QED BY <3>1, <3>2, <3>3
  <2> QED BY <2>6, <2>7
<1> QED BY <1>2, <1>3, <1>4 DEF TypeOK, Probe

LEMMA CountTyped == ASSUME TypeOK, NEW a \in Actors, Count(a) PROVE TypeOK'
<1> DEFINE ok == actor[a].probe = "healthy"
           failures == IF ok THEN 0 ELSE More(row.failures)
           successes == IF ok THEN More(row.successes) ELSE 0
<1>1. failures \in 0..CounterCap /\ successes \in 0..CounterCap
  <2>1. row.failures \in 0..CounterCap /\ row.successes \in 0..CounterCap
    BY DEF TypeOK
  <2>2. More(row.failures) \in 0..CounterCap /\ More(row.successes) \in 0..CounterCap
    BY <2>1, MoreTyped
  <2>3. 0 \in 0..CounterCap
    BY CapAbove, SMT
  <2> QED BY <2>2, <2>3
<1>2. Other(row.target) \in Targets
  BY DEF Other, Targets
<1>3. [actor[a] EXCEPT !.step = "get", !.goal = Other(row.target), !.auto = TRUE] \in Actor
  BY <1>2 DEF TypeOK, Actor, Steps
<1>4. row' \in [target : Targets, failures : 0..CounterCap, successes : 0..CounterCap]
  <2>1. row' = row \/ row' = [row EXCEPT !.failures = failures, !.successes = successes]
    BY DEF Count
  <2> HIDE DEF failures, successes
  <2> QED BY <2>1, <1>1 DEF TypeOK
<1>5. actor' \in [Actors -> Actor]
  BY <1>3, IdleTyped, ActorTyped DEF Count
<1> QED BY <1>4, <1>5 DEF TypeOK, Count

LEMMA SwitchTyped ==
    ASSUME TypeOK, NEW a \in Actors, ManualSwitch(a) \/ GetRecord(a) \/ PutRecord(a) \/ Write(a)
    PROVE  TypeOK'
<1> USE IdleTyped
<1>0. {"manual", "errors", "lost"} \subseteq Kinds
  BY DEF Kinds
<1>1. CASE ManualSwitch(a)
  <2>1. Use("manual")
    BY <1>1 DEF ManualSwitch
  <2>2. PICK t \in Targets : actor' = [actor EXCEPT ![a] = [@ EXCEPT !.step = "get", !.goal = t, !.auto = FALSE]]
    BY <1>1 DEF ManualSwitch
  <2>3. actor' \in [Actors -> Actor]
    BY <2>2 DEF TypeOK, Actor, Steps
  <2> QED BY <1>0, <1>1, <2>1, <2>3, UseTyped DEF TypeOK, ManualSwitch
<1>2. CASE GetRecord(a)
  <2>1. actor' \in [Actors -> Actor]
    BY <1>2 DEF GetRecord, TypeOK, Actor, Steps
  <2>2. used' = used \/ Use("errors")
    BY <1>2 DEF GetRecord
  <2> QED BY <1>0, <1>2, <2>1, <2>2, UseTyped DEF TypeOK, GetRecord
<1>3. CASE PutRecord(a)
  <2>1. actor' \in [Actors -> Actor]
    BY <1>3 DEF PutRecord, TypeOK, Actor, Steps
  <2>2. used' = used \/ Use("errors") \/ Use("lost")
    BY <1>3 DEF PutRecord
  <2>3. record' \in Targets
    BY <1>3 DEF PutRecord, TypeOK, Actor
  <2> QED BY <1>0, <1>3, <2>1, <2>2, <2>3, UseTyped DEF TypeOK, PutRecord
<1>4. CASE Write(a)
  <2>1. actor' \in [Actors -> Actor]
    BY <1>4 DEF Write, TypeOK
  <2>2. row' \in [target : Targets, failures : 0..CounterCap, successes : 0..CounterCap]
    BY <1>4 DEF Write, TypeOK, Actor
  <2> QED BY <1>4, <2>1, <2>2 DEF TypeOK, Write
<1> QED BY <1>1, <1>2, <1>3, <1>4

LEMMA OutsideTyped ==
    ASSUME TypeOK, Crash \/ Restart \/ PrimaryFlips \/ PeakBoundary
    PROVE  TypeOK'
<1>0. {"crashes", "errors", "flips", "peaks"} \subseteq Kinds
  BY DEF Kinds
<1>1. CASE Crash
  <2>1. actor' \in [Actors -> Actor]
    BY <1>1, IdleTyped DEF Crash
  <2> QED BY <1>0, <1>1, <2>1, UseTyped DEF TypeOK, Crash
<1>2. CASE Restart
  <2>1. row' \in [target : Targets, failures : 0..CounterCap, successes : 0..CounterCap]
    BY <1>2 DEF TypeOK, Restart
  <2>2. used' = used \/ Use("errors")
    BY <1>2 DEF Restart
  <2> QED BY <1>0, <1>2, <2>1, <2>2, UseTyped DEF TypeOK, Restart
<1>3. CASE PrimaryFlips
  BY <1>0, <1>3, UseTyped DEF TypeOK, PrimaryFlips
<1>4. CASE PeakBoundary
  BY <1>0, <1>4, UseTyped DEF TypeOK, PeakBoundary
<1> QED BY <1>1, <1>2, <1>3, <1>4

LEMMA NextTyped == TypeOK /\ [Next]_vars => TypeOK'
<1> SUFFICES ASSUME TypeOK, [Next]_vars PROVE TypeOK'
  OBVIOUS
<1>1. CASE \E a \in Actors : Probe(a) \/ ManualSwitch(a) \/ Continue(a)
  BY <1>1, ProbeTyped, CountTyped, SwitchTyped DEF Continue
<1>2. CASE Crash \/ Restart \/ PrimaryFlips \/ PeakBoundary
  BY <1>2, OutsideTyped
<1>3. CASE UNCHANGED vars
  BY <1>3 DEF vars, TypeOK
<1> QED BY <1>1, <1>2, <1>3 DEF Next

\* Types.  However checks, switches, refusals and deaths interleave, the row in
\* the database, the record and the locals of every check are well-formed.
THEOREM TypeCorrect == Spec => []TypeOK
<1> QED BY InitTyped, NextTyped, PTL DEF Spec

-----------------------------------------------------------------------------
(* Switches follow the node                                                 *)

\* Nobody but the worker has done anything, in one life, outside the peak window.
Undisturbed == \A kind \in {"manual", "peaks", "crashes"} : used[kind] = 0

\* What the row will hold once the worker has counted its last probe.
Counted ==
    CASE actor[Worker].step # "count" -> [down |-> row.failures, up |-> row.successes]
      [] actor[Worker].step = "count" /\ actor[Worker].probe = "healthy" ->
            [down |-> 0, up |-> More(row.successes)]
      [] actor[Worker].step = "count" /\ actor[Worker].probe = "unhealthy" ->
            [down |-> More(row.failures), up |-> 0]
      [] OTHER -> [down |-> row.failures, up |-> row.successes]

\* The administrators have begun nothing.
WorkerAlone == \A a \in Admins : actor[a].step = "idle"

\* The counters tell what the probes found, less the one still to be counted.
CountersTrue == seen = Counted

\* A switch in progress has its evidence, which no probe can change meanwhile.
GoalGrounded ==
    actor[Worker].step \in {"get", "put", "write"} =>
        IF actor[Worker].goal = "backup" THEN seen.down >= FailureThreshold
                                         ELSE seen.up >= RecoveryThreshold

SwitchInv ==
    Undisturbed => ~peak /\ life = "up" /\ WorkerAlone /\ CountersTrue /\ GoalGrounded

LEMMA SwitchInit == Init => SwitchInv
BY WorkerAssumption DEF Init, SwitchInv, WorkerAlone, CountersTrue, Counted, GoalGrounded, Idle, Actors

\* A disturbance is never undone.
LEMMA StaysDisturbed ==
    ASSUME TypeOK, TypeOK', [Next]_vars, Undisturbed'
    PROVE  Undisturbed
<1>0. {"manual", "peaks", "crashes"} \subseteq Kinds
  BY DEF Kinds
<1>1. \A kind \in Kinds : used[kind] \in Nat /\ used'[kind] \in Nat
  BY DEF TypeOK
<1>2. \A kind \in Kinds : used[kind] <= used'[kind]
  <2>1. ASSUME NEW k \in Kinds, Use(k) PROVE \A kind \in Kinds : used[kind] <= used'[kind]
    BY <2>1, <1>1, SMT DEF Use, TypeOK
  <2>2. ASSUME NEW a \in Actors, Probe(a) PROVE \A kind \in Kinds : used[kind] <= used'[kind]
    <3>1. PICK b \in {0, 1}, m \in {0, 1} : ProbeUses(a, b, m)
      BY <2>2, ProbeUsed
    <3>2. used \in [Kinds -> Nat]
      BY DEF TypeOK
    <3>3. {"blind", "manual"} \subseteq Kinds
      BY DEF Kinds
    <3>4. \A k \in Kinds \ {"blind", "manual"} : used'[k] = used[k]
      BY <3>1, <3>2 DEF ProbeUses
    <3>5. used'["blind"] = used["blind"] + b /\ used'["manual"] = used["manual"] + m
      BY <3>1, <3>2, <3>3, SMT DEF ProbeUses
    <3>6. used["blind"] <= used'["blind"] /\ used["manual"] <= used'["manual"]
      BY <1>1, <3>3, <3>5, SMT
    <3>7. ASSUME NEW k \in Kinds \ {"blind", "manual"} PROVE used[k] <= used'[k]
      BY <1>1, <3>4, SMT
    <3> QED BY <3>6, <3>7
  <2>3. CASE used' = used
    BY <2>3, <1>1, SMT
  <2>4. {"manual", "errors", "lost", "crashes", "flips", "peaks"} \subseteq Kinds
    BY DEF Kinds
  <2>5. \/ used' = used \/ (\E k \in Kinds : Use(k)) \/ (\E a \in Actors : Probe(a))
    <3>1. CASE \E a \in Actors : Probe(a)
      BY <3>1
    <3>2. CASE \E a \in Actors : ManualSwitch(a) \/ Continue(a)
      BY <3>2, <2>4 DEF ManualSwitch, Continue, Count, GetRecord, PutRecord, Write
    <3>3. CASE Crash \/ Restart \/ PrimaryFlips \/ PeakBoundary
      BY <3>3, <2>4 DEF Crash, Restart, PrimaryFlips, PeakBoundary
    <3>4. CASE UNCHANGED vars
      BY <3>4 DEF vars
    <3> QED BY <3>1, <3>2, <3>3, <3>4 DEF Next
  <2> QED BY <2>1, <2>2, <2>3, <2>5
<1> QED BY <1>0, <1>1, <1>2, SMT DEF Undisturbed

\* While undisturbed, only the worker acts.
LEMMA OnlyWorkerActs ==
    ASSUME TypeOK, TypeOK', SwitchInv, Undisturbed, Undisturbed',
           NEW a \in Actors, Probe(a) \/ ManualSwitch(a) \/ Continue(a)
    PROVE  a = Worker /\ (Probe(Worker) \/ Continue(Worker))
<1>0. "manual" \in Kinds
  BY DEF Kinds
<1>1. used \in [Kinds -> Nat] /\ used["manual"] = 0 /\ used'["manual"] = 0
  BY DEF TypeOK, Undisturbed
<1>2. ~ManualSwitch(a)
  <2>1. ~Use("manual")
    <3>1. SUFFICES ASSUME used' = [used EXCEPT !["manual"] = @ + 1] PROVE FALSE
      BY DEF Use
    <3>2. used'["manual"] = used["manual"] + 1
      BY <1>0, <1>1, <3>1
    <3> QED BY <1>1, <3>2, SMT
  <2> QED BY <2>1 DEF ManualSwitch
<1>3. ASSUME a # Worker PROVE ~Probe(a)
  <2>1. SUFFICES ASSUME Probe(a) PROVE FALSE
    OBVIOUS
  <2>2. PICK b \in {0, 1}, m \in {0, 1} : ProbeUses(a, b, m)
    BY <2>1, ProbeUsed
  <2> QED BY <2>2, <1>0, <1>1, <1>3, SMT DEF ProbeUses
<1>4. ASSUME a # Worker PROVE ~Continue(a)
  <2>1. actor[a].step = "idle"
    BY <1>4 DEF Actors, SwitchInv, WorkerAlone
  <2> QED BY <2>1 DEF Continue, Count, GetRecord, PutRecord, Write
<1> QED BY <1>2, <1>3, <1>4

LEMMA SwitchStep == TypeOK /\ TypeOK' /\ SwitchInv /\ [Next]_vars => SwitchInv'
<1> SUFFICES ASSUME TypeOK, TypeOK', SwitchInv, [Next]_vars, Undisturbed'
             PROVE  ~peak' /\ life' = "up" /\ WorkerAlone' /\ CountersTrue' /\ GoalGrounded'
  BY DEF SwitchInv
<1>1. Undisturbed
  BY StaysDisturbed
<1>2. ~peak /\ life = "up" /\ WorkerAlone /\ CountersTrue /\ GoalGrounded
  BY <1>1 DEF SwitchInv
<1>3. Worker \in Actors /\ Worker \notin Admins /\ Admins \subseteq Actors
  BY WorkerAssumption DEF Actors
<1>4. actor \in [Actors -> Actor]
  BY DEF TypeOK
<1>5. CASE Probe(Worker)
  <2>1. PICK outcome \in Outcomes :
          /\ actor' = [actor EXCEPT ![Worker].step = "count", ![Worker].probe = outcome]
          /\ seen' = Seen(outcome)
    BY <1>5 DEF Probe
  <2>2. actor[Worker].step = "idle" /\ UNCHANGED <<row, peak, life>>
    BY <1>5 DEF Probe
  <2>3. seen = [down |-> row.failures, up |-> row.successes]
    BY <1>2, <2>2 DEF CountersTrue, Counted
  <2>4. actor'[Worker].step = "count" /\ actor'[Worker].probe = outcome
    BY <2>1, <1>3, <1>4 DEF Actor
  <2>5. CountersTrue'
    <3>1. CASE outcome = "healthy"
      BY <2>1, <2>2, <2>3, <2>4, <3>1 DEF CountersTrue, Counted, Seen, More
    <3>2. CASE outcome = "unhealthy"
      BY <2>1, <2>2, <2>3, <2>4, <3>2 DEF CountersTrue, Counted, Seen, More
    <3>3. CASE outcome = "management_error"
      BY <2>1, <2>2, <2>3, <2>4, <3>3 DEF CountersTrue, Counted, Seen, More
    <3> QED BY <3>1, <3>2, <3>3 DEF Outcomes
  <2>6. WorkerAlone'
    BY <2>1, <1>2, <1>3, <1>4 DEF WorkerAlone
  <2> QED BY <1>2, <2>2, <2>4, <2>5, <2>6 DEF GoalGrounded
<1>6. CASE Count(Worker)
  <2> DEFINE ok == actor[Worker].probe = "healthy"
             failures == IF ok THEN 0 ELSE More(row.failures)
             successes == IF ok THEN More(row.successes) ELSE 0
             go == Transition(row.target, failures, successes, ok, Preferred)
  <2>1. actor[Worker].step = "count" /\ UNCHANGED <<peak, life, seen>>
    BY <1>6 DEF Count
  <2>2. actor[Worker].probe \in Outcomes
    BY <1>3, <1>4 DEF Actor
  <2>3. WorkerAlone'
    BY <1>6, <1>2, <1>3, <1>4 DEF WorkerAlone, Count
  <2>4. CASE actor[Worker].probe = "management_error"
    <3>1. actor'[Worker].step = "idle" /\ row' = row
      BY <1>6, <2>4, <1>3, <1>4 DEF Count, Idle
    <3>2. seen = [down |-> row.failures, up |-> row.successes]
      BY <1>2, <2>1, <2>4 DEF CountersTrue, Counted
    <3>3. CountersTrue' /\ GoalGrounded'
      BY <2>1, <3>1, <3>2 DEF CountersTrue, Counted, GoalGrounded
    <3> QED BY <1>2, <2>1, <2>3, <3>3
  <2>5. CASE actor[Worker].probe # "management_error"
    <3>1. seen = [down |-> failures, up |-> successes]
      BY <1>2, <2>1, <2>2, <2>5 DEF CountersTrue, Counted, Outcomes
    <3>2. /\ row' = [row EXCEPT !.failures = failures, !.successes = successes]
          /\ IF go THEN actor' = [actor EXCEPT ![Worker] =
                            [@ EXCEPT !.step = "get", !.goal = Other(row.target), !.auto = TRUE]]
                   ELSE actor' = [actor EXCEPT ![Worker] = Idle]
      BY <1>6, <2>5 DEF Count
    <3>3. row'.failures = failures /\ row'.successes = successes
      <4> HIDE DEF failures, successes
      <4> QED BY <3>2 DEF TypeOK
    <3>4. actor'[Worker].step # "count"
      <4>1. CASE go
        <5> HIDE DEF go
        <5> QED BY <3>2, <4>1, <1>3, <1>4 DEF Actor
      <4>2. CASE ~go
        <5> HIDE DEF go
        <5> QED BY <3>2, <4>2, <1>3, <1>4 DEF Idle
      <4> QED BY <4>1, <4>2
    <3>5. CountersTrue'
      BY <2>1, <3>1, <3>3, <3>4 DEF CountersTrue, Counted
    <3>6. GoalGrounded'
      <4>1. CASE ~go
        <5> HIDE DEF go
        <5> QED BY <3>2, <4>1, <1>3, <1>4 DEF Idle, GoalGrounded
      <4>2. CASE go
        <5>1. actor'[Worker].goal = Other(row.target)
          <6> HIDE DEF go
          <6> QED BY <3>2, <4>2, <1>3, <1>4 DEF Actor
        <5>2. Preferred = "primary" /\ row.target \in Targets
          BY <1>2 DEF Preferred, TypeOK
        <5>3. IF ok THEN row.target = "backup" /\ successes >= RecoveryThreshold
                    ELSE row.target = "primary" /\ failures >= FailureThreshold
          BY <4>2, <5>2 DEF Transition, Targets
        <5>4. seen'.down = failures /\ seen'.up = successes
          BY <2>1, <3>1
        <5> HIDE DEF ok, failures, successes, go
        <5> QED BY <5>1, <5>3, <5>4 DEF Other, GoalGrounded
      <4> QED BY <4>1, <4>2
    <3> QED BY <1>2, <2>1, <2>3, <3>5, <3>6
  <2> QED BY <2>4, <2>5
<1>7. CASE GetRecord(Worker) \/ PutRecord(Worker) \/ Write(Worker)
  <2>1. actor[Worker].step \in {"get", "put", "write"} /\ UNCHANGED <<peak, life, seen>>
    BY <1>7 DEF GetRecord, PutRecord, Write
  <2>2. row'.failures = row.failures /\ row'.successes = row.successes
    BY <1>7 DEF GetRecord, PutRecord, Write, TypeOK
  <2>3. WorkerAlone'
    BY <1>7, <1>2, <1>3, <1>4 DEF WorkerAlone, GetRecord, PutRecord, Write
  <2>4. \/ actor'[Worker].step = "idle"
        \/ actor'[Worker].step \in {"put", "write"} /\ actor'[Worker].goal = actor[Worker].goal
    BY <1>7, <1>3, <1>4 DEF GetRecord, PutRecord, Write, Idle, Actor
  <2>5. actor'[Worker].step # "count"
    BY <2>4
  <2>6. CountersTrue'
    BY <1>2, <2>1, <2>2, <2>5 DEF CountersTrue, Counted
  <2>7. GoalGrounded'
    BY <1>2, <2>1, <2>4 DEF GoalGrounded
  <2> QED BY <1>2, <2>1, <2>3, <2>6, <2>7
<1>8. CASE Crash \/ PeakBoundary
  <2>1. {"crashes", "peaks"} \subseteq Kinds
    BY DEF Kinds
  <2>2. used \in [Kinds -> Nat] /\ \A kind \in {"crashes", "peaks"} : used[kind] = 0 /\ used'[kind] = 0
    BY <1>1 DEF Undisturbed, TypeOK
  <2> QED BY <1>8, <2>1, <2>2, SMT DEF Crash, PeakBoundary, Use
<1>9. CASE Restart
  BY <1>9, <1>2 DEF Restart
<1>10. CASE PrimaryFlips
  BY <1>10, <1>2 DEF PrimaryFlips, WorkerAlone, CountersTrue, Counted, GoalGrounded
<1>11. CASE UNCHANGED vars
  BY <1>11, <1>2 DEF vars, WorkerAlone, CountersTrue, Counted, GoalGrounded
<1>12. CASE \E a \in Actors : Probe(a) \/ ManualSwitch(a) \/ Continue(a)
  BY <1>12, <1>1, <1>5, <1>6, <1>7, OnlyWorkerActs DEF Continue
<1> QED BY <1>8, <1>9, <1>10, <1>11, <1>12 DEF Next

\* Only an update of the record changes it, and then to the goal of who updates.
LEMMA RecordStep ==
    ASSUME TypeOK, TypeOK', SwitchInv, [Next]_vars, record' # record, Undisturbed
    PROVE  IF record' = "backup" THEN seen.down >= FailureThreshold
                                 ELSE seen.up >= RecoveryThreshold
<1>1. PICK a \in Actors : PutRecord(a)
  BY DEF Next, vars, Probe, ManualSwitch, Continue, Count, GetRecord, Write, Crash, Restart, PrimaryFlips, PeakBoundary
<1>2. record' = actor[a].goal /\ actor[a].step = "put"
  BY <1>1 DEF PutRecord
<1>3. a = Worker
  BY <1>2 DEF SwitchInv, WorkerAlone, Actors
<1> QED BY <1>2, <1>3 DEF SwitchInv, GoalGrounded

\* While only the worker acts, outside the peak window, the record leaves the
\* primary only after as many probes in a row as the failure threshold found it
\* down, and comes back only after as many as the recovery threshold found it
\* up; lost answers, refusals and probes that could not be made do not matter.
THEOREM SwitchesFollow == Spec => SwitchesFollowTheNode
<1>1. Init => SwitchInv
  BY SwitchInit
<1>2. TypeOK /\ TypeOK' /\ SwitchInv /\ [Next]_vars => SwitchInv'
  BY SwitchStep
<1>3. TypeOK /\ TypeOK' /\ SwitchInv /\ [Next]_vars =>
        [record' # record /\ (\A kind \in {"manual", "peaks", "crashes"} : used[kind] = 0) =>
            IF record' = "backup" THEN seen.down >= FailureThreshold
                                  ELSE seen.up >= RecoveryThreshold]_vars
  BY RecordStep DEF Undisturbed
<1>4. Spec => []TypeOK
  BY TypeCorrect
<1> QED BY <1>1, <1>2, <1>3, <1>4, PTL DEF Spec, SwitchesFollowTheNode
=============================================================================
