-------------------------- MODULE ConsoleReadsProofs --------------------------
(***************************************************************************)
(* Proofs about the console's panes, for all periods and incidents and for *)
(* every number of overlapping requests: they stay well-typed, never leave *)
(* an administrator without an explanation, and implement FreshPane.       *)
(***************************************************************************)
EXTENDS ConsoleReads, TLAPS

-----------------------------------------------------------------------------
(* The inductive invariant.  The three theorems rest on what the counter of *)
(* a pane achieves: there is one newest request at most, it asks what the   *)
(* pane stands at, and what it brings is not older than what is shown.      *)

OneNewest(p) == \A r, s \in pending[p] : r.newest /\ s.newest => r = s

NewestFits(p) ==
    \A r \in pending[p] : r.newest =>
        /\ r.to = question[p] /\ loading[p]
        /\ r.read # Unread /\ shown[p] # Nothing => shown[p].version <= r.read

\* No answer holds more than the server had.
Past(p) ==
    /\ shown[p] # Nothing => shown[p].to = question[p] /\ shown[p].version <= version
    /\ \A r \in pending[p] : r.read # Unread => r.read <= version

Explained(p) ==
    /\ shown[p] = Nothing /\ (p \in Polled \/ question[p] # Closed) => loading[p] \/ error[p]
    /\ ~(loading[p] /\ error[p])
    /\ p = "report" /\ (loading[p] \/ error[p]) => shown[p] = Nothing

PaneInv(p) == OneNewest(p) /\ NewestFits(p) /\ Past(p) /\ Explained(p)

ReadsInv == ReadsTypeOK /\ \A p \in Panes : PaneInv(p)

-----------------------------------------------------------------------------
(* Types.                                                                   *)

\* The records of a pane, field by field.
LEMMA Fields ==
    ASSUME NEW p
    PROVE  /\ \A r \in Requests(p) : /\ r = [to |-> r.to, newest |-> r.newest, read |-> r.read]
                                     /\ r.to \in Questions(p) /\ r.newest \in BOOLEAN
                                     /\ r.read \in Versions \cup {Unread}
           /\ \A a \in Answers(p) : /\ a = [to |-> a.to, version |-> a.version]
                                    /\ a.to \in Questions(p) /\ a.version \in Versions
           /\ Versions \subseteq Nat
BY BoundsAssumption DEF Requests, Answers, Versions

\* An answer is never mistaken for its absence.
LEMMA AnswersAreSomething ==
    ASSUME NEW p \in Panes PROVE Nothing \notin Answers(p)
<1>1. Questions(p) \subseteq Periods \cup Records \cup {Everything, Closed}
    BY DEF Questions, Panes
<1>2. Answers(p) \subseteq [to : Periods \cup Records \cup {Everything, Closed}, version : Nat]
    BY <1>1, Fields DEF Answers
<1> QED BY <1>2, AnswersAssumption

\* A step that writes one pane keeps the invariant of every other one.
LEMMA OnePane ==
    ASSUME ReadsInv, NEW p \in Panes,
           NEW q \in Questions(p), question' = [question EXCEPT ![p] = q],
           NEW a \in Answers(p) \cup {Nothing}, shown' = [shown EXCEPT ![p] = a],
           NEW e \in BOOLEAN, error' = [error EXCEPT ![p] = e],
           NEW l \in BOOLEAN, loading' = [loading EXCEPT ![p] = l],
           NEW rs \in SUBSET Requests(p), pending' = [pending EXCEPT ![p] = rs],
           version' = version, lost' \in 0..MaxLost,
           PaneInv(p)'
    PROVE  ReadsInv'
<1> USE DEF ReadsInv
<1>1. ReadsTypeOK'
    <2> USE DEF ReadsTypeOK
    <2>1. question' \in [Panes -> UNION {Questions(x) : x \in Panes}]
        OBVIOUS
    <2>2. shown' \in [Panes -> (UNION {Answers(x) : x \in Panes}) \cup {Nothing}]
        OBVIOUS
    <2>3. error' \in [Panes -> BOOLEAN] /\ loading' \in [Panes -> BOOLEAN]
        OBVIOUS
    <2>4. pending' \in [Panes -> SUBSET UNION {Requests(x) : x \in Panes}]
        OBVIOUS
    <2>5. ASSUME NEW x \in Panes
          PROVE  /\ question'[x] \in Questions(x)
                 /\ shown'[x] \in Answers(x) \cup {Nothing}
                 /\ pending'[x] \subseteq Requests(x)
        BY <2>5
    <2> QED BY <2>1, <2>2, <2>3, <2>4, <2>5
<1>2. ASSUME NEW x \in Panes, x # p PROVE PaneInv(x)'
    <2>1. /\ question'[x] = question[x] /\ shown'[x] = shown[x]
          /\ error'[x] = error[x] /\ loading'[x] = loading[x] /\ pending'[x] = pending[x]
        BY <1>2 DEF ReadsTypeOK
    <2>2. PaneInv(x)
        OBVIOUS
    <2> QED BY <2>1, <2>2 DEF PaneInv, OneNewest, NewestFits, Past, Explained
<1> QED BY <1>1, <1>2

-----------------------------------------------------------------------------
(* The steps.                                                               *)

\* What is known of a pane before a step that writes it.
LEMMA PaneTyped ==
    ASSUME ReadsInv, NEW p \in Panes
    PROVE  /\ question[p] \in Questions(p) /\ shown[p] \in Answers(p) \cup {Nothing}
           /\ error[p] \in BOOLEAN /\ loading[p] \in BOOLEAN
           /\ pending[p] \subseteq Requests(p)
           /\ version \in Versions /\ lost \in 0..MaxLost
           /\ PaneInv(p)
BY DEF ReadsInv, ReadsTypeOK

\* Asking supersedes every request of the pane but the new one.
LEMMA AskKeeps ==
    ASSUME ReadsInv, NEW p \in Panes, NEW q \in Questions(p), NEW kept,
           kept = Nothing \/ (p # "report" /\ kept = shown[p] /\ q = question[p]),
           Ask(p, q, kept)
    PROVE  ReadsInv'
<1> DEFINE rs == Superseded(pending[p]) \cup {Request(q)}
<1>1. /\ question' = [question EXCEPT ![p] = q] /\ shown' = [shown EXCEPT ![p] = kept]
      /\ error' = [error EXCEPT ![p] = FALSE] /\ loading' = [loading EXCEPT ![p] = TRUE]
      /\ pending' = [pending EXCEPT ![p] = rs]
      /\ version' = version /\ lost' = lost
    BY DEF Ask
<1>2. kept \in Answers(p) \cup {Nothing} /\ lost' \in 0..MaxLost
    BY <1>1, PaneTyped
<1>3. ASSUME NEW s \in Superseded(pending[p])
      PROVE  /\ s \in Requests(p) /\ ~s.newest
             /\ \E r \in pending[p] : s.read = r.read
    <2>1. PICK r \in pending[p] : s = [r EXCEPT !.newest = FALSE]
        BY <1>3 DEF Superseded
    <2>2. r \in Requests(p)
        BY PaneTyped
    <2> QED BY <2>1, <2>2 DEF Requests
<1>4. /\ Request(q) \in Requests(p) /\ Request(q).to = q
      /\ Request(q).newest /\ Request(q).read = Unread
    BY DEF Request, Requests
<1>5. rs \in SUBSET Requests(p)
    BY <1>3, <1>4
<1>6. /\ question'[p] = q /\ shown'[p] = kept /\ ~error'[p] /\ loading'[p] /\ pending'[p] = rs
    BY <1>1 DEF ReadsInv, ReadsTypeOK
<1>7. PaneInv(p)'
    <2>1. OneNewest(p)'
        BY <1>3, <1>4, <1>6 DEF OneNewest
    <2>2. NewestFits(p)'
        BY <1>3, <1>4, <1>6 DEF NewestFits
    <2>3. Past(p)'
        BY <1>1, <1>3, <1>4, <1>6, PaneTyped DEF PaneInv, Past
    <2>4. Explained(p)'
        BY <1>6 DEF Explained
    <2> QED BY <2>1, <2>2, <2>3, <2>4 DEF PaneInv
<1> HIDE DEF rs
<1> QED BY <1>1, <1>2, <1>5, <1>7, OnePane

\* Closing the report supersedes what is under way and leaves no trace.
LEMMA CloseKeeps ==
    ASSUME ReadsInv, CloseReport PROVE ReadsInv'
<1> DEFINE p == "report"
           rs == Superseded(pending[p])
<1>1. p \in Panes /\ Closed \in Questions(p)
    BY DEF Panes, Questions
<1>2. /\ question' = [question EXCEPT ![p] = Closed] /\ shown' = [shown EXCEPT ![p] = Nothing]
      /\ error' = [error EXCEPT ![p] = FALSE] /\ loading' = [loading EXCEPT ![p] = FALSE]
      /\ pending' = [pending EXCEPT ![p] = rs]
      /\ version' = version /\ lost' = lost
    BY DEF CloseReport
<1>3. ASSUME NEW s \in rs
      PROVE  /\ s \in Requests(p) /\ ~s.newest
             /\ \E r \in pending[p] : s.read = r.read
    <2>1. PICK r \in pending[p] : s = [r EXCEPT !.newest = FALSE]
        BY <1>3 DEF Superseded
    <2>2. r \in Requests(p)
        BY <1>1, PaneTyped
    <2> QED BY <2>1, <2>2 DEF Requests
<1>4. /\ question'[p] = Closed /\ shown'[p] = Nothing /\ ~error'[p] /\ ~loading'[p] /\ pending'[p] = rs
    BY <1>1, <1>2 DEF ReadsInv, ReadsTypeOK
<1>5. OneNewest(p)' /\ NewestFits(p)'
    BY <1>3, <1>4 DEF OneNewest, NewestFits
<1>6. Past(p)'
    BY <1>1, <1>2, <1>3, <1>4, PaneTyped DEF PaneInv, Past
<1>7. Explained(p)'
    BY <1>4 DEF Explained, Polled
<1>8. rs \in SUBSET Requests(p) /\ lost' \in 0..MaxLost
    BY <1>1, <1>2, <1>3, PaneTyped
<1> HIDE DEF p, rs
<1> QED BY <1>1, <1>2, <1>5, <1>6, <1>7, <1>8, OnePane DEF PaneInv

\* The server reads: what the newest request will bring is of now.
LEMMA ServeKeeps ==
    ASSUME ReadsInv, NEW p \in Panes, NEW r \in pending[p], Serve(p, r)
    PROVE  ReadsInv'
<1> DEFINE t == [r EXCEPT !.read = version]
           rs == (pending[p] \ {r}) \cup {t}
<1>1. /\ question' = question /\ shown' = shown /\ error' = error /\ loading' = loading
      /\ version' = version /\ lost' = lost /\ pending' = [pending EXCEPT ![p] = rs]
    BY DEF Serve
<1>2. r \in Requests(p) /\ version \in Versions
    BY PaneTyped
<1>3. t \in Requests(p) /\ t.to = r.to /\ t.newest = r.newest /\ t.read = version
    BY <1>2 DEF Requests
<1>4. pending'[p] = rs /\ rs \in SUBSET Requests(p)
    BY <1>1, <1>3, PaneTyped DEF ReadsInv, ReadsTypeOK
<1> HIDE DEF t
<1>5. OneNewest(p)'
    BY <1>3, <1>4, PaneTyped DEF PaneInv, OneNewest
<1>6. NewestFits(p)'
    BY <1>1, <1>3, <1>4, PaneTyped DEF PaneInv, NewestFits, Past
<1>7. Past(p)'
    BY <1>1, <1>2, <1>3, <1>4, PaneTyped, Fields DEF PaneInv, Past
<1>8. Explained(p)'
    BY <1>1, PaneTyped DEF PaneInv, Explained
<1> HIDE DEF rs
<1>9. /\ question' = [question EXCEPT ![p] = question[p]] /\ shown' = [shown EXCEPT ![p] = shown[p]]
      /\ error' = [error EXCEPT ![p] = error[p]] /\ loading' = [loading EXCEPT ![p] = loading[p]]
    BY <1>1 DEF ReadsInv, ReadsTypeOK
<1> QED BY <1>1, <1>4, <1>5, <1>6, <1>7, <1>8, <1>9, PaneTyped, OnePane DEF PaneInv

\* A request that ends without a trace.
LEMMA DropKeeps ==
    ASSUME ReadsInv, NEW p \in Panes, NEW r \in pending[p], Done(p, r),
           UNCHANGED <<question, shown, error, loading, version>>, lost' \in 0..MaxLost
    PROVE  ReadsInv'
<1> DEFINE rs == pending[p] \ {r}
<1>1. pending' = [pending EXCEPT ![p] = rs]
    BY DEF Done
<1>2. pending'[p] = rs /\ rs \in SUBSET Requests(p)
    BY <1>1, PaneTyped DEF ReadsInv, ReadsTypeOK
<1>3. PaneInv(p)'
    BY <1>2, PaneTyped DEF PaneInv, OneNewest, NewestFits, Past, Explained
<1> HIDE DEF rs
<1>4. /\ question' = [question EXCEPT ![p] = question[p]] /\ shown' = [shown EXCEPT ![p] = shown[p]]
      /\ error' = [error EXCEPT ![p] = error[p]] /\ loading' = [loading EXCEPT ![p] = loading[p]]
    BY DEF ReadsInv, ReadsTypeOK
<1> QED BY <1>1, <1>2, <1>3, <1>4, PaneTyped, OnePane

\* The newest request ends: no other one of the pane is the newest, so that
\* what the pane shows from here on is not owed to any of them.
LEMMA EndKeeps ==
    ASSUME ReadsInv, NEW p \in Panes, NEW r \in pending[p], r.newest, Done(p, r),
           NEW a \in Answers(p) \cup {Nothing}, shown' = [shown EXCEPT ![p] = a],
           a # Nothing => a.to = question[p] /\ a.version <= version,
           NEW e \in BOOLEAN, error' = [error EXCEPT ![p] = e],
           loading' = [loading EXCEPT ![p] = FALSE],
           a = Nothing => e \/ (p = "report" /\ question[p] = Closed),
           p = "report" /\ e => a = Nothing,
           UNCHANGED <<question, version, lost>>
    PROVE  ReadsInv'
<1> DEFINE rs == pending[p] \ {r}
<1>1. pending' = [pending EXCEPT ![p] = rs]
    BY DEF Done
<1>2. /\ pending'[p] = rs /\ shown'[p] = a /\ error'[p] = e /\ loading'[p] = FALSE
      /\ rs \in SUBSET Requests(p)
    BY <1>1, PaneTyped DEF ReadsInv, ReadsTypeOK
<1>3. \A s \in rs : ~s.newest
    BY PaneTyped DEF PaneInv, OneNewest
<1>4. OneNewest(p)' /\ NewestFits(p)'
    BY <1>2, <1>3 DEF OneNewest, NewestFits
<1>5. Past(p)'
    BY <1>2, PaneTyped DEF PaneInv, Past
<1>6. Explained(p)'
    BY <1>2 DEF Explained, Polled
<1> HIDE DEF rs
<1>7. question' = [question EXCEPT ![p] = question[p]]
    BY DEF ReadsInv, ReadsTypeOK
<1> QED BY <1>1, <1>2, <1>4, <1>5, <1>6, <1>7, PaneTyped, OnePane DEF PaneInv

LEMMA ReceiveKeeps ==
    ASSUME ReadsInv, NEW p \in Panes, NEW r \in pending[p], Receive(p, r)
    PROVE  ReadsInv'
<1>1. CASE ~r.newest
    BY <1>1, DropKeeps, PaneTyped DEF Receive
<1>2. CASE r.newest
    <2> DEFINE a == [to |-> r.to, version |-> r.read]
    <2>1. /\ Done(p, r) /\ shown' = [shown EXCEPT ![p] = a]
          /\ error' = [error EXCEPT ![p] = FALSE] /\ loading' = [loading EXCEPT ![p] = FALSE]
          /\ UNCHANGED <<question, version, lost>>
        BY <1>2 DEF Receive
    <2>2. r \in Requests(p) /\ r.read # Unread
        BY PaneTyped DEF Receive
    <2>3. a \in Answers(p)
        BY <2>2, Fields DEF Answers
    <2>4. a # Nothing /\ a.to = question[p] /\ a.version <= version
        BY <1>2, <2>2, <2>3, PaneTyped, AnswersAreSomething DEF PaneInv, NewestFits, Past
    <2> HIDE DEF a
    <2> QED BY <1>2, <2>1, <2>3, <2>4, EndKeeps
<1> QED BY <1>1, <1>2

LEMMA FailKeeps ==
    ASSUME ReadsInv, NEW p \in Panes, NEW r \in pending[p], Fail(p, r)
    PROVE  ReadsInv'
<1>1. CASE ~r.newest
    BY <1>1, DropKeeps, PaneTyped DEF Fail
<1>2. CASE r.newest
    <2> DEFINE a == IF p = "incidents" THEN shown[p] ELSE Nothing
    <2>1. /\ Done(p, r) /\ shown' = [shown EXCEPT ![p] = a]
          /\ error' = [error EXCEPT ![p] = TRUE] /\ loading' = [loading EXCEPT ![p] = FALSE]
          /\ UNCHANGED <<question, version, lost>>
        BY <1>2 DEF Fail
    <2>2. /\ a \in Answers(p) \cup {Nothing}
          /\ p = "report" => a = Nothing
          /\ a # Nothing => a.to = question[p] /\ a.version <= version
        BY PaneTyped DEF PaneInv, Past
    <2> HIDE DEF a
    <2> QED BY <1>2, <2>1, <2>2, EndKeeps
<1> QED BY <1>1, <1>2

LEMMA ReadsInvInit == ReadsInit => ReadsInv
<1> SUFFICES ASSUME ReadsInit PROVE ReadsInv
    OBVIOUS
<1>1. \A p \in Panes :
        /\ question[p] \in Questions(p) /\ shown[p] = Nothing /\ ~error[p]
        /\ loading[p] = (p \in Polled) /\ pending[p] \subseteq {Request(question[p])}
        /\ p = "report" => question[p] = Closed
    BY QuestionsAssumption DEF ReadsInit, Questions, Panes
<1>2. \A p \in Panes : /\ Request(question[p]) \in Requests(p) /\ Request(question[p]).to = question[p]
                        /\ Request(question[p]).read = Unread
    BY <1>1 DEF Request, Requests
<1>3. ReadsTypeOK
    <2>1. \A p \in Panes : /\ question[p] \in UNION {Questions(x) : x \in Panes}
                            /\ pending[p] \in SUBSET UNION {Requests(x) : x \in Panes}
        BY <1>1, <1>2
    <2>2. question \in [Panes -> UNION {Questions(p) : p \in Panes}]
        BY <2>1 DEF ReadsInit
    <2>3. pending \in [Panes -> SUBSET UNION {Requests(p) : p \in Panes}]
        BY <2>1 DEF ReadsInit
    <2>4. /\ shown \in [Panes -> (UNION {Answers(p) : p \in Panes}) \cup {Nothing}]
          /\ error \in [Panes -> BOOLEAN] /\ loading \in [Panes -> BOOLEAN]
        BY DEF ReadsInit
    <2>5. version \in Versions /\ lost \in 0..MaxLost
        BY BoundsAssumption DEF ReadsInit, Versions
    <2> QED BY <1>1, <1>2, <2>2, <2>3, <2>4, <2>5 DEF ReadsTypeOK
<1>4. ASSUME NEW p \in Panes PROVE PaneInv(p)
    <2>1. pending[p] # {} => loading[p]
        BY DEF ReadsInit
    <2> QED BY <1>1, <1>2, <2>1, <1>4 DEF PaneInv, OneNewest, NewestFits, Past, Explained, Panes, Polled
<1> QED BY <1>3, <1>4 DEF ReadsInv

\* The server's data only moves forward, so no answer becomes one of the future.
LEMMA DataChangesKeeps == ReadsInv /\ DataChanges => ReadsInv'
<1> SUFFICES ASSUME ReadsInv, DataChanges PROVE ReadsInv'
    OBVIOUS
<1>1. version \in Nat /\ version' = version + 1 /\ version' \in Versions
    BY BoundsAssumption DEF ReadsInv, ReadsTypeOK, DataChanges, Versions
<1>2. ReadsTypeOK'
    BY <1>1 DEF ReadsInv, ReadsTypeOK, DataChanges
<1>3. ASSUME NEW p \in Panes PROVE PaneInv(p)'
    <2>1. OneNewest(p)' /\ NewestFits(p)' /\ Explained(p)'
        BY PaneTyped DEF DataChanges, PaneInv, OneNewest, NewestFits, Explained
    <2>2. shown[p] # Nothing => shown[p].version \in Nat
        BY PaneTyped, Fields
    <2>3. \A r \in pending[p] : r.read # Unread => r.read \in Nat
        BY PaneTyped, Fields
    <2>4. Past(p)'
        BY <1>1, <2>2, <2>3, PaneTyped DEF DataChanges, PaneInv, Past
    <2> QED BY <2>1, <2>4 DEF PaneInv
<1> QED BY <1>2, <1>3 DEF ReadsInv

LEMMA ReadsInvStep == ReadsInv /\ [ReadsNext]_readsVars => ReadsInv'
<1> SUFFICES ASSUME ReadsInv, [ReadsNext]_readsVars PROVE ReadsInv'
    OBVIOUS
<1>1. \A p \in Panes : question[p] \in Questions(p)
    BY PaneTyped
<1>2. CASE InsightsTimer
    BY <1>1, <1>2, AskKeeps DEF InsightsTimer, Panes
<1>3. CASE ChangeInsightsDays
    BY <1>3, AskKeeps DEF ChangeInsightsDays, Questions, Panes
<1>4. CASE IncidentsTimer \/ RefreshIncidents
    <2>1. question["incidents"] = Everything
        BY <1>1 DEF Panes, Questions
    <2> QED BY <1>1, <1>4, <2>1, AskKeeps DEF IncidentsTimer, RefreshIncidents, Panes
<1>5. CASE OpenReport
    BY <1>5, AskKeeps DEF OpenReport, Questions, Panes
<1>6. CASE CloseReport
    BY <1>6, CloseKeeps
<1>7. CASE \E p \in Panes : \E r \in pending[p] :
                Serve(p, r) \/ Receive(p, r) \/ Fail(p, r) \/ Lose(p, r)
    <2> PICK p \in Panes : \E r \in pending[p] :
                Serve(p, r) \/ Receive(p, r) \/ Fail(p, r) \/ Lose(p, r)
        BY <1>7
    <2> PICK r \in pending[p] :
                Serve(p, r) \/ Receive(p, r) \/ Fail(p, r) \/ Lose(p, r)
        OBVIOUS
    <2>1. CASE Serve(p, r)
        BY <2>1, ServeKeeps
    <2>2. CASE Receive(p, r)
        BY <2>2, ReceiveKeeps
    <2>3. CASE Fail(p, r)
        BY <2>3, FailKeeps
    <2>4. CASE Lose(p, r)
        <3>1. lost' \in 0..MaxLost
            BY <2>4, PaneTyped, BoundsAssumption DEF Lose
        <3> QED BY <2>4, <3>1, DropKeeps DEF Lose
    <2> QED BY <2>1, <2>2, <2>3, <2>4
<1>8. CASE DataChanges
    BY <1>8, DataChangesKeeps
<1>9. CASE UNCHANGED readsVars
    BY <1>9 DEF readsVars, ReadsInv, ReadsTypeOK, PaneInv, OneNewest, NewestFits, Past, Explained
<1> QED BY <1>2, <1>3, <1>4, <1>5, <1>6, <1>7, <1>8, <1>9 DEF ReadsNext

LEMMA ReadsInvariant == ReadsSpec => []ReadsInv
<1> QED BY ReadsInvInit, ReadsInvStep, PTL DEF ReadsSpec

-----------------------------------------------------------------------------
(* The theorems.                                                            *)

\* In every behaviour of the console's panes each variable has its type: a pane
\* only holds questions it can be asked and answers to such a question.
THEOREM ReadsTypeCorrect == ReadsSpec => []ReadsTypeOK
<1>1. ReadsInv => ReadsTypeOK
    BY DEF ReadsInv
<1> QED BY <1>1, ReadsInvariant, PTL

\* Whatever crosses, fails or gets lost, the statistics, the list of incidents
\* and the report dialog (TrafficWorkspace, IncidentRecords) always say why they
\* are blank, and never two things at once.
THEOREM ReadsExplained == ReadsSpec => []BlankExplained
<1>1. ReadsInv => BlankExplained
    <2> SUFFICES ASSUME ReadsInv PROVE BlankExplained
        OBVIOUS
    <2>1. \A p \in Panes : PaneInv(p)
        BY DEF ReadsInv
    <2>2. Traffic = Nothing => HistoryMessage # "not loaded"
        BY <2>1 DEF Traffic, HistoryMessage, PaneInv, Past, Explained, Panes, Polled
    <2>3. NoIncidents => shown["incidents"] # Nothing
        BY <2>1 DEF NoIncidents, PaneInv, Explained, Panes, Polled
    <2>4. ASSUME question["report"] # Closed
          PROVE  \E part \in {"waiting", "error", "text"} : ReportDialog = {part}
        <3>1. Explained("report")
            BY <2>1 DEF PaneInv, Panes
        <3>2. CASE loading["report"]
            BY <2>4, <3>1, <3>2 DEF ReportDialog, Explained
        <3>3. CASE error["report"]
            BY <2>4, <3>1, <3>3 DEF ReportDialog, Explained
        <3>4. CASE ~loading["report"] /\ ~error["report"]
            BY <2>4, <3>1, <3>4 DEF ReportDialog, Explained
        <3> QED BY <3>2, <3>3, <3>4
    <2> QED BY <2>2, <2>3, <2>4 DEF BlankExplained
<1> QED BY <1>1, ReadsInvariant, PTL

-----------------------------------------------------------------------------
(* The refinement: what a step of the panes looks like from one of them.     *)

Turns(p) == question'[p] \in Questions(p) /\ shown'[p] = Nothing
Shows(p) ==
    /\ shown'[p] \in [to : Questions(p), version : Nat] /\ shown'[p].to = question[p]
    /\ shown[p] # Nothing => shown[p].version <= shown'[p].version
    /\ question'[p] = question[p]
Rests(p) == question'[p] = question[p] /\ shown'[p] = shown[p]

\* A request that is answered shows its pane something newer, or rests.
LEMMA AnswerMoves ==
    ASSUME ReadsInv, NEW p \in Panes, NEW x \in Panes, NEW r \in pending[x], Receive(x, r)
    PROVE  Shows(p) \/ Rests(p)
<1>1. question' = question
    BY DEF Receive
<1>2. CASE p # x \/ ~r.newest
    BY <1>1, <1>2 DEF Receive, Rests, ReadsInv, ReadsTypeOK
<1>3. CASE p = x /\ r.newest
    <2>1. r \in Requests(p) /\ r.read \in Versions
        BY <1>3, PaneTyped, Fields DEF Receive
    <2>2. shown'[p] = [to |-> r.to, version |-> r.read]
        BY <1>3 DEF Receive, ReadsInv, ReadsTypeOK
    <2>3. shown'[p] \in [to : Questions(p), version : Nat]
        BY <2>1, <2>2, Fields
    <2>4. r.read # Unread
        BY <1>3 DEF Receive
    <2> QED BY <1>1, <1>3, <2>2, <2>3, <2>4, PaneTyped DEF Shows, PaneInv, NewestFits
<1> QED BY <1>2, <1>3

LEMMA PaneMoves ==
    ASSUME ReadsInv, [ReadsNext]_readsVars, NEW p \in Panes
    PROVE  Turns(p) \/ Shows(p) \/ Rests(p)
<1>1. question'[p] \in Questions(p)
    BY ReadsInvStep DEF ReadsInv, ReadsTypeOK
<1>2. ASSUME NEW x \in Panes, NEW q, NEW kept, Ask(x, q, kept),
             kept = Nothing \/ (kept = shown[x] /\ q = question[x])
      PROVE  Turns(p) \/ Rests(p)
    BY <1>1, <1>2 DEF Ask, Turns, Rests, ReadsInv, ReadsTypeOK
<1>3. CASE InsightsTimer \/ ChangeInsightsDays \/ OpenReport
    BY <1>2, <1>3 DEF InsightsTimer, ChangeInsightsDays, OpenReport, Panes
<1>4. CASE IncidentsTimer \/ RefreshIncidents
    <2>1. question["incidents"] = Everything
        BY PaneTyped DEF Panes, Questions
    <2> QED BY <1>2, <1>4, <2>1 DEF IncidentsTimer, RefreshIncidents, Panes
<1>5. CASE CloseReport
    BY <1>1, <1>5 DEF CloseReport, Turns, Rests, ReadsInv, ReadsTypeOK
<1>6. CASE \E x \in Panes : \E r \in pending[x] :
                Serve(x, r) \/ Receive(x, r) \/ Fail(x, r) \/ Lose(x, r)
    <2> PICK x \in Panes : \E r \in pending[x] :
                Serve(x, r) \/ Receive(x, r) \/ Fail(x, r) \/ Lose(x, r)
        BY <1>6
    <2> PICK r \in pending[x] :
                Serve(x, r) \/ Receive(x, r) \/ Fail(x, r) \/ Lose(x, r)
        OBVIOUS
    <2>1. CASE Serve(x, r) \/ Lose(x, r)
        BY <2>1 DEF Serve, Lose, Rests
    <2>2. CASE Receive(x, r)
        BY <2>2, AnswerMoves
    <2>3. CASE Fail(x, r)
        BY <1>1, <2>3 DEF Fail, Turns, Rests, ReadsInv, ReadsTypeOK
    <2> QED BY <2>1, <2>2, <2>3
<1>7. CASE DataChanges \/ UNCHANGED readsVars
    BY <1>7 DEF DataChanges, readsVars, Rests
<1> QED BY <1>3, <1>4, <1>5, <1>6, <1>7 DEF ReadsNext

\* The panes of the statistics, the incidents and the report each implement the
\* abstract pane: an answer is to the question the pane stands at, and is only
\* replaced by one that is not older, in whatever order the answers come back.
THEOREM ReadsImplementFreshPanes == ReadsSpec => PanesFresh
<1>1. ReadsInit => InsightsPane!Init /\ IncidentsPane!Init /\ ReportPane!Init
    BY QuestionsAssumption
       DEF ReadsInit, InsightsPane!Init, IncidentsPane!Init, ReportPane!Init, Questions, Panes
<1>2. ReadsInv /\ [ReadsNext]_readsVars =>
        /\ [InsightsPane!Next]_(InsightsPane!vars)
        /\ [IncidentsPane!Next]_(IncidentsPane!vars)
        /\ [ReportPane!Next]_(ReportPane!vars)
    <2> SUFFICES ASSUME ReadsInv, [ReadsNext]_readsVars
                 PROVE  /\ [InsightsPane!Next]_(InsightsPane!vars)
                        /\ [IncidentsPane!Next]_(IncidentsPane!vars)
                        /\ [ReportPane!Next]_(ReportPane!vars)
        OBVIOUS
    <2>1. \A p \in Panes : Turns(p) \/ Shows(p) \/ Rests(p)
        BY PaneMoves
    <2>2. [InsightsPane!Next]_(InsightsPane!vars)
        BY <2>1 DEF Panes, Turns, Shows, Rests, InsightsPane!Next, InsightsPane!vars,
                    InsightsPane!Turn, InsightsPane!Show, InsightsPane!Answers
    <2>3. [IncidentsPane!Next]_(IncidentsPane!vars)
        BY <2>1 DEF Panes, Turns, Shows, Rests, IncidentsPane!Next, IncidentsPane!vars,
                    IncidentsPane!Turn, IncidentsPane!Show, IncidentsPane!Answers
    <2>4. [ReportPane!Next]_(ReportPane!vars)
        BY <2>1 DEF Panes, Turns, Shows, Rests, ReportPane!Next, ReportPane!vars,
                    ReportPane!Turn, ReportPane!Show, ReportPane!Answers
    <2> QED BY <2>2, <2>3, <2>4
<1> QED BY <1>1, <1>2, ReadsInvariant, PTL
        DEF ReadsSpec, PanesFresh, InsightsPane!Spec, IncidentsPane!Spec, ReportPane!Spec

=============================================================================
