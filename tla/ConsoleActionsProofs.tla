------------------------- MODULE ConsoleActionsProofs -------------------------
(***************************************************************************)
(* Proofs about the admin console at work, for all ports, kinds of actions *)
(* and numbers of requests under way.                                      *)
(***************************************************************************)
EXTENDS ConsoleActions, WellFoundedInduction, TLAPS

-----------------------------------------------------------------------------
(* The inductive invariant.                                                *)

\* The key of a job, as the buttons see it.
KeysOfActive == {job[s].key : s \in {t \in Slots : Active(t)}}

JobsHaveKeys ==
    /\ \A s \in Slots : Active(s) => job[s].key \in Keys
    /\ busy = KeysOfActive
    /\ \A s, t \in Slots : Active(s) /\ Active(t) /\ s # t => job[s].key # job[t].key

\* What a dashboard read after an action can say of it: a port that was made or
\* found is in it unless the inventory has changed since.
Tells(s, d) ==
    /\ job[s].since <= d.rev
    /\ job[s].key[1] = "create" =>
        /\ job[s].made # None
        /\ job[s].since = d.rev => job[s].made \in Listed(d)

\* Actions that are carried out, and answers on their way back.
AnswersCarry ==
    \A s \in Slots :
        /\ job[s].stage = "done" => Tells(s, server)
        /\ job[s].stage = "answered" => job[s].copy \in Dashboard /\ Tells(s, job[s].copy)

\* A change of the AI routing that the workspace does not know of.
Unwatched(s) == job[s].key[1] = "port-scope" /\ scopeBusy # s
RoutingJob(s) == Active(s) /\ job[s].key[1] \in Routing

OneRouting ==
    \A s, t \in Slots : RoutingJob(s) /\ RoutingJob(t) /\ s # t => Unwatched(s) \/ Unwatched(t)

ScopeWatched == scopeBusy # None => Active(scopeBusy)

\* Nothing starts behind an open dialog, so what was free when it asked still is.
DialogAsks ==
    dialog # None =>
        /\ dialog.key[1] \in Asked
        /\ dialog.key[1] = "mode" /\ dialog.holder = None =>
            \A s \in Slots : RoutingJob(s) => Unwatched(s)

\* The first load and a manual refresh are each made of one request.
OneRead ==
    /\ \A r, q \in reads : r.from = q.from /\ r.from # "poll" => r = q
    /\ \A r \in reads : r.from \notin lost
    /\ refreshing <=> "manual" \in lost \cup {r.from : r \in reads}
    /\ loading <=> "first" \in lost \cup {r.from : r \in reads}

ActionsInv ==
    /\ ActionsTypeOK /\ JobsHaveKeys /\ AnswersCarry
    /\ OneRouting /\ ScopeWatched /\ DialogAsks /\ DialogHeld /\ OneRead

-----------------------------------------------------------------------------
(* Values.                                                                  *)

\* The first port of a list is one of the list.
LEMMA MinIn == ASSUME NEW S \in SUBSET Nat, S # {} PROVE Min(S) \in S
<1> DEFINE R == OpToRel(<, Nat)
<1>1. \E x \in S : \A y \in S : ~ (<<y, x>> \in R)
    <2> HIDE DEF R
    <2>1. IsWellFoundedOn(R, Nat)
        BY NatLessThanWellFounded DEF R
    <2> QED BY <2>1, WFMin
<1>2. \A x, y \in S : <<y, x>> \in R <=> y < x
    BY DEF OpToRel
<1> HIDE DEF R
<1>3. PICK x \in S : \A y \in S : ~ (<<y, x>> \in R)
    BY <1>1
<1>4. \A y \in S : ~ (y < x)
    BY <1>2, <1>3
<1>5. \A y \in S : x =< y
    BY <1>4
<1> QED BY <1>5 DEF Min

LEMMA ReselectType ==
    ASSUME NEW sel, NEW d \in Dashboard, NEW f
    PROVE  /\ Reselect(sel, d, f) \in Ports \cup {None}
           /\ sel \in Filtered(d, f) => Reselect(sel, d, f) = sel
<1>1. Filtered(d, f) \subseteq Ports /\ Filtered(d, f) \in SUBSET Nat
    BY PortsAssumption DEF Filtered, Listed
<1> QED BY <1>1, MinIn DEF Reselect

LEMMA NoneIsNoSlot == None \notin Slots /\ None \notin Ports
BY PortsAssumption

LEMMA KeyKinds ==
    ASSUME NEW key \in Keys
    PROVE  /\ key = <<key[1], key[2]>> /\ key[1] \in Kinds
           /\ key[1] \in OnPort => key[2] \in Ports
BY DEF Keys

\* What an action makes of the inventory is an inventory again.
LEMMA EffectsType ==
    ASSUME server \in Dashboard, NEW key \in Keys, NEW e \in Effects(key[1], key[2]),
           e.after.rev <= MaxChanges
    PROVE  /\ e.after \in Dashboard /\ e.made \in Ports \cup {None}
           /\ e.after = server \/ e.after.rev = server.rev + 1
           /\ key[1] = "create" => e.made \in Listed(e.after)
<1> DEFINE k == key[1]
           p == key[2]
<1>1. /\ server.port \in [Ports -> PortStates] /\ server.rev \in Nat
      /\ server = [port |-> server.port, rev |-> server.rev]
    BY BoundsAssumption DEF Dashboard
<1>2. ASSUME NEW port \in [Ports -> PortStates], Changed(port).rev <= MaxChanges
      PROVE  Changed(port) \in Dashboard /\ Changed(port).rev = server.rev + 1
    BY <1>1, <1>2, BoundsAssumption DEF Changed, Dashboard
<1>3. CASE k = "create"
    <2>1. CASE \E q \in Ports \ Listed(server) :
                  e = [after |-> Changed([server.port EXCEPT ![q] = "on"]), made |-> q]
        <3>1. PICK q \in Ports \ Listed(server) :
                  e = [after |-> Changed([server.port EXCEPT ![q] = "on"]), made |-> q]
            BY <2>1
        <3>2. [server.port EXCEPT ![q] = "on"] \in [Ports -> PortStates]
            BY <1>1 DEF PortStates
        <3>3. e.after \in Dashboard /\ e.after.rev = server.rev + 1
            BY <1>2, <3>1, <3>2
        <3>4. q \in Listed(e.after)
            BY <1>1, <3>1 DEF Changed, Listed
        <3> QED BY <3>1, <3>3, <3>4
    <2>2. CASE \E q \in Listed(server) : e = [after |-> server, made |-> q]
        BY <2>2 DEF Listed
    <2> QED BY <1>3, <2>1, <2>2 DEF Effects
<1>4. CASE k = "toggle"
    <2>1. e = [after |-> Changed([server.port EXCEPT ![p] = IF @ = "on" THEN "off" ELSE "on"]),
               made |-> None]
        BY <1>4 DEF Effects
    <2>2. [server.port EXCEPT ![p] = IF @ = "on" THEN "off" ELSE "on"] \in [Ports -> PortStates]
        BY <1>1 DEF PortStates
    <2> QED BY <1>2, <1>4, <2>1, <2>2
<1>5. CASE k = "delete"
    <2>1. [server.port EXCEPT ![p] = "absent"] \in [Ports -> PortStates]
        BY <1>1 DEF PortStates
    <2>2. \/ e = [after |-> Changed([server.port EXCEPT ![p] = "absent"]), made |-> None]
          \/ e = [after |-> server, made |-> None]
        BY <1>5 DEF Effects
    <2> QED BY <1>2, <1>5, <2>1, <2>2
<1>6. CASE k \in {"update", "reset", "rotate", "port-scope", "scope", "mode"}
    <2>1. e = [after |-> Changed(server.port), made |-> None]
        BY <1>6 DEF Effects
    <2> QED BY <1>1, <1>2, <1>6, <2>1
<1>7. CASE k \notin {"create", "toggle", "delete", "update", "reset", "rotate",
                     "port-scope", "scope", "mode"}
    <2>1. e = [after |-> server, made |-> None]
        BY <1>7 DEF Effects
    <2> QED BY <1>7, <2>1
<1> QED BY <1>3, <1>4, <1>5, <1>6, <1>7

-----------------------------------------------------------------------------
(* The actions under way.                                                   *)

JobInv ==
    JobsHaveKeys /\ AnswersCarry /\ OneRouting /\ ScopeWatched /\ DialogAsks /\ DialogHeld

\* A step of the inventory; what was true of it and what it made stays true.
ServerStep == UNCHANGED server \/ server'.rev = server.rev + 1

WorkType ==
    /\ job \in [Slots -> Jobs] /\ busy \subseteq Keys
    /\ scopeBusy \in Slots \cup {None} /\ dialog \in Dialogs

LEMMA IdleIsAJob == IdleJob \in Jobs /\ 0 \in 0..MaxChanges
<1>1. MaxChanges \in Nat
    BY BoundsAssumption
<1>2. 0 \in 0..MaxChanges
    BY <1>1
<1> QED BY <1>2 DEF IdleJob, Jobs

LEMMA TellsKept ==
    ASSUME job \in [Slots -> Jobs], server \in Dashboard, ServerStep, NEW s \in Slots,
           Tells(s, server), job'[s] = job[s]
    PROVE  Tells(s, server)'
<1>1. job[s].since \in Nat /\ server.rev \in Nat
    BY BoundsAssumption DEF Jobs, Dashboard
<1>2. CASE UNCHANGED server
    BY <1>2 DEF Tells
<1>3. CASE server'.rev = server.rev + 1
    BY <1>1, <1>3 DEF Tells
<1> QED BY <1>2, <1>3 DEF ServerStep

\* A step that starts nothing and ends nothing.
LEMMA WorkKept ==
    ASSUME WorkType, JobInv, server \in Dashboard, ServerStep, UNCHANGED <<work, scopeBusy, dialog>>
    PROVE  WorkType' /\ JobInv'
<1>1. job' = job /\ job \in [Slots -> Jobs]
    BY DEF work, WorkType
<1>2. AnswersCarry'
    <2> SUFFICES ASSUME NEW s \in Slots
                 PROVE  /\ job[s].stage = "done" => Tells(s, server)'
                        /\ job[s].stage = "answered" =>
                            job[s].copy \in Dashboard /\ Tells(s, job[s].copy)'
        BY <1>1 DEF AnswersCarry
    <2>1. job[s].stage = "done" => Tells(s, server)'
        BY <1>1, TellsKept DEF JobInv, AnswersCarry
    <2> QED BY <1>1, <2>1 DEF JobInv, AnswersCarry, Tells
<1> QED BY <1>2 DEF WorkType, JobInv, work, JobsHaveKeys, KeysOfActive, OneRouting,
                    ScopeWatched, DialogAsks, DialogHeld, RoutingJob, Unwatched, Active

\* An action starts under a key that no other one has; if it changes the AI
\* routing, the others of that kind are ones the workspace does not know of.
LEMMA StartKeeps ==
    ASSUME WorkType, JobInv, NEW s \in Slots, NEW key \in Keys, Start(s, key),
           key[1] \in Routing => \A t \in Slots : RoutingJob(t) => Unwatched(t),
           scopeBusy' = scopeBusy \/ (scopeBusy = None /\ scopeBusy' = s),
           \/ dialog' = None
           \/ /\ dialog' \in Dialogs /\ dialog'.key[1] \in Asked
              /\ dialog'.key = key /\ dialog'.holder = s,
           UNCHANGED server
    PROVE  WorkType' /\ JobInv'
<1> DEFINE started == [IdleJob EXCEPT !.key = key, !.stage = "sent"]
<1>1. /\ ~Active(s) /\ key \notin busy /\ busy' = busy \cup {key}
      /\ job' = [job EXCEPT ![s] = started]
    BY DEF Start, Free
<1>2. started \in Jobs /\ started.key = key /\ started.stage = "sent"
    BY IdleIsAJob DEF IdleJob, Jobs
<1>3. /\ job'[s].key = key /\ job'[s].stage = "sent"
      /\ \A t \in Slots \ {s} : job'[t] = job[t]
      /\ job' \in [Slots -> Jobs]
    BY <1>1, <1>2 DEF WorkType
<1> HIDE DEF started
<1>4. WorkType'
    BY <1>1, <1>3 DEF WorkType, Dialogs
<1>5. /\ Active(s)'
      /\ \A t \in Slots \ {s} : Active(t)' <=> Active(t)
    BY <1>3 DEF Active
<1>6. JobsHaveKeys'
    <2>1. KeysOfActive' = KeysOfActive \cup {key}
        BY <1>1, <1>3, <1>5 DEF KeysOfActive
    <2>2. \A t \in Slots : Active(t) => job[t].key \in busy
        BY DEF JobInv, JobsHaveKeys, KeysOfActive
    <2>3. \A t \in Slots : Active(t) => job[t].key # key
        BY <1>1, <2>2
    <2> QED BY <1>1, <1>3, <1>5, <2>1, <2>3 DEF JobInv, JobsHaveKeys
<1>7. AnswersCarry'
    BY <1>3 DEF JobInv, AnswersCarry, Tells
<1>8. \A t \in Slots \ {s} : (RoutingJob(t)' <=> RoutingJob(t)) /\ (Unwatched(t) => Unwatched(t)')
    BY <1>3, <1>5, NoneIsNoSlot DEF RoutingJob, Unwatched
<1>9. OneRouting'
    <2>1. ASSUME NEW t \in Slots \ {s}, RoutingJob(s)', RoutingJob(t)' PROVE Unwatched(t)'
        BY <1>3, <1>8, <2>1 DEF RoutingJob
    <2> QED BY <1>8, <2>1 DEF JobInv, OneRouting
<1>10. ScopeWatched'
    BY <1>1, <1>5 DEF JobInv, ScopeWatched, WorkType
<1>11. DialogAsks' /\ DialogHeld'
    BY <1>3, <1>5, NoneIsNoSlot DEF DialogAsks, DialogHeld
<1> QED BY <1>4, <1>6, <1>7, <1>9, <1>10, <1>11 DEF JobInv

\* An action ends: its key, its scope switch and its dialog are free again.
LEMMA FinishKeeps ==
    ASSUME WorkType, JobInv, NEW s \in Slots, Active(s), Finish(s), UNCHANGED server
    PROVE  WorkType' /\ JobInv'
<1>1. /\ busy' = busy \ {job[s].key} /\ job' = [job EXCEPT ![s] = IdleJob]
      /\ scopeBusy' = (IF scopeBusy = s THEN None ELSE scopeBusy)
      /\ dialog' = IF dialog # None /\ dialog.holder = s THEN None ELSE dialog
    BY DEF Finish
<1>2. /\ job'[s].stage = "idle" /\ job' \in [Slots -> Jobs]
      /\ \A t \in Slots \ {s} : job'[t] = job[t]
    BY <1>1, IdleIsAJob DEF WorkType, IdleJob
<1>3. WorkType'
    BY <1>1, <1>2 DEF WorkType, Dialogs
<1>4. /\ ~Active(s)'
      /\ \A t \in Slots \ {s} : Active(t)' <=> Active(t)
    BY <1>2 DEF Active
<1>5. JobsHaveKeys'
    <2>1. KeysOfActive' = {job[t].key : t \in {u \in Slots \ {s} : Active(u)}}
        BY <1>2, <1>4 DEF KeysOfActive
    <2>2. \A t \in Slots \ {s} : Active(t) => job[t].key # job[s].key
        BY DEF JobInv, JobsHaveKeys
    <2>3. busy' = {job[t].key : t \in {u \in Slots \ {s} : Active(u)}}
        BY <1>1, <2>2 DEF JobInv, JobsHaveKeys, KeysOfActive
    <2> QED BY <1>2, <1>4, <2>1, <2>3 DEF JobInv, JobsHaveKeys
<1>6. AnswersCarry'
    BY <1>2 DEF JobInv, AnswersCarry, Tells
<1>7. \A t \in Slots \ {s} : (RoutingJob(t)' <=> RoutingJob(t)) /\ (Unwatched(t) => Unwatched(t)')
    BY <1>1, <1>2, <1>4, NoneIsNoSlot DEF RoutingJob, Unwatched
<1>8. ~RoutingJob(s)'
    BY <1>4 DEF RoutingJob
<1>9. OneRouting'
    BY <1>7, <1>8 DEF JobInv, OneRouting
<1>10. ScopeWatched'
    BY <1>1, <1>4 DEF JobInv, ScopeWatched, WorkType
<1>11. DialogAsks' /\ DialogHeld'
    <2>1. DialogAsks'
        BY <1>1, <1>7, <1>8 DEF JobInv, DialogAsks
    <2>2. dialog' # None /\ dialog'.holder # None => dialog.holder \in Slots \ {s}
        BY <1>1 DEF WorkType, Dialogs
    <2> QED BY <1>1, <1>2, <1>4, <2>1, <2>2 DEF JobInv, DialogHeld
<1> QED BY <1>3, <1>5, <1>6, <1>9, <1>10, <1>11 DEF JobInv

\* The backend carries out, answers or refuses: the action stays under way, under
\* its key.
LEMMA JobKept ==
    ASSUME WorkType, JobInv, server \in Dashboard, server' \in Dashboard, ServerStep,
           NEW s \in Slots, Active(s), UNCHANGED <<busy, scopeBusy, dialog>>,
           job' \in [Slots -> Jobs], \A t \in Slots \ {s} : job'[t] = job[t],
           job'[s].key = job[s].key, job'[s].stage \in {"done", "answered", "refused"},
           job'[s].stage = "done" => Tells(s, server)',
           job'[s].stage = "answered" => job'[s].copy \in Dashboard /\ Tells(s, job[s].copy)'
    PROVE  WorkType' /\ JobInv'
<1>1. \A t \in Slots : job'[t].key = job[t].key /\ (Active(t)' <=> Active(t))
    BY DEF Active
<1>2. JobsHaveKeys'
    <2>1. KeysOfActive' = KeysOfActive
        BY <1>1 DEF KeysOfActive
    <2> QED BY <1>1, <2>1 DEF JobInv, JobsHaveKeys
<1>3. AnswersCarry'
    <2>1. ASSUME NEW t \in Slots \ {s}
          PROVE  /\ job'[t].stage = "done" => Tells(t, server)'
                 /\ job'[t].stage = "answered" => job'[t].copy \in Dashboard /\ Tells(t, job[t].copy)'
        <3>1. job'[t].stage = "done" => Tells(t, server)'
            BY TellsKept DEF JobInv, AnswersCarry, WorkType
        <3> QED BY <3>1 DEF JobInv, AnswersCarry, Tells
    <2> QED BY <2>1 DEF AnswersCarry
<1>4. \A t \in Slots : (RoutingJob(t)' <=> RoutingJob(t)) /\ (Unwatched(t)' <=> Unwatched(t))
    BY <1>1 DEF RoutingJob, Unwatched
<1>5. OneRouting' /\ ScopeWatched' /\ DialogAsks' /\ DialogHeld'
    BY <1>1, <1>4 DEF JobInv, OneRouting, ScopeWatched, DialogAsks, DialogHeld, WorkType, Dialogs
<1>6. WorkType'
    BY DEF WorkType
<1> QED BY <1>2, <1>3, <1>5, <1>6 DEF JobInv

LEMMA RefusedIsAJob ==
    ASSUME WorkType, JobInv, NEW s \in Slots, Active(s), Refuse(s)
    PROVE  /\ job' \in [Slots -> Jobs] /\ \A t \in Slots \ {s} : job'[t] = job[t]
           /\ job'[s].key = job[s].key /\ job'[s].stage = "refused"
<1> DEFINE refused == [IdleJob EXCEPT !.key = job[s].key, !.stage = "refused"]
<1>1. job[s].key \in Keys
    BY DEF JobInv, JobsHaveKeys
<1>2. refused \in Jobs /\ refused.key = job[s].key /\ refused.stage = "refused"
    BY <1>1, IdleIsAJob DEF IdleJob, Jobs
<1>3. job' = [job EXCEPT ![s] = refused]
    BY DEF Refuse
<1> HIDE DEF refused
<1> QED BY <1>2, <1>3 DEF WorkType

LEMMA ServeJobKeeps ==
    ASSUME WorkType, JobInv, server \in Dashboard, NEW s \in Slots, ServeJob(s)
    PROVE  WorkType' /\ JobInv' /\ server' \in Dashboard
<1>1. Active(s) /\ job[s].key \in Keys /\ job[s] \in Jobs
    BY DEF ServeJob, Active, JobInv, JobsHaveKeys, WorkType
<1>2. UNCHANGED <<busy, scopeBusy, dialog>>
    BY DEF ServeJob, screen
<1>3. CASE \E e \in Effects(job[s].key[1], job[s].key[2]) :
              /\ e.after.rev <= MaxChanges
              /\ server' = e.after
              /\ job' = [job EXCEPT ![s].stage = "done", ![s].made = e.made,
                                    ![s].since = e.after.rev]
    <2>1. PICK e \in Effects(job[s].key[1], job[s].key[2]) :
              /\ e.after.rev <= MaxChanges
              /\ server' = e.after
              /\ job' = [job EXCEPT ![s].stage = "done", ![s].made = e.made,
                                    ![s].since = e.after.rev]
        BY <1>3
    <2>2. /\ e.after \in Dashboard /\ e.made \in Ports \cup {None}
          /\ e.after = server \/ e.after.rev = server.rev + 1
          /\ job[s].key[1] = "create" => e.made \in Listed(e.after)
        BY <1>1, <2>1, EffectsType
    <2>3. /\ job'[s] = [job[s] EXCEPT !.stage = "done", !.made = e.made, !.since = e.after.rev]
          /\ \A t \in Slots \ {s} : job'[t] = job[t]
        BY <2>1 DEF WorkType
    <2>4. job'[s] \in Jobs
        BY <1>1, <2>2, <2>3 DEF Jobs, Dashboard
    <2>5. /\ job'[s].key = job[s].key /\ job'[s].stage = "done"
          /\ job'[s].made = e.made /\ job'[s].since = e.after.rev
        BY <1>1, <2>3 DEF Jobs
    <2>6. job' \in [Slots -> Jobs]
        BY <2>1, <2>3, <2>4 DEF WorkType
    <2>7. Tells(s, server)'
        <3>1. e.after.rev \in Nat
            BY <2>2, BoundsAssumption DEF Dashboard
        <3>2. job[s].key[1] = "create" => e.made # None
            BY <2>2, NoneIsNoSlot DEF Listed
        <3> QED BY <2>1, <2>2, <2>5, <3>1, <3>2 DEF Tells
    <2>8. ServerStep
        BY <2>1, <2>2 DEF ServerStep
    <2>9. server' \in Dashboard
        BY <2>1, <2>2
    <2> QED BY <1>1, <1>2, <2>3, <2>5, <2>6, <2>7, <2>8, <2>9, JobKept
<1>4. CASE Refuse(s) /\ UNCHANGED server
    <2>1. ServerStep /\ server' \in Dashboard
        BY <1>4 DEF ServerStep
    <2> QED BY <1>1, <1>2, <1>4, <2>1, RefusedIsAJob, JobKept
<1> QED BY <1>3, <1>4 DEF ServeJob

\* The dashboard of the answer is at least as new as the change.
LEMMA AnswerJobKeeps ==
    ASSUME WorkType, JobInv, server \in Dashboard, NEW s \in Slots, AnswerJob(s)
    PROVE  WorkType' /\ JobInv'
<1>1. Active(s) /\ job[s].stage = "done" /\ job[s] \in Jobs /\ Tells(s, server)
    BY DEF AnswerJob, Active, JobInv, AnswersCarry, WorkType
<1>2. UNCHANGED <<busy, scopeBusy, dialog, server>> /\ ServerStep /\ server' \in Dashboard
    BY DEF AnswerJob, screen, copies, ServerStep
<1>3. CASE job' = [job EXCEPT ![s].stage = "answered", ![s].copy = server]
    <2>1. /\ job'[s] = [job[s] EXCEPT !.stage = "answered", !.copy = server]
          /\ \A t \in Slots \ {s} : job'[t] = job[t]
        BY <1>3 DEF WorkType
    <2>2. job'[s] \in Jobs
        BY <1>1, <2>1 DEF Jobs
    <2>3. /\ job'[s].key = job[s].key /\ job'[s].stage = "answered"
          /\ job'[s].copy = server
          /\ job'[s].made = job[s].made /\ job'[s].since = job[s].since
        BY <1>1, <2>1 DEF Jobs
    <2>4. job' \in [Slots -> Jobs]
        BY <1>3, <2>1, <2>2 DEF WorkType
    <2>5. Tells(s, job[s].copy)'
        BY <1>1, <2>3 DEF Tells
    <2> QED BY <1>1, <1>2, <2>1, <2>3, <2>4, <2>5, JobKept
<1>4. CASE Refuse(s)
    BY <1>1, <1>2, <1>4, RefusedIsAJob, JobKept
<1> QED BY <1>3, <1>4 DEF AnswerJob

-----------------------------------------------------------------------------
(* The requests for the dashboard.                                          *)

LoadsType ==
    /\ loading \in BOOLEAN /\ refreshing \in BOOLEAN
    /\ reads \subseteq Reads /\ lost \subseteq {"first", "manual"}

\* A request is sent; a manual one only if none is under way or lost.
LEMMA ReadKeeps ==
    ASSUME LoadsType, OneRead, NEW from \in {"poll", "manual"}, Read(from),
           from = "manual" => ~refreshing,
           refreshing' = (refreshing \/ from = "manual"), UNCHANGED <<loading, lost>>
    PROVE  LoadsType' /\ OneRead'
<1> DEFINE new == [from |-> from, copy |-> None]
<1>1. reads' = reads \cup {new} /\ new.from = from /\ new \in Reads
    BY DEF Read, Reads
<1> HIDE DEF new
<1>2. LoadsType'
    BY <1>1 DEF LoadsType
<1>3. from # "poll" => /\ \A r \in reads : r.from # from
                       /\ from \notin lost
    BY DEF OneRead
<1>4. \A r, q \in reads' : r.from = q.from /\ r.from # "poll" => r = q
    BY <1>1, <1>3 DEF OneRead
<1>5. \A r \in reads' : r.from \notin lost'
    BY <1>1, <1>3 DEF OneRead, LoadsType
<1>6. {r.from : r \in reads'} = {r.from : r \in reads} \cup {from}
    BY <1>1
<1>7. /\ refreshing' <=> "manual" \in lost' \cup {r.from : r \in reads'}
      /\ loading' <=> "first" \in lost' \cup {r.from : r \in reads'}
    BY <1>6 DEF OneRead, LoadsType
<1> QED BY <1>2, <1>4, <1>5, <1>7 DEF OneRead

\* The backend reads its inventory for a request.
LEMMA ServeReadKeeps ==
    ASSUME LoadsType, OneRead, server \in Dashboard, NEW r \in reads, ServeRead(r)
    PROVE  LoadsType' /\ OneRead'
<1> DEFINE new == [r EXCEPT !.copy = server]
<1>1. /\ reads' = (reads \ {r}) \cup {new} /\ UNCHANGED <<loading, refreshing, lost>>
      /\ new.from = r.from /\ new \in Reads
    BY DEF ServeRead, LoadsType, Reads
<1> HIDE DEF new
<1>2. LoadsType'
    BY <1>1 DEF LoadsType
<1>3. \A p, q \in reads' : p.from = q.from /\ p.from # "poll" => p = q
    BY <1>1 DEF OneRead
<1>4. \A q \in reads' : q.from \notin lost'
    BY <1>1 DEF OneRead
<1>5. {q.from : q \in reads'} = {q.from : q \in reads}
    BY <1>1
<1> QED BY <1>1, <1>2, <1>3, <1>4, <1>5 DEF OneRead

\* A request comes back, as an answer or as an error.
LEMMA ReadEndsKeeps ==
    ASSUME LoadsType, OneRead, NEW r \in reads, ReadEnds(r), UNCHANGED lost
    PROVE  LoadsType' /\ OneRead'
<1>1. /\ reads' = reads \ {r}
      /\ loading' = (loading /\ r.from # "first") /\ refreshing' = (refreshing /\ r.from # "manual")
    BY DEF ReadEnds
<1>2. r.from # "poll" => \A q \in reads' : q.from # r.from
    BY <1>1 DEF OneRead
<1>3. r.from \notin lost /\ r.from \in {"first", "poll", "manual"}
    BY DEF OneRead, LoadsType, Reads
<1>4. {q.from : q \in reads} = {q.from : q \in reads'} \cup {r.from}
    BY <1>1
<1>5. LoadsType'
    BY <1>1 DEF LoadsType
<1>6. /\ refreshing' <=> "manual" \in lost' \cup {q.from : q \in reads'}
      /\ loading' <=> "first" \in lost' \cup {q.from : q \in reads'}
    BY <1>1, <1>2, <1>3, <1>4 DEF OneRead, LoadsType
<1> QED BY <1>1, <1>5, <1>6 DEF OneRead

\* A request is never answered: the flag that waits for it stays up.
LEMMA LoseReadKeeps ==
    ASSUME LoadsType, OneRead, NEW r \in reads, LoseRead(r)
    PROVE  LoadsType' /\ OneRead'
<1>1. /\ reads' = reads \ {r} /\ lost' = lost \cup ({r.from} \ {"poll"})
      /\ UNCHANGED <<loading, refreshing>>
    BY DEF LoseRead
<1>2. r.from # "poll" => \A q \in reads' : q.from # r.from
    BY <1>1 DEF OneRead
<1>3. r.from \in {"first", "poll", "manual"}
    BY DEF LoadsType, Reads
<1>4. {q.from : q \in reads} = {q.from : q \in reads'} \cup {r.from}
    BY <1>1
<1>5. LoadsType'
    BY <1>1, <1>3 DEF LoadsType
<1>6. \A q \in reads' : q.from \notin lost'
    BY <1>1, <1>2 DEF OneRead
<1>7. /\ refreshing' <=> "manual" \in lost' \cup {q.from : q \in reads'}
      /\ loading' <=> "first" \in lost' \cup {q.from : q \in reads'}
    BY <1>1, <1>3, <1>4 DEF OneRead, LoadsType
<1> QED BY <1>1, <1>5, <1>6, <1>7 DEF OneRead

-----------------------------------------------------------------------------
(* The whole console.                                                       *)

ScreenType ==
    /\ server \in Dashboard /\ panel \in Dashboard
    /\ workspace \in {"delivery", "routing", "hosts"}
    /\ selected \in Ports \cup {None} /\ filter \in {"all", "on", "off"}
    /\ form \in {"empty", "typed"}

LEMMA InvSplits ==
    ActionsInv <=> ScreenType /\ LoadsType /\ WorkType /\ JobInv /\ OneRead
BY DEF ActionsInv, ActionsTypeOK, ScreenType, LoadsType, WorkType, JobInv

LEMMA ActionsInvInit == ActionsInit => ActionsInv
<1> SUFFICES ASSUME ActionsInit PROVE ActionsInv
    OBVIOUS
<1>1. EmptyPanel \in Dashboard /\ server \in Dashboard
    BY BoundsAssumption DEF ActionsInit, EmptyPanel, Dashboard, PortStates
<1>2. ScreenType
    BY <1>1 DEF ActionsInit, ScreenType
<1>3. LoadsType
    <2>1. [from |-> "first", copy |-> None] \in Reads
        BY DEF Reads
    <2> QED BY <2>1 DEF ActionsInit, LoadsType
<1>4. WorkType /\ \A s \in Slots : ~Active(s)
    BY IdleIsAJob DEF ActionsInit, WorkType, Dialogs, IdleJob, Active
<1>5. JobInv
    BY <1>4 DEF ActionsInit, JobInv, JobsHaveKeys, KeysOfActive, AnswersCarry, OneRouting,
                ScopeWatched, DialogAsks, DialogHeld, RoutingJob, Active
<1>6. OneRead
    <2>1. reads = {[from |-> "first", copy |-> None]} /\ lost = {} /\ loading /\ ~refreshing
        BY DEF ActionsInit
    <2>2. {r.from : r \in reads} = {"first"}
        BY <2>1
    <2> QED BY <2>1, <2>2 DEF OneRead
<1> QED BY <1>2, <1>3, <1>4, <1>5, <1>6, InvSplits

LEMMA ActionsInvStep == ActionsInv /\ [ActionsNext]_actionsVars => ActionsInv'
<1> SUFFICES ASSUME ActionsInv, [ActionsNext]_actionsVars PROVE ActionsInv'
    OBVIOUS
<1>0. ScreenType /\ LoadsType /\ WorkType /\ JobInv /\ OneRead
    BY InvSplits
<1>a. ASSUME UNCHANGED <<work, scopeBusy, dialog>>, ServerStep PROVE WorkType' /\ JobInv'
    BY <1>0, <1>a, WorkKept DEF ScreenType
<1>b. ASSUME UNCHANGED loads PROVE LoadsType' /\ OneRead'
    BY <1>0, <1>b DEF loads, LoadsType, OneRead
<1>c. ASSUME UNCHANGED <<copies, workspace, choice>> PROVE ScreenType'
    BY <1>0, <1>c DEF copies, choice, ScreenType
<1>d. ASSUME ScreenType', LoadsType', WorkType', JobInv', OneRead' PROVE ActionsInv'
    BY <1>d DEF ActionsInv, ActionsTypeOK, ScreenType, LoadsType, WorkType, JobInv
<1>1. CASE PollTimer
    <2>1. LoadsType' /\ OneRead'
        BY <1>0, <1>1, ReadKeeps DEF PollTimer, LoadsType
    <2> QED BY <1>1, <1>a, <1>c, <1>d, <2>1 DEF PollTimer, screen, copies, ServerStep
<1>2. CASE Refresh
    <2>1. LoadsType' /\ OneRead'
        BY <1>0, <1>2, ReadKeeps DEF Refresh, LoadsType
    <2> QED BY <1>2, <1>a, <1>c, <1>d, <2>1 DEF Refresh, screen, copies, ServerStep
<1>3. ASSUME NEW r \in reads, ReadStep(r) PROVE ActionsInv'
    <2>1. CASE ServeRead(r)
        <3>1. LoadsType' /\ OneRead'
            BY <1>0, <2>1, ServeReadKeeps DEF ScreenType
        <3> QED BY <2>1, <1>a, <1>c, <1>d, <3>1 DEF ServeRead, screen, copies, ServerStep
    <2>2. CASE ReceiveRead(r)
        <3>1. LoadsType' /\ OneRead'
            BY <1>0, <2>2, ReadEndsKeeps DEF ReceiveRead
        <3>2. r.copy \in Dashboard
            BY <1>0, <2>2 DEF ReceiveRead, LoadsType, Reads
        <3>3. ScreenType'
            BY <1>0, <2>2, <3>2, ReselectType DEF ReceiveRead, Apply, ScreenType, screen
        <3> QED BY <2>2, <1>a, <1>d, <3>1, <3>3 DEF ReceiveRead, screen, ServerStep
    <2>3. CASE FailRead(r)
        <3>1. LoadsType' /\ OneRead'
            BY <1>0, <2>3, ReadEndsKeeps DEF FailRead
        <3> QED BY <2>3, <1>a, <1>c, <1>d, <3>1 DEF FailRead, screen, copies, ServerStep
    <2>4. CASE LoseRead(r)
        <3>1. LoadsType' /\ OneRead'
            BY <1>0, <2>4, LoseReadKeeps
        <3> QED BY <2>4, <1>a, <1>c, <1>d, <3>1 DEF LoseRead, screen, copies, ServerStep
    <2> QED BY <1>3, <2>1, <2>2, <2>3, <2>4 DEF ReadStep
<1>4. ASSUME NEW s \in Slots, JobStep(s) PROVE ActionsInv'
    <2>1. CASE ServeJob(s)
        <3>1. WorkType' /\ JobInv' /\ server' \in Dashboard
            BY <1>0, <2>1, ServeJobKeeps DEF ScreenType
        <3>2. ScreenType'
            BY <1>0, <2>1, <3>1 DEF ServeJob, ScreenType, screen, choice
        <3> QED BY <2>1, <1>b, <1>d, <3>1, <3>2 DEF ServeJob
    <2>4. CASE AnswerJob(s)
        <3>1. WorkType' /\ JobInv'
            BY <1>0, <2>4, AnswerJobKeeps DEF ScreenType
        <3> QED BY <2>4, <1>b, <1>c, <1>d, <3>1 DEF AnswerJob, screen
    <2>2. CASE ReceiveJob(s)
        <3>1. Active(s) /\ Finish(s) /\ job[s].copy \in Dashboard
            BY <1>0, <2>2 DEF ReceiveJob, Active, JobInv, AnswersCarry
        <3>2. WorkType' /\ JobInv'
            BY <1>0, <2>2, <3>1, FinishKeeps DEF ReceiveJob
        <3>3. selected' \in Ports \cup {None}
            BY <2>2, <3>1, ReselectType DEF ReceiveJob, Listed
        <3>4. ScreenType'
            BY <1>0, <2>2, <3>1, <3>3 DEF ReceiveJob, Finish, ScreenType
        <3> QED BY <2>2, <1>b, <1>d, <3>2, <3>4 DEF ReceiveJob
    <2>3. CASE RefusedJob(s)
        <3>1. WorkType' /\ JobInv'
            BY <1>0, <2>3, FinishKeeps DEF RefusedJob, Active, copies
        <3> QED BY <2>3, <1>b, <1>c, <1>d, <3>1 DEF RefusedJob, Finish
    <2> QED BY <1>4, <2>1, <2>2, <2>3, <2>4 DEF JobStep
<1>5. ASSUME NEW s \in Slots, Click(s) PROVE ActionsInv'
    <2>1. CASE CreatePort(s) \/ Diagnose(s)
        <3>1. PICK key \in {<<"create", None>>, <<"diagnose", None>>} :
                key \in Keys /\ Start(s, key) /\ UNCHANGED <<copies, loads, screen, choice>>
                /\ dialog = None
            BY <2>1 DEF CreatePort, Diagnose, AtHand
        <3>2. key[1] \notin Routing
            BY DEF Routing
        <3>3. WorkType' /\ JobInv'
            BY <1>0, <3>1, <3>2, StartKeeps DEF screen, copies
        <3> QED BY <3>1, <1>b, <1>c, <1>d, <3>3 DEF screen
    <2>2. CASE PortButton(s)
        <3>1. PICK kind \in Kinds \cap Direct : Start(s, <<kind, selected>>)
            BY <2>2 DEF PortButton
        <3>2. <<kind, selected>> \in Keys /\ kind \notin Routing
            BY <1>0, <2>2 DEF PortButton, Keys, OnPort, Direct, Routing, ScreenType
        <3>3. WorkType' /\ JobInv'
            BY <1>0, <2>2, <3>1, <3>2, StartKeeps DEF PortButton, AtHand, screen, copies
        <3> QED BY <2>2, <1>b, <1>c, <1>d, <3>3 DEF PortButton, screen
    <2>3. CASE SwitchScope(s)
        <3>1. PICK key \in Keys : Start(s, key)
            BY <2>3 DEF SwitchScope
        <3>2. /\ scopeBusy = None
              /\ \A k \in busy : k[1] \notin {"scope", "mode"}
            BY <2>3 DEF SwitchScope, RoutingBusy
        <3>3. \A t \in Slots : RoutingJob(t) => Unwatched(t)
            <4>1. \A t \in Slots : Active(t) => job[t].key \in busy
                BY <1>0 DEF JobInv, JobsHaveKeys, KeysOfActive
            <4> QED BY <3>2, <4>1, NoneIsNoSlot DEF RoutingJob, Unwatched, Routing
        <3>4. WorkType' /\ JobInv'
            BY <1>0, <2>3, <3>1, <3>2, <3>3, StartKeeps DEF SwitchScope, AtHand, copies
        <3> QED BY <2>3, <1>b, <1>c, <1>d, <3>4 DEF SwitchScope
    <2>4. CASE Confirm(s)
        <3>1. /\ dialog # None /\ dialog.holder = None /\ Start(s, dialog.key)
              /\ dialog' = [dialog EXCEPT !.holder = s]
            BY <2>4 DEF Confirm
        <3>2. dialog.key \in Keys /\ dialog \in [key : Keys, holder : Slots \cup {None}]
            BY <1>0, <3>1 DEF WorkType, Dialogs
        <3>3. dialog.key[1] \in Asked
            BY <1>0, <3>1 DEF JobInv, DialogAsks
        <3>4. dialog' \in Dialogs /\ dialog'.key = dialog.key /\ dialog'.holder = s
            BY <3>1, <3>2, NoneIsNoSlot DEF Dialogs
        <3>5. dialog.key[1] \in Routing => dialog.key[1] = "mode"
            BY <3>3 DEF Asked, Confirmed, Restarts, Routing
        <3>6. dialog.key[1] \in Routing => \A t \in Slots : RoutingJob(t) => Unwatched(t)
            BY <1>0, <3>1, <3>5 DEF JobInv, DialogAsks
        <3>7. WorkType' /\ JobInv'
            BY <1>0, <2>4, <3>1, <3>2, <3>3, <3>4, <3>6, StartKeeps DEF Confirm, copies
        <3> QED BY <2>4, <1>b, <1>c, <1>d, <3>7 DEF Confirm
    <2> QED BY <1>5, <2>1, <2>2, <2>3, <2>4 DEF Click
<1>6. CASE TypeForm \/ SetFilter \/ SelectPort
    <2>1. ScreenType'
        <3>1. CASE TypeForm
            BY <1>0, <3>1 DEF TypeForm, ScreenType, copies, screen
        <3>2. CASE SetFilter
            BY <1>0, <3>2, ReselectType DEF SetFilter, ScreenType, copies, screen
        <3>3. CASE SelectPort
            BY <1>0, <3>3 DEF SelectPort, ScreenType, copies, screen, Filtered, Listed
        <3> QED BY <1>6, <3>1, <3>2, <3>3
    <2> QED BY <1>6, <1>a, <1>b, <1>d, <2>1 DEF TypeForm, SetFilter, SelectPort, screen, copies,
                                               ServerStep
<1>7. CASE AskFirst
    <2>1. UNCHANGED <<job, busy, scopeBusy>> /\ dialog' \in Dialogs /\ dialog'.holder = None
        BY <1>7 DEF AskFirst, work, Dialogs
    <2>2. WorkType'
        BY <1>0, <2>1 DEF WorkType
    <2>3. /\ \A t \in Slots : (RoutingJob(t)' <=> RoutingJob(t)) /\ (Unwatched(t)' <=> Unwatched(t))
          /\ JobsHaveKeys' /\ AnswersCarry' /\ OneRouting' /\ ScopeWatched'
        BY <1>0, <1>7, <2>1 DEF AskFirst, copies, JobInv, JobsHaveKeys, KeysOfActive, AnswersCarry, Tells, OneRouting,
                          ScopeWatched, RoutingJob, Unwatched, Active
    <2>4. dialog'.key[1] \in Asked
        BY <1>7 DEF AskFirst, Askable, Asked
    <2>5. ASSUME dialog'.key[1] = "mode", NEW t \in Slots, RoutingJob(t) PROVE Unwatched(t)
        <3>1. ~RoutingBusy
            BY <1>7, <2>5 DEF AskFirst, Askable, Confirmed, Restarts
        <3>2. job[t].key \in busy
            BY <1>0, <2>5 DEF JobInv, JobsHaveKeys, KeysOfActive, RoutingJob
        <3> QED BY <2>5, <3>1, <3>2, NoneIsNoSlot DEF RoutingBusy, RoutingJob, Unwatched, Routing
    <2>6. DialogAsks' /\ DialogHeld'
        BY <2>1, <2>3, <2>4, <2>5 DEF DialogAsks, DialogHeld
    <2> QED BY <1>7, <1>b, <1>c, <1>d, <2>2, <2>3, <2>6 DEF AskFirst, JobInv
<1>8. CASE Cancel \/ SelectWorkspace
    <2>1. /\ UNCHANGED <<job, busy, server>> /\ dialog' = None
          /\ scopeBusy' \in {scopeBusy, None}
        BY <1>8 DEF Cancel, SelectWorkspace, work, copies
    <2>2. WorkType'
        BY <1>0, <2>1 DEF WorkType, Dialogs
    <2>3. \A t \in Slots : (RoutingJob(t)' <=> RoutingJob(t)) /\ (Unwatched(t) => Unwatched(t)')
        BY <2>1, NoneIsNoSlot DEF RoutingJob, Unwatched, Active
    <2>4. JobInv'
        BY <1>0, <2>1, <2>3 DEF JobInv, JobsHaveKeys, KeysOfActive, AnswersCarry, Tells,
                                OneRouting, ScopeWatched, DialogAsks, DialogHeld, Active
    <2>5. ScreenType'
        BY <1>0, <1>8 DEF Cancel, SelectWorkspace, ScreenType, copies, choice
    <2> QED BY <1>8, <1>b, <1>d, <2>2, <2>4, <2>5 DEF Cancel, SelectWorkspace
<1>9. CASE OthersChange
    <2>1. PICK p \in Ports, st \in PortStates : server' = Changed([server.port EXCEPT ![p] = st])
        BY <1>9 DEF OthersChange
    <2>2. server' \in Dashboard
        BY <1>0, <1>9, <2>1, BoundsAssumption DEF OthersChange, Changed, Dashboard, ScreenType
    <2>3. ScreenType'
        BY <1>0, <1>9, <2>2 DEF OthersChange, ScreenType, screen, choice
    <2>4. ServerStep
        BY <2>1 DEF Changed, ServerStep
    <2> QED BY <1>9, <1>a, <1>b, <1>d, <2>3, <2>4 DEF OthersChange, screen
<1>10. CASE UNCHANGED actionsVars
    BY <1>10, <1>a, <1>b, <1>c, <1>d DEF actionsVars, copies, choice, screen, ServerStep
<1> QED BY <1>1, <1>2, <1>3, <1>4, <1>5, <1>6, <1>7, <1>8, <1>9, <1>10 DEF ActionsNext

LEMMA ActionsInvariant == ActionsSpec => []ActionsInv
<1> QED BY ActionsInvInit, ActionsInvStep, PTL DEF ActionsSpec

-----------------------------------------------------------------------------
(* The theorems.                                                            *)

\* In every behaviour of the console, with any number of requests under way, its
\* copy, its flags, its dialog and its jobs keep their types.
THEOREM ActionsTypeCorrect == ActionsSpec => []ActionsTypeOK
<1>1. ActionsInv => ActionsTypeOK
    BY DEF ActionsInv
<1> QED BY <1>1, ActionsInvariant, PTL

\* No button sends what is already under way and no flag outlives its request,
\* whatever the order of answers; and the AI routing is changed by one action at
\* a time, but for the switch of a port that the workspace has lost sight of.
THEOREM ActionsOneAtATime == ActionsSpec => []OneAtATime
<1>1. ActionsInv => OneAtATime
    <2> SUFFICES ASSUME ActionsInv PROVE OneAtATime
        OBVIOUS
    <2>1. ASSUME NEW s \in Slots, NEW t \in Slots, Active(s), Active(t), s # t
          PROVE  /\ job[s].key # job[t].key
                 /\ {job[s].key[1], job[t].key[1]} \subseteq Routing =>
                     \E u \in {s, t} : job[u].key[1] = "port-scope" /\ scopeBusy # u
        BY <2>1 DEF ActionsInv, JobsHaveKeys, OneRouting, RoutingJob, Unwatched
    <2>2. busy = {job[s].key : s \in {t \in Slots : Active(t)}}
        BY DEF ActionsInv, JobsHaveKeys, KeysOfActive
    <2> QED BY <2>1, <2>2 DEF OneAtATime, ActionsInv, OneRead
<1> QED BY <1>1, ActionsInvariant, PTL

\* What a step may start: only a confirmed dialog starts what asks first.
LEMMA OnlyConfirmStartsAsked ==
    ASSUME ActionsInv, [ActionsNext]_actionsVars, NEW s \in Slots, Sent(s), job'[s].key[1] \in Asked
    PROVE  dialog # None /\ dialog.key = job'[s].key /\ dialog.holder = None
<1>1. job \in [Slots -> Jobs] /\ ~Active(s) /\ Active(s)'
    BY DEF ActionsInv, ActionsTypeOK, Sent
<1>2. ASSUME NEW t \in Slots, NEW key, Start(t, key)
      PROVE  job'[s].key = key
    <2>1. job' = [job EXCEPT ![t] = [IdleJob EXCEPT !.key = key, !.stage = "sent"]]
        BY <1>2 DEF Start
    <2>2. s = t
        BY <1>1, <2>1 DEF Active
    <2> QED BY <1>1, <2>1, <2>2 DEF IdleJob
<1>3. ASSUME UNCHANGED job PROVE FALSE
    BY <1>1, <1>3 DEF Active
<1>4. ASSUME NEW r \in reads, ReadStep(r) PROVE FALSE
    BY <1>3, <1>4 DEF ReadStep, ServeRead, ReceiveRead, FailRead, LoseRead, work
<1>5. ASSUME NEW t \in Slots, JobStep(t) PROVE FALSE
    BY <1>1, <1>5 DEF JobStep, ServeJob, AnswerJob, Refuse, ReceiveJob, RefusedJob, Finish,
                       IdleJob, Active
<1>6. ASSUME NEW t \in Slots, Click(t)
      PROVE  dialog # None /\ dialog.key = job'[s].key /\ dialog.holder = None
    <2>1. CASE CreatePort(t) \/ Diagnose(t)
        BY <1>2, <2>1 DEF CreatePort, Diagnose, Asked, Confirmed, Restarts
    <2>2. CASE PortButton(t)
        BY <1>2, <2>2 DEF PortButton, Direct, Asked, Confirmed, Restarts
    <2>3. CASE SwitchScope(t)
        <3>1. CASE Start(t, <<"scope", None>>)
            BY <1>2, <3>1 DEF Asked, Confirmed, Restarts
        <3>2. CASE \E p \in Listed(panel) : Start(t, <<"port-scope", p>>)
            <4>1. PICK p \in Listed(panel) : Start(t, <<"port-scope", p>>)
                BY <3>2
            <4>2. job'[s].key = <<"port-scope", p>>
                BY <1>2, <4>1
            <4> QED BY <4>2 DEF Asked, Confirmed, Restarts
        <3> QED BY <2>3, <3>1, <3>2 DEF SwitchScope
    <2>4. CASE Confirm(t)
        BY <1>2, <2>4 DEF Confirm
    <2> QED BY <1>6, <2>1, <2>2, <2>3, <2>4 DEF Click
<1> QED BY <1>3, <1>4, <1>5, <1>6
        DEF ActionsNext, PollTimer, Refresh, TypeForm, SetFilter, SelectPort, AskFirst, Cancel,
            SelectWorkspace, OthersChange, work, actionsVars

\* Whatever polls select meanwhile: a deletion, a reset, a rotation, a restart or
\* a change of the routing mode is what a confirmed dialog named.
THEOREM ActionsConfirmed == ActionsSpec => ConfirmedOnly
<1>1. ActionsInv /\ [ActionsNext]_actionsVars =>
        [\A s \in Slots :
            Sent(s) /\ job'[s].key[1] \in Asked =>
                dialog # None /\ dialog.key = job'[s].key /\ dialog.holder = None]_actionsVars
    BY OnlyConfirmStartsAsked
<1> QED BY <1>1, ActionsInvariant, PTL DEF ActionsSpec, ConfirmedOnly

\* What empties the form: the answer to a creation that was carried out.
LEMMA OnlyCreationEmpties ==
    ASSUME ActionsInv, [ActionsNext]_actionsVars, form = "typed", form' = "empty"
    PROVE  \E s \in Slots :
            /\ job[s].stage = "answered" /\ job[s].key[1] = "create" /\ ~Active(s)'
            /\ job[s].made # None
            /\ IF job[s].made \in Listed(panel')
               THEN selected' = job[s].made /\ selected' \in Filtered(panel', filter')
               ELSE job[s].since < panel'.rev
<1>1. ASSUME UNCHANGED form PROVE FALSE
    BY <1>1
<1>2. ASSUME NEW r \in reads, ReadStep(r) PROVE FALSE
    BY <1>1, <1>2 DEF ReadStep, ServeRead, ReceiveRead, FailRead, LoseRead, choice
<1>3. ASSUME NEW s \in Slots, ReceiveJob(s), job[s].key[1] = "create"
      PROVE  /\ job[s].stage = "answered" /\ ~Active(s)' /\ job[s].made # None
             /\ IF job[s].made \in Listed(panel')
                THEN selected' = job[s].made /\ selected' \in Filtered(panel', filter')
                ELSE job[s].since < panel'.rev
    <2>1. /\ job[s].stage = "answered" /\ panel' = job[s].copy
          /\ job[s].made \in Listed(job[s].copy) =>
                filter' = "all" /\ selected' = job[s].made
          /\ job' = [job EXCEPT ![s] = IdleJob]
        BY <1>3 DEF ReceiveJob, Finish
    <2>2. job[s].copy \in Dashboard /\ Tells(s, job[s].copy) /\ job \in [Slots -> Jobs]
        BY <2>1 DEF ActionsInv, ActionsTypeOK, AnswersCarry
    <2>3. job[s].made # None
        BY <1>3, <2>2 DEF Tells
    <2>4. job[s].made \in Listed(panel') =>
            selected' = job[s].made /\ selected' \in Filtered(panel', filter')
        BY <2>1 DEF Filtered
    <2>5. ASSUME job[s].made \notin Listed(panel')
          PROVE  job[s].since < panel'.rev
        <3>1. job[s].since \in Nat /\ job[s].copy.rev \in Nat
            BY <2>2, BoundsAssumption DEF Jobs, Dashboard
        <3> QED BY <1>3, <2>1, <2>2, <2>5, <3>1 DEF Tells
    <2>6. ~Active(s)'
        BY <2>1, <2>2 DEF Active, IdleJob
    <2> QED BY <2>1, <2>3, <2>4, <2>5, <2>6
<1>4. ASSUME NEW s \in Slots, JobStep(s)
      PROVE  ReceiveJob(s) /\ job[s].key[1] = "create"
    BY <1>1, <1>4 DEF JobStep, ServeJob, AnswerJob, ReceiveJob, RefusedJob, choice
<1>5. ASSUME NEW s \in Slots, Click(s) PROVE FALSE
    BY <1>1, <1>5 DEF Click, CreatePort, PortButton, Diagnose, SwitchScope, Confirm, choice
<1>6. ASSUME TypeForm PROVE FALSE
    BY <1>6 DEF TypeForm
<1> QED BY <1>1, <1>2, <1>3, <1>4, <1>5, <1>6
        DEF ActionsNext, PollTimer, Refresh, SetFilter, SelectPort, AskFirst, Cancel,
            SelectWorkspace, OthersChange, choice, actionsVars

\* Whatever comes between the click, the commit and the answer: the input of a new
\* port only goes when the backend had the port at the commit, and it is then
\* selected and in the list unless the inventory was changed since.
THEOREM ActionsKeepCreation == ActionsSpec => CreationKept
<1>1. ActionsInv /\ [ActionsNext]_actionsVars =>
        [form = "typed" /\ form' = "empty" =>
            \E s \in Slots :
                /\ job[s].stage = "answered" /\ job[s].key[1] = "create" /\ ~Active(s)'
                /\ job[s].made # None
                /\ IF job[s].made \in Listed(panel')
                   THEN selected' = job[s].made /\ selected' \in Filtered(panel', filter')
                   ELSE job[s].since < panel'.rev]_actionsVars
    BY OnlyCreationEmpties
<1> QED BY <1>1, ActionsInvariant, PTL DEF ActionsSpec, CreationKept

\* Whatever ends, fails or is answered around it: a dialog that lets nobody out
\* waits for the action it asked about, which is still under way.
THEOREM ActionsHoldDialogs == ActionsSpec => []DialogHeld
<1>1. ActionsInv => DialogHeld
    BY DEF ActionsInv
<1> QED BY <1>1, ActionsInvariant, PTL
=============================================================================
