---------------------------- MODULE FrontendProofs ----------------------------
(***************************************************************************)
(* Proofs about the three applications, for every value of the constants:  *)
(* the API client, the landing page, the frame of the admin console, the   *)
(* customer's portal and the tenant's page, each on its own; and, with     *)
(* what is proved elsewhere of the console's panes and views, all of them  *)
(* side by side: every step of the whole is one of a part and leaves the   *)
(* others alone, so that the whole implements the specification of each.   *)
(***************************************************************************)
EXTENDS MCFrontend, ConsoleReadsProofs, ConsoleViewsProofs, FiniteSetTheorems, TLAPS

-----------------------------------------------------------------------------
(* ApiClient.  The inductive invariant: the WeakSet is exactly the set of   *)
(* the errors that have been reported, whoever came to report them first.   *)

SetCountsReports == \A c \in Calls : reports[c] = IF c \in reportedErrors THEN 1 ELSE 0

FailuresReported ==
    \A c \in Calls :
        CallFailed(c) /\ (call[c].status = Unanswered \/ ShouldReport(call[c].status)) =>
            c \in reportedErrors

StatusFollowsStage == \A c \in Calls : call[c].stage = "answered" => call[c].status \in Statuses

BouncedRefused == \A c \in bounced : call[c].status = 401 /\ CallFailed(c)

OneListener ==
    \/ ~installed /\ listening = {}
    \/ installed /\ \E i \in Installers : listening = {i}

ClientInv ==
    /\ ClientTypeOK /\ SetCountsReports /\ FailuresReported
    /\ StatusFollowsStage /\ BouncedRefused /\ OneListener

LEMMA ClientInvInit == ClientInit => ClientInv
<1> SUFFICES ASSUME ClientInit PROVE ClientInv
    OBVIOUS
<1>1. \A c \in Calls : call[c].stage = "idle" /\ reports[c] = 0
    BY DEF ClientInit
<1>2. ClientTypeOK
    BY DEF ClientInit, ClientTypeOK, Stages
<1>3. SetCountsReports /\ FailuresReported /\ StatusFollowsStage /\ BouncedRefused
    BY <1>1 DEF ClientInit, SetCountsReports, FailuresReported, StatusFollowsStage,
                BouncedRefused, CallFailed
<1>4. OneListener
    BY DEF ClientInit, OneListener
<1> QED BY <1>2, <1>3, <1>4 DEF ClientInv

\* What a step of one request owes the others: their stage, their status and
\* their place in the WeakSet; and no report without its place in it.
LEMMA CallStep ==
    ASSUME ClientInv, NEW c \in Calls, NEW stage \in Stages, NEW status \in Statuses \cup {Unanswered},
           call' = [call EXCEPT ![c] = [stage |-> stage, status |-> status]],
           stage = "answered" => status \in Statuses,
           ReportError(c) \/ NoReport,
           stage \in {"thrown", "dropped"} /\ (status = Unanswered \/ ShouldReport(status)) =>
               c \in reportedErrors',
           bounced' \subseteq bounced \cup {c},
           c \in bounced' => status = 401 /\ stage \in {"thrown", "dropped"},
           UNCHANGED <<installed, listening>>
    PROVE  ClientInv'
<1> USE DEF ClientInv
<1>1. /\ \A d \in Calls \ {c} : call'[d] = call[d]
      /\ call'[c].stage = stage /\ call'[c].status = status
      /\ call' \in [Calls -> [stage : Stages, status : Statuses \cup {Unanswered}]]
    BY DEF ClientTypeOK
<1>2. /\ reportedErrors \subseteq reportedErrors' /\ reportedErrors' \subseteq reportedErrors \cup {c}
      /\ reports' \in [Calls -> Nat] /\ SetCountsReports'
    BY DEF ReportError, NoReport, SetCountsReports, ClientTypeOK
<1>3. ClientTypeOK'
    BY <1>1, <1>2 DEF ClientTypeOK
<1>4. FailuresReported'
    BY <1>1, <1>2 DEF FailuresReported, CallFailed
<1>5. StatusFollowsStage'
    BY <1>1 DEF StatusFollowsStage
<1>6. BouncedRefused'
    BY <1>1 DEF BouncedRefused, CallFailed, ClientTypeOK
<1>7. OneListener'
    BY DEF OneListener
<1> QED BY <1>2, <1>3, <1>4, <1>5, <1>6, <1>7

\* Where only the stage of a request changes.
LEMMA StageStep ==
    ASSUME ClientInv, NEW c \in Calls, NEW stage \in Stages, CallEnds(c, stage),
           stage = "answered" => call[c].status \in Statuses,
           ReportError(c) \/ NoReport,
           stage \in {"thrown", "dropped"} /\ (call[c].status = Unanswered \/ ShouldReport(call[c].status)) =>
               c \in reportedErrors',
           bounced' \subseteq bounced \cup {c},
           c \in bounced' => call[c].status = 401 /\ stage \in {"thrown", "dropped"},
           UNCHANGED <<installed, listening>>
    PROVE  ClientInv'
<1>1. call' = [call EXCEPT ![c] = [stage |-> stage, status |-> call[c].status]]
    <2>1. call[c] \in [stage : Stages, status : Statuses \cup {Unanswered}]
        BY DEF ClientInv, ClientTypeOK
    <2>2. [call[c] EXCEPT !.stage = stage] = [stage |-> stage, status |-> call[c].status]
        BY <2>1
    <2> QED BY <2>2 DEF CallEnds
<1>2. call[c].status \in Statuses \cup {Unanswered}
    BY DEF ClientInv, ClientTypeOK
<1> QED BY <1>1, <1>2, CallStep

LEMMA ClientInvStep == ClientInv /\ [ClientNext]_clientVars => ClientInv'
<1> SUFFICES ASSUME ClientInv, [ClientNext]_clientVars PROVE ClientInv'
    OBVIOUS
<1>1. ASSUME NEW c \in Calls PROVE /\ c \in bounced => call[c].status = 401 /\ CallFailed(c)
                                   /\ FailuresReported
                                   /\ \A s \in {"sent", "thrown", "returned", "dropped"} : s \in Stages
    BY DEF ClientInv, BouncedRefused, Stages
<1>2. ASSUME NEW c \in Calls, SendCall(c) PROVE ClientInv'
    BY <1>1, <1>2, StageStep DEF SendCall, CallFailed
<1>3. ASSUME NEW c \in Calls, FetchFails(c) \/ ReadFails(c) PROVE ClientInv'
    BY <1>1, <1>3, StageStep DEF FetchFails, ReadFails, ReportError, CallFailed
<1>4. ASSUME NEW c \in Calls, AnswerCall(c) PROVE ClientInv'
    <2>1. PICK s \in Statuses : call' = [call EXCEPT ![c] = [stage |-> "answered", status |-> s]]
        BY <1>4 DEF AnswerCall
    <2>2. "answered" \in Stages
        BY DEF Stages
    <2>3. c \notin bounced /\ bounced' = bounced /\ NoReport /\ UNCHANGED <<installed, listening>>
        BY <1>1, <1>4 DEF AnswerCall, CallFailed
    <2> QED BY <2>1, <2>2, <2>3, CallStep
<1>5. ASSUME NEW c \in Calls, ParseFails(c) PROVE ClientInv'
    <2>1. c \notin bounced /\ c \in reportedErrors'
        BY <1>1, <1>5 DEF ParseFails, ReportError, CallFailed
    <2>2. bounced' \subseteq bounced \cup {c} /\ (c \in bounced' => call[c].status = 401)
        BY <1>5, <2>1 DEF ParseFails, Bounce
    <2>3. CallEnds(c, "thrown") /\ ReportError(c) /\ UNCHANGED <<installed, listening>>
        BY <1>5 DEF ParseFails
    <2> QED BY <1>1, <2>1, <2>2, <2>3, StageStep
<1>6. ASSUME NEW c \in Calls, RefusedCall(c) PROVE ClientInv'
    <2>1. call[c].status # Unanswered
        BY <1>6 DEF RefusedCall, ClientInv, StatusFollowsStage, Statuses, Unanswered
    <2> QED BY <1>1, <1>6, <2>1, StageStep DEF RefusedCall, Bounce, ReportError, CallFailed
<1>7. ASSUME NEW c \in Calls, ReturnData(c) PROVE ClientInv'
    BY <1>1, <1>7, StageStep DEF ReturnData, CallFailed
<1>8. ASSUME NEW c \in Calls, Catch(c) \/ Escape(c) \/ Handled(c) PROVE ClientInv'
    <2>1. call[c].status = Unanswered \/ ShouldReport(call[c].status) => c \in reportedErrors
        BY <1>1, <1>8 DEF Catch, Escape, Handled, FailuresReported, CallFailed
    <2> QED BY <1>1, <1>8, <2>1, StageStep DEF Catch, Escape, Handled, ReportError, NoReport, CallFailed
<1>9. ASSUME NEW i \in Installers, Install(i) \/ Uninstall(i) PROVE ClientInv'
    <2>1. OneListener' /\ ClientTypeOK'
        BY <1>9 DEF Install, Uninstall, ClientInv, OneListener, ClientTypeOK
    <2> QED BY <1>9, <2>1 DEF Install, Uninstall, ClientInv, SetCountsReports, FailuresReported,
                              StatusFollowsStage, BouncedRefused, CallFailed
<1>10. CASE UNCHANGED clientVars
    BY <1>10 DEF clientVars, ClientInv, ClientTypeOK, SetCountsReports, FailuresReported,
                 StatusFollowsStage, BouncedRefused, OneListener, CallFailed
<1> QED BY <1>2, <1>3, <1>4, <1>5, <1>6, <1>7, <1>8, <1>9, <1>10 DEF ClientNext

\* However many requests fail, whatever handlers get to see their errors, in any
\* order, and however often the handlers are installed and removed: an error is
\* reported once at most, and those an operator has to know of are reported.
THEOREM ErrorsReportedOnce == ClientSpec => []ReportedOnce
<1>1. ClientInv => ReportedOnce
    <2> SUFFICES ASSUME ClientInv PROVE ReportedOnce
        OBVIOUS
    <2>1. Cardinality(listening) <= 1 /\ (installed <=> listening # {})
        <3>1. CASE listening = {}
            BY <3>1, FS_EmptySet DEF ClientInv, OneListener
        <3>2. CASE \E i \in Installers : listening = {i}
            <4>1. PICK i \in Installers : listening = {i}
                BY <3>2
            <4>2. Cardinality(listening) = 1
                BY <4>1, FS_Singleton
            <4> QED BY <4>1, <4>2 DEF ClientInv, OneListener
        <3> QED BY <3>1, <3>2 DEF ClientInv, OneListener
    <2>2. \A c \in Calls : reports[c] \in {0, 1} /\ (c \in reportedErrors => reports[c] = 1)
        BY DEF ClientInv, SetCountsReports
    <2> QED BY <2>1, <2>2 DEF ClientInv, FailuresReported, BouncedRefused, ReportedOnce
<1> QED BY <1>1, ClientInvInit, ClientInvStep, PTL DEF ClientSpec

-----------------------------------------------------------------------------
(* Landing.  The inductive invariant: OneFrameLoop, and what leaves nothing *)
(* behind that could start the animation again.                             *)

FrameLoop ==
    /\ running => raf \in Frames /\ frames = {raf}
    /\ ~running => frames = {}

Stopped == mounted = "unmounted" => ~running /\ ~observer /\ observed = {} /\ ~enabled

OnePanel == content = {"sections", PricePanel(pricing)}

LandingInv == LandingTypeOK /\ FrameLoop /\ Stopped /\ OnePanel

LEMMA NextFrameFree ==
    ASSUME NEW raf0 \in Frames, frames \subseteq {raf0}
    PROVE  NextFrame \in Frames
<1>1. \E f \in Frames \ frames : \A g \in Frames \ frames : f <= g
    <2>1. Frames = {1, 2, 3}
        BY DEF Frames
    <2>2. CASE 1 \in frames
        BY <2>1, <2>2
    <2>3. CASE 1 \notin frames
        BY <2>1, <2>3
    <2> QED BY <2>2, <2>3
<1> QED BY <1>1 DEF NextFrame

\* Starting twice requests one frame.
LEMMA StartKeeps ==
    ASSUME FrameLoop, running \in BOOLEAN, raf \in Frames \cup {NoFrame}, StartSignal
    PROVE  FrameLoop' /\ running' = TRUE /\ raf' \in Frames /\ frames' \subseteq Frames
<1>1. CASE running
    BY <1>1 DEF StartSignal, FrameLoop
<1>2. CASE ~running
    <2>1. NextFrame \in Frames
        BY <1>2, NextFrameFree DEF FrameLoop, Frames
    <2> QED BY <1>2, <2>1 DEF StartSignal, RequestFrame, FrameLoop
<1> QED BY <1>1, <1>2

\* Stopping cancels the frame there is.
LEMMA StopKeeps ==
    ASSUME FrameLoop, running \in BOOLEAN, StopSignal
    PROVE  FrameLoop' /\ running' = FALSE /\ frames' = {} /\ raf' = raf
BY DEF StopSignal, FrameLoop

LEMMA LandingInvInit == LandingInit => LandingInv
<1> SUFFICES ASSUME LandingInit PROVE LandingInv
    OBVIOUS
<1>1. FrameLoop /\ Stopped /\ OnePanel
    BY DEF LandingInit, FrameLoop, Stopped, OnePanel
<1>2. content \subseteq {"sections"} \cup PricePanels
    BY DEF LandingInit, PricePanel, PricePanels
<1>3. LandingTypeOK
    BY <1>2, EntriesAssumption DEF LandingInit, LandingTypeOK
<1> QED BY <1>1, <1>3 DEF LandingInv

LEMMA LandingInvStep == LandingInv /\ [LandingNext]_landingVars => LandingInv'
<1> SUFFICES ASSUME LandingInv, [LandingNext]_landingVars PROVE LandingInv'
    OBVIOUS
<1>0. FrameLoop /\ Stopped /\ running \in BOOLEAN /\ raf \in Frames \cup {NoFrame}
    BY DEF LandingInv, LandingTypeOK
<1> DEFINE RevealType == /\ enabled \in BOOLEAN /\ content \subseteq {"sections"} \cup PricePanels
                         /\ revealed \subseteq content /\ observed \subseteq content
<1>1. CASE MountPage
    <2>1. FrameLoop' /\ running' \in BOOLEAN /\ raf' \in Frames \cup {NoFrame} /\ frames' \subseteq Frames
        BY <1>0, <1>1, StartKeeps DEF MountPage, MountSignal, LandingInv, LandingTypeOK, FrameLoop
    <2>2. RevealType'
        BY <1>1 DEF MountPage, InitReveal, LandingInv, LandingTypeOK, Animated, Browsers
    <2>3. observer' \in BOOLEAN
        BY <1>1 DEF MountPage, MountSignal, LandingInv, LandingTypeOK, Animated, Browsers
    <2>4. mounted' = "yes" /\ UNCHANGED <<browser, pricing, controls, content>>
        BY <1>1 DEF MountPage, InitReveal
    <2> QED BY <2>1, <2>2, <2>3, <2>4 DEF controls, LandingInv, LandingTypeOK, Stopped, OnePanel
<1>2. CASE PlansArrive
    <2>1. RevealType' /\ OnePanel' /\ pricing' \in {"loaded", "empty", "error"}
        <3>1. /\ content = {"sections", "skeleton"} /\ pricing' \in {"loaded", "empty", "error"}
              /\ content' = {"sections", PricePanel(pricing')}
              /\ revealed' = revealed \ {"skeleton"} /\ observed' = observed \ {"skeleton"}
              /\ UNCHANGED enabled
            BY <1>2 DEF PlansArrive, LandingInv, OnePanel, PricePanel, PricePanels
        <3>2. content' \subseteq {"sections"} \cup PricePanels
            BY <3>1 DEF PricePanel, PricePanels
        <3> QED BY <3>1, <3>2 DEF LandingInv, LandingTypeOK, OnePanel
    <2> QED BY <1>2, <2>1 DEF PlansArrive, canvas, controls, LandingInv, LandingTypeOK, FrameLoop, Stopped, OnePanel
<1>3. CASE UnmountPage
    <2>1. FrameLoop' /\ running' = FALSE /\ frames' = {} /\ raf' = raf
        BY <1>0, <1>3, StopKeeps DEF UnmountPage
    <2> QED BY <1>3, <2>1 DEF UnmountPage, StopSignal, controls, LandingInv, LandingTypeOK, Stopped, OnePanel
<1>4. CASE Frame
    <2>1. FrameLoop' /\ raf' \in Frames \cup {NoFrame} /\ frames' \subseteq Frames
        <3>1. PICK f \in frames :
                IF running
                THEN raf' = NextFrame /\ frames' = (frames \ {f}) \cup {NextFrame}
                ELSE frames' = frames \ {f} /\ UNCHANGED raf
            BY <1>4 DEF Frame
        <3>2. running /\ frames = {raf} /\ f = raf /\ raf \in Frames
            BY <1>0, <3>1 DEF FrameLoop
        <3>3. NextFrame \in Frames
            BY <3>2, NextFrameFree
        <3>4. running' = running
            BY <1>4 DEF Frame
        <3> QED BY <3>1, <3>2, <3>3, <3>4 DEF FrameLoop
    <2> QED BY <1>4, <2>1 DEF Frame, reveal, controls, LandingInv, LandingTypeOK, Stopped, OnePanel
<1>5. CASE SignalSeen
    <2>1. observer /\ mounted # "unmounted"
        BY <1>5 DEF SignalSeen, LandingInv, Stopped
    <2>2. FrameLoop' /\ running' \in BOOLEAN /\ raf' \in Frames \cup {NoFrame} /\ frames' \subseteq Frames
        <3>1. CASE StartSignal
            BY <1>0, <3>1, StartKeeps
        <3>2. CASE StopSignal
            BY <1>0, <3>2, StopKeeps
        <3> QED BY <1>5, <3>1, <3>2 DEF SignalSeen
    <2> QED BY <1>5, <2>1, <2>2 DEF SignalSeen, reveal, controls, LandingInv, LandingTypeOK, Stopped, OnePanel
<1>6. CASE ScrolledIntoView
    BY <1>6 DEF ScrolledIntoView, canvas, controls, LandingInv, LandingTypeOK, FrameLoop, Stopped, OnePanel
<1>7. CASE ToggleMenu \/ CloseMenuLink
    <2>1. menuOpen' \in BOOLEAN
        BY <1>7 DEF ToggleMenu, CloseMenuLink
    <2>2. UNCHANGED <<browser, mounted, canvas, reveal, pricing, openQuestion>>
        BY <1>7 DEF ToggleMenu, CloseMenuLink
    <2> QED BY <2>1, <2>2 DEF canvas, reveal, LandingInv, LandingTypeOK, FrameLoop, Stopped, OnePanel
<1>8. CASE ToggleQuestion
    BY <1>8 DEF ToggleQuestion, canvas, reveal, LandingInv, LandingTypeOK, FrameLoop, Stopped, OnePanel
<1>9. CASE UNCHANGED landingVars
    BY <1>9 DEF landingVars, canvas, reveal, controls, LandingInv, LandingTypeOK, FrameLoop, Stopped, OnePanel
<1> QED BY <1>1, <1>2, <1>3, <1>4, <1>5, <1>6, <1>7, <1>8, <1>9 DEF LandingNext

\* However the signal enters and leaves the view between frames, however often it
\* is started and stopped: one animation loop runs at most, stopping cancels it, and
\* nothing of the page goes on once it is unmounted.
THEOREM LandingOneLoop == LandingSpec => []OneFrameLoop
<1>1. LandingInv => OneFrameLoop
    <2> SUFFICES ASSUME LandingInv PROVE OneFrameLoop
        OBVIOUS
    <2>1. CASE running
        BY <2>1, FS_Singleton DEF LandingInv, FrameLoop, Stopped, OneFrameLoop
    <2>2. CASE ~running
        BY <2>2, FS_EmptySet DEF LandingInv, FrameLoop, Stopped, OneFrameLoop
    <2> QED BY <2>1, <2>2
<1> QED BY <1>1, LandingInvInit, LandingInvStep, PTL DEF LandingSpec

-----------------------------------------------------------------------------
(* PageShell.  The inductive invariant: a dialog opens only where nothing   *)
(* covers the page, so that there is one focus scope at most, which has     *)
(* saved a page that scrolls and an element outside of every dialog.        *)

NothingOpen ==
    /\ scopes = {} /\ ~DrawerOpen /\ asked = NotAsked /\ ~report
    /\ overflow = "" /\ focus \in {"body", "opener", "menu"} /\ Connected(focus, isMobile, opener)

Scope(m) == [modal |-> m, focus |-> IF m = "drawer" THEN "menu" ELSE "opener", overflow |-> ""]

OneOpen(m) ==
    /\ scopes = {Scope(m)}
    /\ DrawerOpen <=> m = "drawer"
    /\ asked # NotAsked <=> m = "confirm"
    /\ report <=> m = "report"
    /\ overflow = "hidden" /\ (focus = m \/ (asked = "busy" /\ focus = "body"))

ShellInv ==
    /\ ShellTypeOK /\ (copied => timer)
    /\ NothingOpen \/ \E m \in Modals : OneOpen(m)

\* The variables no dialog is about.
PlainTypes ==
    /\ isMobile \in BOOLEAN /\ navOpen \in BOOLEAN /\ place \in Workspaces
    /\ asked \in {NotAsked, "asked", "busy"} /\ report \in BOOLEAN /\ crashed \in BOOLEAN
    /\ opener \in BOOLEAN /\ copied \in BOOLEAN /\ timer \in BOOLEAN

\* The layers tell the types of the rest, so a step has to show no more than these.
LEMMA ShellInvNext ==
    ASSUME PlainTypes', (copied => timer)', NothingOpen' \/ \E m \in Modals : OneOpen(m)'
    PROVE  ShellInv'
<1>1. CASE NothingOpen'
    BY <1>1 DEF NothingOpen, PlainTypes, ShellTypeOK, ShellInv
<1>2. ASSUME NEW m \in Modals, OneOpen(m)' PROVE ShellInv'
    <2>1. Scope(m) \in [modal : Modals, focus : {"opener", "menu"}, overflow : {"", "hidden"}]
        BY DEF Scope
    <2> QED BY <1>2, <2>1 DEF OneOpen, PlainTypes, ShellTypeOK, ShellInv, Scope
<1> QED BY <1>1, <1>2

\* A dialog opens over a page that nothing covers.
LEMMA OpenScopeKeeps ==
    ASSUME ShellInv, Reachable, NEW m \in Modals, OpenScope(m, Scope(m).focus),
           DrawerOpen' <=> m = "drawer", asked' # NotAsked <=> m = "confirm", report' <=> m = "report"
    PROVE  OneOpen(m)'
<1>1. scopes = {} /\ overflow = ""
    BY DEF ShellInv, NothingOpen, OneOpen, Reachable, Inert, Covered, Modals
<1> QED BY <1>1 DEF OpenScope, OneOpen, Scope

\* Closing it gives the page back, however the window and the opener have changed.
LEMMA CloseScopeKeeps ==
    ASSUME NEW m \in Modals, OneOpen(m), CloseScope(m), ~DrawerOpen', asked' = NotAsked, ~report'
    PROVE  NothingOpen'
<1> DEFINE saved == CHOOSE s \in scopes : s.modal = m
<1>1. Scope(m).modal = m /\ Scope(m).focus \in {"opener", "menu"} /\ Scope(m).overflow = ""
    BY DEF Scope
<1>2. saved = Scope(m)
    BY <1>1 DEF OneOpen
<1>3. /\ scopes' = scopes \ {saved} /\ overflow' = saved.overflow
      /\ focus' = IF Connected(saved.focus, isMobile', opener') THEN saved.focus ELSE "body"
    BY DEF CloseScope
<1> HIDE DEF saved
<1>4. scopes' = {} /\ overflow' = ""
    BY <1>1, <1>2, <1>3 DEF OneOpen
<1>5. focus' \in {"body", "opener", "menu"} /\ Connected(focus', isMobile', opener')
    BY <1>1, <1>2, <1>3 DEF Connected
<1> QED BY <1>4, <1>5 DEF NothingOpen

\* What changes neither the dialogs nor the page they lock keeps them as they are.
LEMMA LayersStand ==
    ASSUME ShellInv, UNCHANGED <<scopes, overflow>>,
           DrawerOpen' <=> DrawerOpen, asked' = asked, report' <=> report,
           NothingOpen => focus' \in {"body", "opener", "menu"} /\ Connected(focus', isMobile', opener'),
           ~Reachable => focus' = focus
    PROVE  NothingOpen' \/ \E m \in Modals : OneOpen(m)'
<1>1. CASE NothingOpen
    BY <1>1 DEF NothingOpen
<1>2. ASSUME NEW m \in Modals, OneOpen(m) PROVE OneOpen(m)'
    BY <1>2 DEF OneOpen, Scope, Reachable, Inert, Covered, Modals
<1> QED BY <1>1, <1>2 DEF ShellInv

LEMMA ShellInvInit == ShellInit => ShellInv
BY DEF ShellInit, ShellInv, ShellTypeOK, NothingOpen, DrawerOpen, Connected, Workspaces

LEMMA ShellInvStep == ShellInv /\ [ShellNext]_shellVars => ShellInv'
<1> SUFFICES ASSUME ShellInv, [ShellNext]_shellVars PROVE ShellInv'
    OBVIOUS
<1> DEFINE Layers == NothingOpen \/ \E m \in Modals : OneOpen(m)
<1>0. PlainTypes /\ (copied => timer) /\ Layers
    BY DEF ShellInv, ShellTypeOK, PlainTypes
<1>a. /\ DrawerOpen => OneOpen("drawer")
      /\ asked # NotAsked => OneOpen("confirm")
      /\ report => OneOpen("report")
      /\ Reachable <=> NothingOpen
    BY <1>0 DEF NothingOpen, OneOpen, Reachable, Inert, Covered, Modals
<1>b. Modals = {"drawer", "confirm", "report"}
    BY DEF Modals
<1>c. ~NothingOpen => focus \in {"drawer", "confirm", "report", "body"}
    BY <1>0 DEF OneOpen, Modals
<1>1. CASE OpenMenu
    <2>1. OneOpen("drawer")'
        BY <1>a, <1>b, <1>1, OpenScopeKeeps DEF OpenMenu, DrawerOpen, NothingOpen, Scope, modals
    <2>2. PlainTypes' /\ (copied => timer)'
        BY <1>0, <1>1 DEF OpenMenu, PlainTypes, modals, button
    <2> QED BY <1>b, <2>1, <2>2, ShellInvNext
<1>2. CASE CloseMenu
    <2>1. NothingOpen'
        BY <1>a, <1>b, <1>2, CloseScopeKeeps DEF CloseMenu, DrawerOpen, OneOpen, modals
    <2>2. PlainTypes' /\ (copied => timer)'
        BY <1>0, <1>2 DEF CloseMenu, PlainTypes, modals, button
    <2> QED BY <2>1, <2>2, ShellInvNext
<1>3. CASE Resize
    <2>1. PlainTypes' /\ (copied => timer)' /\ ~DrawerOpen' /\ UNCHANGED <<asked, report, opener>>
        BY <1>0, <1>3 DEF Resize, PlainTypes, DrawerOpen, modals, button
    <2>2. Layers'
        <3>1. CASE DrawerOpen
            BY <1>a, <1>b, <1>3, <2>1, <3>1, CloseScopeKeeps DEF Resize, OneOpen
        <3>2. CASE ~DrawerOpen
            <4>1. UNCHANGED <<scopes, overflow>> /\ focus' = IF focus = "menu" THEN "body" ELSE focus
                BY <1>3, <3>2 DEF Resize
            <4>2. /\ NothingOpen => focus' \in {"body", "opener"} /\ Connected(focus', isMobile', opener')
                  /\ ~Reachable => focus' = focus
                BY <1>a, <1>c, <2>1, <4>1 DEF NothingOpen, Connected
            <4> QED BY <2>1, <3>2, <4>1, <4>2, LayersStand
        <3> QED BY <3>1, <3>2
    <2> QED BY <2>1, <2>2, ShellInvNext
<1>4. CASE SelectPlace
    <2>1. PlainTypes' /\ (copied => timer)' /\ ~DrawerOpen' /\ UNCHANGED <<asked, report>>
        BY <1>0, <1>4 DEF SelectPlace, PlainTypes, DrawerOpen, modals
    <2>2. Layers'
        <3>1. CASE DrawerOpen
            BY <1>a, <1>b, <1>4, <2>1, <3>1, CloseScopeKeeps DEF SelectPlace, OneOpen
        <3>2. CASE ~DrawerOpen
            <4>1. Reachable /\ UNCHANGED <<scopes, overflow>> /\ focus' = "body"
                BY <1>4, <3>2 DEF SelectPlace, DrawerOpen
            <4> QED BY <2>1, <3>2, <4>1, LayersStand DEF Connected
        <3> QED BY <3>1, <3>2
    <2> QED BY <2>1, <2>2, ShellInvNext
<1>5. CASE AskConfirm
    <2>1. OneOpen("confirm")'
        BY <1>a, <1>b, <1>5, OpenScopeKeeps DEF AskConfirm, AtWork, DrawerOpen, NothingOpen, NotAsked, Scope, drawer
    <2>2. PlainTypes' /\ (copied => timer)'
        BY <1>0, <1>5 DEF AskConfirm, PlainTypes, drawer, button
    <2> QED BY <1>b, <2>1, <2>2, ShellInvNext
<1>6. CASE OpenReportModal
    <2>1. OneOpen("report")'
        BY <1>a, <1>b, <1>6, OpenScopeKeeps DEF OpenReportModal, AtWork, DrawerOpen, NothingOpen, Scope, drawer
    <2>2. PlainTypes' /\ (copied => timer)'
        BY <1>0, <1>6 DEF OpenReportModal, PlainTypes, drawer, button
    <2> QED BY <1>b, <2>1, <2>2, ShellInvNext
<1>7. CASE CancelAsked \/ ActionEnds
    <2>1. /\ asked # NotAsked /\ asked' = NotAsked /\ opener' \in {opener, FALSE}
          /\ UNCHANGED <<isMobile, navOpen, place, report, crashed, copied, timer>>
          /\ CloseScope("confirm")
        BY <1>7 DEF CancelAsked, ActionEnds, NotAsked, drawer, button
    <2>2. NothingOpen'
        BY <1>a, <1>b, <2>1, CloseScopeKeeps DEF DrawerOpen, OneOpen
    <2>3. PlainTypes' /\ (copied => timer)'
        BY <1>0, <2>1 DEF PlainTypes
    <2> QED BY <2>2, <2>3, ShellInvNext
<1>8. CASE CloseReportModal
    <2>1. NothingOpen'
        BY <1>a, <1>b, <1>8, CloseScopeKeeps DEF CloseReportModal, DrawerOpen, OneOpen, drawer
    <2>2. PlainTypes' /\ (copied => timer)'
        BY <1>0, <1>8 DEF CloseReportModal, PlainTypes, drawer, button
    <2> QED BY <2>1, <2>2, ShellInvNext
<1>9. CASE Retry \/ Copy \/ TimerEnds
    <2>1. /\ UNCHANGED <<isMobile, navOpen, place, asked, report, scopes, overflow, focus, opener>>
          /\ crashed' \in {crashed, FALSE}
        BY <1>9 DEF Retry, Copy, TimerEnds, drawer, modals, locks
    <2>2. PlainTypes' /\ (copied => timer)'
        <3>1. \/ UNCHANGED <<copied, timer>>
              \/ copied' = TRUE /\ timer' = TRUE
              \/ copied' = FALSE /\ timer' = FALSE
            BY <1>9 DEF Retry, Copy, TimerEnds, button
        <3>2. copied' \in BOOLEAN /\ timer' \in BOOLEAN /\ (copied => timer)'
            <4>1. copied \in BOOLEAN /\ timer \in BOOLEAN
                BY <1>0 DEF PlainTypes
            <4>2. CASE UNCHANGED <<copied, timer>>
                BY <1>0, <4>1, <4>2
            <4>3. CASE copied' = TRUE /\ timer' = TRUE
                BY <4>3
            <4>4. CASE copied' = FALSE /\ timer' = FALSE
                BY <4>4
            <4> QED BY <3>1, <4>2, <4>3, <4>4
        <3>3. crashed' \in BOOLEAN
            BY <1>0, <2>1 DEF PlainTypes
        <3> QED BY <1>0, <2>1, <3>2, <3>3 DEF PlainTypes
    <2>3. Layers'
        BY <2>1, LayersStand DEF DrawerOpen, NothingOpen
    <2> QED BY <2>2, <2>3, ShellInvNext
<1>10. CASE Crash
    <2>1. /\ PlainTypes' /\ (copied => timer)' /\ asked' = NotAsked /\ ~report'
          /\ opener' = FALSE /\ UNCHANGED <<isMobile, navOpen>>
        BY <1>0, <1>10 DEF Crash, PlainTypes, drawer
    <2>2. Layers'
        <3>1. CASE asked # NotAsked
            BY <1>a, <1>b, <1>10, <2>1, <3>1, CloseScopeKeeps DEF Crash, OneOpen, DrawerOpen
        <3>2. CASE asked = NotAsked /\ report
            BY <1>a, <1>b, <1>10, <2>1, <3>2, CloseScopeKeeps DEF Crash, OneOpen, DrawerOpen
        <3>3. CASE asked = NotAsked /\ ~report
            <4>1. UNCHANGED <<scopes, overflow>> /\ focus' = IF focus = "opener" THEN "body" ELSE focus
                BY <1>10, <3>3 DEF Crash
            <4>2. /\ NothingOpen => focus' \in {"body", "menu"} /\ Connected(focus', isMobile', opener')
                  /\ ~Reachable => focus' = focus
                BY <1>a, <1>c, <2>1, <4>1 DEF NothingOpen, Connected
            <4> QED BY <2>1, <3>3, <4>1, <4>2, LayersStand DEF DrawerOpen
        <3> QED BY <3>1, <3>2, <3>3
    <2> QED BY <2>1, <2>2, ShellInvNext
<1>11. CASE ConfirmAsked
    <2>1. OneOpen("confirm")'
        BY <1>a, <1>11 DEF ConfirmAsked, OneOpen, DrawerOpen, NotAsked, Scope, drawer
    <2>2. PlainTypes' /\ (copied => timer)'
        BY <1>0, <1>11 DEF ConfirmAsked, PlainTypes, drawer, button
    <2> QED BY <1>b, <2>1, <2>2, ShellInvNext
<1>12. CASE Tab
    <2>1. PICK m \in Modals : OneOpen(m)
        BY <1>0, <1>12 DEF Tab, NothingOpen
    <2>2. Scope(m).modal = m
        BY DEF Scope
    <2>3. OneOpen(m)'
        BY <1>12, <2>1, <2>2 DEF Tab, OneOpen, DrawerOpen, Scope, drawer, modals
    <2>4. PlainTypes' /\ (copied => timer)'
        BY <1>0, <1>12 DEF Tab, PlainTypes, drawer, modals, button
    <2> QED BY <2>3, <2>4, ShellInvNext
<1>13. CASE UNCHANGED shellVars
    BY <1>13 DEF shellVars, ShellInv, ShellTypeOK, NothingOpen, OneOpen, DrawerOpen, Scope
<1> QED BY <1>1, <1>2, <1>3, <1>4, <1>5, <1>6, <1>7, <1>8, <1>9, <1>10, <1>11, <1>12, <1>13 DEF ShellNext

\* However drawer, dialogs, resizes, answers and crashes follow each other, every
\* dialog that closes gives the page back as it was (useDialogFocus.js:59-64).
THEOREM PageGivenBack == ShellSpec => []ScrollRestored
<1>1. ShellInv => ScrollRestored
    <2> SUFFICES ASSUME ShellInv PROVE ScrollRestored
        OBVIOUS
    <2>1. CASE NothingOpen
        <3>1. OnScreen = {} /\ {s.modal : s \in scopes} = {}
            BY <2>1 DEF NothingOpen, OnScreen, Modals
        <3> QED BY <2>1, <3>1 DEF NothingOpen, ShellInv, ScrollRestored, Modals
    <2>2. ASSUME NEW m \in Modals, OneOpen(m) PROVE ScrollRestored
        <3>1. Scope(m).modal = m
            BY DEF Scope
        <3>2. OnScreen = {m} /\ {s.modal : s \in scopes} = {m}
            BY <2>2, <3>1 DEF OneOpen, OnScreen, Modals
        <3> QED BY <2>2, <3>2 DEF OneOpen, ShellInv, ScrollRestored
    <2> QED BY <2>1, <2>2 DEF ShellInv
<1> QED BY <1>1, ShellInvInit, ShellInvStep, PTL DEF ShellSpec

-----------------------------------------------------------------------------
(* CustomerPortal.  The inductive invariant: of what is under way one       *)
(* request at most belongs to the mounted view, every load does, answers    *)
(* are about what was asked, and no order is shown newer than it is.        *)

OrderRecords == [id : Orders, status : OrderStatuses, rev : 0..MaxOrderRev]
PortalPageTypes ==
    [view : Views, loading : BOOLEAN, busy : BOOLEAN, record : PortalRecords]
PortalRequests ==
    [kind : {"load", "proof", "renew"}, id : Orders \cup Services \cup {Absent}, mine : BOOLEAN,
     served : BOOLEAN, record : PortalRecords]

PortalTyped ==
    /\ address \in Addresses /\ page.view = address[1]
    /\ page \in PortalPageTypes /\ file \in Files \cup {Absent}
    /\ wire \subseteq PortalRequests
    /\ orders \in [Orders -> OrderRecords] /\ \A o \in Orders : orders[o].id = o

OneMine ==
    /\ \A r, s \in wire : r.mine /\ s.mine => r = s
    /\ \A r \in wire : r.kind = "load" => r.mine
    /\ \A r \in wire : r.mine /\ r.kind = "renew" => page.view = "subscription-detail"

FlagsTrue ==
    /\ page.loading <=> \E r \in wire : r.kind = "load"
    /\ page.busy => \E r \in wire : r.mine
    /\ \A r \in wire : r.mine /\ r.kind # "load" => page.busy

AsAsked ==
    \A r \in wire :
        /\ r.kind = "proof" => r.id \in Orders
        /\ r.kind = "renew" /\ r.served => r.record \in OrderRecords
        /\ r.kind = "load" /\ r.served => r.record.id = r.id

\* The order on a page, the load that may replace it, and the backend's order.
RecordForward ==
    page.view = "order-detail" =>
        /\ page.record # Absent =>
            page.record \in OrderRecords /\ page.record.rev <= orders[page.record.id].rev
        /\ \A r \in wire : r.kind = "load" =>
            /\ r.id \in Orders
            /\ r.served =>
                /\ r.record \in OrderRecords /\ r.record.id = r.id /\ r.record.rev <= orders[r.id].rev
                /\ page.record # Absent /\ page.record.id = r.id => page.record.rev <= r.record.rev

PortalInv == PortalTyped /\ OneMine /\ FlagsTrue /\ AsAsked /\ RecordForward

-----------------------------------------------------------------------------
(* CustomerPortal: what the steps have in common.                           *)

\* The backend's orders only move on.
OrdersGrow ==
    /\ orders' \in [Orders -> OrderRecords]
    /\ \A o \in Orders :
        orders'[o].id = o /\ orders[o].rev <= orders'[o].rev

LEMMA GrowthFacts ==
    ASSUME PortalInv, OrdersGrow
    PROVE  \A o \in Orders : /\ orders[o].rev \in Nat /\ orders'[o].rev \in Nat
                             /\ orders[o].rev <= orders'[o].rev
<1>1. \A o \in Orders : orders[o] \in OrderRecords /\ orders'[o] \in OrderRecords
    BY DEF OrdersGrow, PortalInv, PortalTyped
<1>2. 0..MaxOrderRev \subseteq Nat
    BY PortalAssumption
<1> QED BY <1>1, <1>2 DEF OrdersGrow, OrderRecords

LEMMA StandingOrders ==
    ASSUME PortalInv, UNCHANGED orders
    PROVE  OrdersGrow
<1>1. \A o \in Orders : orders[o] \in OrderRecords /\ orders[o].id = o
    BY DEF PortalInv, PortalTyped
<1>2. \A o \in Orders : orders[o].rev \in Int
    BY <1>1, PortalAssumption DEF OrderRecords
<1> QED BY <1>1, <1>2 DEF PortalInv, PortalTyped, OrdersGrow

LEMMA BecomesGrows ==
    ASSUME PortalInv, NEW o \in Orders, orders[o].rev < MaxOrderRev,
           NEW status \in OrderStatuses, orders' = Becomes(o, status)
    PROVE  OrdersGrow
<1>1. \A p \in Orders : orders[p] \in OrderRecords /\ orders[p].id = p
    BY DEF PortalInv, PortalTyped
<1>2. \A p \in Orders : orders[p].rev \in 0..MaxOrderRev
    BY <1>1 DEF OrderRecords
<1>3. orders[o].rev + 1 \in 0..MaxOrderRev
    BY <1>2, PortalAssumption
<1>4. DOMAIN orders = Orders
    BY DEF PortalInv, PortalTyped
<1>5. orders' = [orders EXCEPT ![o] = [id |-> o, status |-> status, rev |-> orders[o].rev + 1]]
    <2> DEFINE old == orders[o]
    <2>1. [old EXCEPT !.status = status] = [id |-> o, status |-> status, rev |-> old.rev]
        BY <1>1 DEF OrderRecords
    <2>2. [[id |-> o, status |-> status, rev |-> old.rev] EXCEPT !.rev = old.rev + 1] =
            [id |-> o, status |-> status, rev |-> old.rev + 1]
        OBVIOUS
    <2>3. [orders EXCEPT ![o].status = status, ![o].rev = @ + 1] =
            [orders EXCEPT ![o] = [[old EXCEPT !.status = status] EXCEPT !.rev = old.rev + 1]]
        BY <1>1, <1>4, <2>1
    <2> QED BY <2>1, <2>2, <2>3 DEF Becomes
<1>6. [id |-> o, status |-> status, rev |-> orders[o].rev + 1] \in OrderRecords
    BY <1>3 DEF OrderRecords
<1>7. orders' \in [Orders -> OrderRecords]
    BY <1>5, <1>6 DEF PortalInv, PortalTyped
<1>8. \A p \in Orders : orders'[p].id = p /\ orders[p].rev <= orders'[p].rev
    BY <1>1, <1>2, <1>4, <1>5
<1> QED BY <1>7, <1>8 DEF OrdersGrow

\* What a request is made of; a new one belongs to the mounted view.
LEMMA RequestFields ==
    ASSUME NEW r \in PortalRequests
    PROVE  /\ r.kind \in {"load", "proof", "renew"} /\ r.id \in Orders \cup Services \cup {Absent}
           /\ r.mine \in BOOLEAN /\ r.served \in BOOLEAN
           /\ r.record \in PortalRecords
BY DEF PortalRequests

LEMMA AskingFields ==
    ASSUME NEW kind \in {"load", "proof", "renew"}, NEW id \in Orders \cup Services \cup {Absent}
    PROVE  /\ Asking(kind, id) \in PortalRequests
           /\ Asking(kind, id).kind = kind /\ Asking(kind, id).id = id
           /\ Asking(kind, id).mine = TRUE /\ Asking(kind, id).served = FALSE
BY DEF Asking, PortalRequests, PortalRecords

LEMMA MountedFields ==
    ASSUME NEW view \in Views
    PROVE  /\ Mounted(view) \in PortalPageTypes /\ Mounted(view).view = view
           /\ Mounted(view).loading = TRUE /\ Mounted(view).busy = FALSE
           /\ Mounted(view).record = Absent
BY DEF Mounted, PortalPageTypes, PortalRecords

LEMMA AddressParts ==
    ASSUME NEW a \in Addresses
    PROVE  /\ a[1] \in Views /\ a[2] \in Orders \cup Services \cup {Absent}
           /\ a[1] = "order-detail" => a[2] \in Orders
BY DEF Addresses, Views, Lists

LEMMA RecordTypes ==
    /\ OrderRecords \subseteq PortalRecords
    /\ \A id \in Orders : id \notin Services /\ id # Absent
BY PortalAssumption DEF OrderRecords, PortalRecords

-----------------------------------------------------------------------------
(* CustomerPortal: the steps.                                               *)

\* The orders move on under what the pages and the answers hold.
LEMMA OrdersMove ==
    ASSUME PortalInv, OrdersGrow, UNCHANGED <<address, page, wire>>, file' \in Files \cup {Absent}
    PROVE  PortalInv'
<1>1. PortalTyped'
    BY DEF PortalInv, PortalTyped, OrdersGrow
<1>2. OneMine' /\ FlagsTrue'
    BY DEF PortalInv, OneMine, FlagsTrue
<1>3. AsAsked'
    BY DEF PortalInv, AsAsked
<1>4. RecordForward'
    <2>1. 0..MaxOrderRev \subseteq Nat
        BY PortalAssumption
    <2>2. ASSUME NEW rec \in OrderRecords, rec.rev <= orders[rec.id].rev
          PROVE  rec.rev <= orders'[rec.id].rev
        <3>1. rec.id \in Orders /\ rec.rev \in Nat
            BY <2>1 DEF OrderRecords
        <3> QED BY <2>2, <3>1, GrowthFacts
    <2> QED BY <2>2 DEF PortalInv, RecordForward
<1> QED BY <1>1, <1>2, <1>3, <1>4 DEF PortalInv

\* The backend answers a request of whichever page.
LEMMA AnswerKeeps ==
    ASSUME PortalInv, NEW r \in wire, NEW s \in PortalRequests, ~r.served, s.served,
           s.kind = r.kind, s.id = r.id, s.mine = r.mine,
           s.kind = "renew" => s.record \in OrderRecords,
           s.kind = "load" => s.record.id = s.id,
           s.kind = "load" /\ s.id \in Orders => s.record = orders[s.id],
           OrdersGrow, wire' = (wire \ {r}) \cup {s}, UNCHANGED <<address, page, file>>
    PROVE  PortalInv'
<1>1. PortalTyped'
    BY DEF PortalInv, PortalTyped, OrdersGrow
<1>2. OneMine' /\ FlagsTrue'
    BY DEF PortalInv, OneMine, FlagsTrue
<1>3. AsAsked'
    BY DEF PortalInv, AsAsked
<1>4. RecordForward'
    <2> SUFFICES ASSUME page.view = "order-detail"
                 PROVE  /\ page.record # Absent =>
                            page.record \in OrderRecords /\ page.record.rev <= orders'[page.record.id].rev
                        /\ \A q \in wire' : q.kind = "load" =>
                            /\ q.id \in Orders
                            /\ q.served =>
                                /\ q.record \in OrderRecords /\ q.record.id = q.id
                                /\ q.record.rev <= orders'[q.id].rev
                                /\ page.record # Absent /\ page.record.id = q.id =>
                                    page.record.rev <= q.record.rev
        BY DEF RecordForward
    <2>1. 0..MaxOrderRev \subseteq Nat
        BY PortalAssumption
    <2>2. ASSUME NEW rec \in OrderRecords, rec.rev <= orders[rec.id].rev
          PROVE  rec.rev <= orders'[rec.id].rev
        <3>1. rec.id \in Orders /\ rec.rev \in Nat
            BY <2>1 DEF OrderRecords
        <3> QED BY <2>2, <3>1, GrowthFacts
    <2>3. page.record # Absent =>
            /\ page.record \in OrderRecords /\ page.record.rev <= orders[page.record.id].rev
        BY DEF PortalInv, RecordForward
    <2>4. ASSUME NEW q \in wire, q.kind = "load"
          PROVE  /\ q.id \in Orders
                 /\ q.served =>
                     /\ q.record \in OrderRecords /\ q.record.id = q.id /\ q.record.rev <= orders[q.id].rev
                     /\ page.record # Absent /\ page.record.id = q.id => page.record.rev <= q.record.rev
        BY <2>4 DEF PortalInv, RecordForward
    <2>5. ASSUME s.kind = "load"
          PROVE  /\ s.id \in Orders /\ s.record = orders[s.id] /\ s.record \in OrderRecords
                 /\ s.record.id = s.id /\ s.record.rev <= orders'[s.id].rev
        BY <2>4, <2>5, GrowthFacts DEF PortalInv, PortalTyped
    <2> QED BY <2>2, <2>3, <2>4, <2>5
<1> QED BY <1>1, <1>2, <1>3, <1>4 DEF PortalInv

\* A load ends; it was the one request of this page.
LEMMA LoadEndsKeeps ==
    ASSUME PortalInv, NEW r \in wire, r.kind = "load", NEW record, LoadEnds(r, record),
           \/ record = page.record
           \/ r.served /\ record = r.record
    PROVE  PortalInv'
<1>1. wire' = wire \ {r} /\ UNCHANGED <<address, file, orders>> /\ OrdersGrow
    BY StandingOrders DEF LoadEnds
<1>2. page \in PortalPageTypes /\ r \in PortalRequests
    BY DEF PortalInv, PortalTyped
<1>3. record \in PortalRecords
    BY <1>2 DEF PortalPageTypes, PortalRequests
<1>4. /\ page' \in PortalPageTypes /\ page'.view = page.view /\ page'.loading = FALSE
      /\ page'.busy = FALSE /\ page'.record = record
    BY <1>2, <1>3 DEF LoadEnds, PortalPageTypes
<1>5. \A s \in wire' : ~s.mine /\ s.kind # "load" /\ s \in wire
    BY <1>1 DEF PortalInv, OneMine
<1>6. PortalTyped'
    BY <1>1, <1>4 DEF PortalInv, PortalTyped
<1>7. OneMine' /\ FlagsTrue'
    BY <1>4, <1>5 DEF OneMine, FlagsTrue
<1>8. AsAsked'
    BY <1>1, <1>4, <1>5 DEF PortalInv, AsAsked
<1>9. RecordForward'
    BY <1>1, <1>4, <1>5 DEF PortalInv, RecordForward
<1> QED BY <1>6, <1>7, <1>8, <1>9 DEF PortalInv

\* Press: the first request of an idle page.
LEMMA PressKeeps ==
    ASSUME PortalInv, NEW kind \in {"proof", "renew"}, Press(kind),
           kind = "proof" => page.view = "order-detail",
           kind = "renew" => page.view = "subscription-detail"
    PROVE  PortalInv'
<1> DEFINE s == Asking(kind, address[2])
<1>1. /\ wire' = wire \cup {s} /\ UNCHANGED <<address, file, orders>> /\ OrdersGrow
      /\ ~page.loading /\ ~page.busy /\ page' = [page EXCEPT !.busy = TRUE]
    BY StandingOrders DEF Press
<1>2. address[2] \in Orders \cup Services \cup {Absent} /\ (address[1] = "order-detail" => address[2] \in Orders)
    BY AddressParts DEF PortalInv, PortalTyped
<1>3. /\ s \in PortalRequests /\ s.kind = kind /\ s.id = address[2] /\ s.mine = TRUE
      /\ s.served = FALSE
    BY <1>2 DEF Asking, PortalRequests, PortalRecords
<1> HIDE DEF s
<1>4. /\ page' \in PortalPageTypes /\ page'.view = page.view /\ page'.loading = page.loading
      /\ page'.busy = TRUE /\ page'.record = page.record
    BY <1>1 DEF PortalInv, PortalTyped, PortalPageTypes
<1>5. \A q \in wire : ~q.mine /\ q.kind # "load"
    BY <1>1 DEF PortalInv, OneMine, FlagsTrue
<1>6. PortalTyped'
    BY <1>1, <1>3, <1>4 DEF PortalInv, PortalTyped
<1>7. OneMine' /\ FlagsTrue'
    <2>1. \A q \in wire' : q \in wire \/ q = s
        BY <1>1
    <2>2. s \in wire'
        BY <1>1
    <2>3. OneMine'
        BY <1>3, <1>4, <1>5, <2>1 DEF OneMine
    <2>4. page.loading \in BOOLEAN
        BY DEF PortalInv, PortalTyped, PortalPageTypes
    <2>5. FlagsTrue'
        BY <1>1, <1>3, <1>4, <1>5, <2>1, <2>2, <2>4 DEF FlagsTrue
    <2> QED BY <2>3, <2>5
<1>8. AsAsked'
    BY <1>1, <1>2, <1>3, <1>4 DEF PortalInv, PortalTyped, AsAsked
<1>9. RecordForward'
    BY <1>1, <1>3, <1>4 DEF PortalInv, RecordForward
<1> QED BY <1>6, <1>7, <1>8, <1>9 DEF PortalInv

\* An answer that ends an action without a load: its button is released.
LEMMA FailActionKeeps ==
    ASSUME PortalInv, NEW r \in wire, FailAction(r)
    PROVE  PortalInv'
<1>1. /\ wire' = wire \ {r} /\ UNCHANGED <<address, file, orders>> /\ OrdersGrow
      /\ page' = [page EXCEPT !.busy = @ /\ ~r.mine] /\ r.kind # "load"
    BY StandingOrders DEF FailAction
<1>2. r.mine \in BOOLEAN /\ page.busy \in BOOLEAN /\ page.loading \in BOOLEAN /\ page \in PortalPageTypes
    BY DEF PortalInv, PortalTyped, PortalPageTypes, PortalRequests
<1>3. /\ page' \in PortalPageTypes /\ page'.view = page.view /\ page'.loading = page.loading
      /\ page'.record = page.record
    BY <1>1, <1>2 DEF PortalPageTypes
<1>4. page'.busy = (page.busy /\ ~r.mine)
    BY <1>1, <1>2 DEF PortalPageTypes
<1>5. PortalTyped'
    BY <1>1, <1>3 DEF PortalInv, PortalTyped
<1>6. OneMine'
    BY <1>1, <1>3 DEF PortalInv, OneMine
<1>7. FlagsTrue'
    <2>1. page.loading <=> \E q \in wire' : q.kind = "load"
        BY <1>1 DEF PortalInv, FlagsTrue
    <2>2. CASE r.mine
        <3>1. \A q \in wire' : ~q.mine
            BY <1>1, <2>2 DEF PortalInv, OneMine
        <3>2. page'.busy = FALSE
            BY <1>4, <2>2
        <3> QED BY <1>3, <2>1, <3>1, <3>2 DEF FlagsTrue
    <2>3. CASE ~r.mine
        <3>1. page'.busy = page.busy
            BY <1>2, <1>4, <2>3
        <3>2. page.busy => \E q \in wire' : q.mine
            BY <1>1, <2>3 DEF PortalInv, FlagsTrue
        <3>3. \A q \in wire' : q.mine /\ q.kind # "load" => page.busy
            BY <1>1 DEF PortalInv, FlagsTrue
        <3> QED BY <1>3, <2>1, <3>1, <3>2, <3>3 DEF FlagsTrue
    <2> QED BY <1>2, <2>2, <2>3
<1>8. AsAsked'
    BY <1>1, <1>3 DEF PortalInv, AsAsked
<1>9. RecordForward'
    BY <1>1, <1>3 DEF PortalInv, RecordForward
<1> QED BY <1>5, <1>6, <1>7, <1>8, <1>9 DEF PortalInv

\* A proof was accepted: its page, if it is still there, reads its order anew.
LEMMA ReceiveProofKeeps ==
    ASSUME PortalInv, NEW r \in wire, ReceiveProof(r)
    PROVE  PortalInv'
<1> DEFINE s == Asking("load", address[2])
<1>1. /\ UNCHANGED <<address, orders>> /\ OrdersGrow
      /\ r.kind = "proof" /\ r.served
    BY StandingOrders DEF ReceiveProof
<1>2. CASE ~r.mine
    <2>1. wire' = wire \ {r} /\ UNCHANGED <<page, file>>
        BY <1>2 DEF ReceiveProof
    <2>2. PortalTyped' /\ OneMine' /\ AsAsked' /\ RecordForward'
        BY <1>1, <2>1 DEF PortalInv, PortalTyped, OneMine, AsAsked, RecordForward
    <2>3. FlagsTrue'
        BY <1>1, <1>2, <2>1 DEF PortalInv, FlagsTrue
    <2> QED BY <2>2, <2>3 DEF PortalInv
<1>3. CASE r.mine
    <2>1. /\ wire' = (wire \ {r}) \cup {s} /\ file' = Absent /\ page' = [page EXCEPT !.loading = TRUE]
        BY <1>3 DEF ReceiveProof
    <2>2. /\ address[2] \in Orders \cup Services \cup {Absent}
          /\ address[1] = "order-detail" => address[2] \in Orders
        BY AddressParts DEF PortalInv, PortalTyped
    <2>3. /\ s \in PortalRequests /\ s.kind = "load" /\ s.id = address[2] /\ s.mine = TRUE
          /\ s.served = FALSE
        BY <2>2, AskingFields
    <2> HIDE DEF s
    <2>4. /\ page' \in PortalPageTypes /\ page'.view = page.view /\ page'.loading = TRUE
          /\ page'.busy = page.busy /\ page'.record = page.record
        BY <2>1 DEF PortalInv, PortalTyped, PortalPageTypes
    <2>5. page.busy
        BY <1>1, <1>3 DEF PortalInv, FlagsTrue
    <2>6. \A q \in wire' : q = s \/ (q \in wire /\ ~q.mine /\ q.kind # "load")
        BY <1>3, <2>1 DEF PortalInv, OneMine
    <2>7. PortalTyped'
        BY <1>1, <2>1, <2>3, <2>4 DEF PortalInv, PortalTyped
    <2>8. OneMine' /\ FlagsTrue'
        <3>1. s \in wire'
            BY <2>1
        <3>2. OneMine'
            BY <2>3, <2>6 DEF OneMine
        <3> QED BY <2>3, <2>4, <2>5, <3>1, <3>2 DEF FlagsTrue
    <2>9. AsAsked'
        BY <1>1, <2>3, <2>4, <2>6 DEF PortalInv, AsAsked
    <2>10. RecordForward'
        BY <1>1, <2>2, <2>3, <2>4, <2>6 DEF PortalInv, PortalTyped, RecordForward
    <2> QED BY <2>7, <2>8, <2>9, <2>10 DEF PortalInv
<1>4. r.mine \in BOOLEAN
    BY DEF PortalInv, PortalTyped, PortalRequests
<1> QED BY <1>2, <1>3, <1>4

\* The router goes to another address.
LEMMA PushKeeps ==
    ASSUME PortalInv, NEW a \in Addresses, NEW requests \in SUBSET wire, Push(a, requests),
           a[1] = page.view => \A r \in wire \ requests : ~r.mine,
           UNCHANGED orders
    PROVE  PortalInv'
<1>1. address' = a /\ OrdersGrow
    BY StandingOrders DEF Push
<1>2. CASE a[1] = page.view
    <2>1. wire' = requests /\ UNCHANGED <<page, file>>
        BY <1>2 DEF Push
    <2>2. PortalTyped' /\ OneMine' /\ RecordForward'
        BY <1>1, <1>2, <2>1 DEF PortalInv, PortalTyped, OneMine, RecordForward
    <2>3. FlagsTrue'
        <3>1. \A r \in wire : r.mine => r \in requests
            BY <1>2
        <3>2. \A r \in wire : r.kind = "load" => r \in requests
            BY <3>1 DEF PortalInv, OneMine
        <3> QED BY <2>1, <3>1, <3>2 DEF PortalInv, FlagsTrue
    <2>4. AsAsked'
        BY <1>1, <1>2, <2>1 DEF PortalInv, AsAsked
    <2> QED BY <2>2, <2>3, <2>4 DEF PortalInv
<1>3. CASE a[1] # page.view
    <2> DEFINE s == Asking("load", a[2])
               Old(r) == [r EXCEPT !.mine = FALSE]
    <2>1. /\ page' = Mounted(a[1]) /\ file' = Absent
          /\ wire' = {Old(r) : r \in {q \in requests : q.kind # "load"}} \cup {s}
        BY <1>3 DEF Push
    <2>2. /\ a[1] \in Views /\ a[2] \in Orders \cup Services \cup {Absent}
          /\ a[1] = "order-detail" => a[2] \in Orders
        BY AddressParts
    <2>3. /\ s \in PortalRequests /\ s.kind = "load" /\ s.id = a[2] /\ s.mine = TRUE
          /\ s.served = FALSE
        BY <2>2, AskingFields
    <2>4. /\ page' \in PortalPageTypes /\ page'.view = a[1] /\ page'.loading = TRUE
          /\ page'.busy = FALSE /\ page'.record = Absent
        BY <2>1, <2>2, MountedFields
    <2>5. ASSUME NEW r \in requests
          PROVE  /\ Old(r) \in PortalRequests /\ Old(r).kind = r.kind /\ Old(r).id = r.id
                 /\ Old(r).mine = FALSE /\ Old(r).served = r.served
                 /\ Old(r).record = r.record
        BY DEF PortalInv, PortalTyped, PortalRequests
    <2> HIDE DEF s, Old
    <2>6. \A q \in wire' :
            \/ q = s
            \/ \E r \in wire : /\ q \in PortalRequests /\ q.kind = r.kind /\ q.kind # "load" /\ q.id = r.id
                               /\ q.mine = FALSE /\ q.served = r.served
                               /\ q.record = r.record
        <3> SUFFICES ASSUME NEW q \in wire', q # s
                     PROVE  \E r \in wire :
                               /\ q \in PortalRequests /\ q.kind = r.kind /\ q.kind # "load" /\ q.id = r.id
                               /\ q.mine = FALSE /\ q.served = r.served
                               /\ q.record = r.record
            OBVIOUS
        <3>1. PICK r \in requests : r.kind # "load" /\ q = Old(r)
            BY <2>1
        <3> QED BY <2>5, <3>1
    <2>7. s \in wire'
        BY <2>1
    <2>8. PortalTyped'
        BY <1>1, <2>1, <2>3, <2>4, <2>6 DEF PortalInv, PortalTyped
    <2>9. OneMine' /\ FlagsTrue'
        BY <2>3, <2>4, <2>6, <2>7 DEF OneMine, FlagsTrue
    <2>10. AsAsked'
        <3> SUFFICES ASSUME NEW q \in wire'
                     PROVE  /\ q.kind = "proof" => q.id \in Orders
                            /\ q.kind = "renew" /\ q.served => q.record \in OrderRecords
                            /\ q.kind = "load" /\ q.served => q.record.id = q.id
            BY DEF AsAsked
        <3>1. CASE q = s
            BY <2>3, <3>1
        <3>2. CASE q # s
            BY <2>6, <3>2 DEF PortalInv, AsAsked
        <3> QED BY <3>1, <3>2
    <2>11. RecordForward'
        BY <2>2, <2>3, <2>4, <2>6 DEF RecordForward
    <2> QED BY <2>8, <2>9, <2>10, <2>11 DEF PortalInv
<1> QED BY <1>2, <1>3

LEMMA ServeLoadKeeps ==
    ASSUME PortalInv, NEW r \in wire, ServeLoad(r)
    PROVE  PortalInv'
<1> DEFINE s == [r EXCEPT !.served = TRUE, !.record = RecordOf(r.id)]
<1>1. /\ r.kind = "load" /\ ~r.served /\ wire' = (wire \ {r}) \cup {s}
      /\ UNCHANGED <<address, page, file, orders>> /\ OrdersGrow
    BY StandingOrders DEF ServeLoad
<1>2. r \in PortalRequests
    BY DEF PortalInv, PortalTyped
<1>3. RecordOf(r.id).id = r.id
    <2>1. CASE r.id \in Orders
        BY <2>1 DEF PortalInv, PortalTyped, RecordOf
    <2>2. CASE r.id \notin Orders
        BY <2>2 DEF RecordOf
    <2> QED BY <2>1, <2>2
<1>4. RecordOf(r.id) \in PortalRecords
    <2>1. CASE r.id \in Orders
        BY <2>1, RecordTypes DEF PortalInv, PortalTyped, RecordOf
    <2>2. CASE r.id \notin Orders
        BY <1>2, <2>2, RequestFields DEF RecordOf, PortalRecords
    <2> QED BY <2>1, <2>2
<1>5. /\ s \in PortalRequests /\ s.kind = r.kind /\ s.id = r.id /\ s.mine = r.mine /\ s.served = TRUE
      /\ s.record = RecordOf(r.id)
    BY <1>2, <1>4 DEF PortalRequests
<1>6. s.id \in Orders => s.record = orders[s.id]
    BY <1>5 DEF RecordOf
<1> HIDE DEF s
<1> QED BY <1>1, <1>3, <1>5, <1>6, AnswerKeeps

\* The answers to a proof of payment and to a renewal.
LEMMA AnswerWithKeeps ==
    ASSUME PortalInv, NEW r \in wire, r.kind \in {"proof", "renew"}, ~r.served, NEW record \in PortalRecords,
           AnswerWith(r, record), OrdersGrow, UNCHANGED <<address, page, file>>,
           r.kind = "renew" => record \in OrderRecords
    PROVE  PortalInv'
<1> DEFINE s == [r EXCEPT !.served = TRUE, !.record = record]
<1>1. wire' = (wire \ {r}) \cup {s}
    BY DEF AnswerWith
<1>2. r \in PortalRequests
    BY DEF PortalInv, PortalTyped
<1>3. /\ s \in PortalRequests /\ s.kind = r.kind /\ s.id = r.id /\ s.mine = r.mine /\ s.served = TRUE
      /\ s.record = record
    BY <1>2 DEF PortalRequests
<1> HIDE DEF s
<1> QED BY <1>1, <1>2, <1>3, AnswerKeeps

LEMMA PortalInvInit == PortalInit => PortalInv
<1> SUFFICES ASSUME PortalInit PROVE PortalInv
    OBVIOUS
<1> DEFINE s == Asking("load", address[2])
<1>1. address \in Addresses /\ page = Mounted(address[1]) /\ file = Absent /\ wire = {s}
    BY DEF PortalInit
<1>2. PICK status \in [Orders -> OrderStatuses] :
        orders = [o \in Orders |-> [id |-> o, status |-> status[o], rev |-> 0]]
    BY DEF PortalInit
<1>3. /\ address[1] \in Views /\ address[2] \in Orders \cup Services \cup {Absent}
      /\ address[1] = "order-detail" => address[2] \in Orders
    BY <1>1, AddressParts
<1>4. s \in PortalRequests /\ s.kind = "load" /\ s.id = address[2] /\ s.mine = TRUE /\ s.served = FALSE
    BY <1>3, AskingFields
<1> HIDE DEF s
<1>5. /\ page \in PortalPageTypes /\ page.view = address[1] /\ page.loading = TRUE
      /\ page.busy = FALSE /\ page.record = Absent
    BY <1>1, <1>3, MountedFields
<1>6. PortalTyped
    <2>1. 0 \in 0..MaxOrderRev
        BY PortalAssumption
    <2>2. orders \in [Orders -> OrderRecords] /\ \A o \in Orders : orders[o].id = o
        BY <1>2, <2>1 DEF OrderRecords
    <2> QED BY <1>1, <1>4, <1>5, <2>2 DEF PortalTyped
<1>7. OneMine /\ FlagsTrue /\ AsAsked /\ RecordForward
    BY <1>1, <1>3, <1>4, <1>5 DEF OneMine, FlagsTrue, AsAsked, RecordForward
<1> QED BY <1>6, <1>7 DEF PortalInv

LEMMA PortalInvStep == PortalInv /\ [PortalNext]_portalVars => PortalInv'
<1> SUFFICES ASSUME PortalInv, [PortalNext]_portalVars PROVE PortalInv'
    OBVIOUS
<1>0. /\ wire \subseteq PortalRequests /\ page \in PortalPageTypes /\ address \in Addresses
      /\ page.view = address[1] /\ \A o \in Orders : orders[o] \in OrderRecords /\ orders[o].id = o
    BY DEF PortalInv, PortalTyped
<1>1. CASE Follow
    <2>1. PICK a \in Addresses : Push(a, wire) /\ UNCHANGED orders
        BY <1>1 DEF Follow
    <2> QED BY <2>1, PushKeeps
<1>2. CASE ChooseFile
    BY <1>2, OrdersMove, StandingOrders DEF ChooseFile
<1>3. CASE SubmitProof \/ Renew
    BY <1>3, PressKeeps DEF SubmitProof, CanSubmitProof, Renew
<1>4. CASE Review
    <2>1. PICK o \in Orders, status \in OrderStatuses :
            orders[o].rev < MaxOrderRev /\ orders' = Becomes(o, status)
        BY <1>4 DEF Review, OrderStatuses
    <2>2. OrdersGrow
        BY <2>1, BecomesGrows
    <2>3. UNCHANGED <<address, page, wire>> /\ file' \in Files \cup {Absent}
        BY <1>4 DEF Review, PortalInv, PortalTyped
    <2> QED BY <2>2, <2>3, OrdersMove
<1>5. ASSUME NEW r \in wire, Answering(r) PROVE PortalInv'
    <2>1. CASE ServeLoad(r)
        BY <2>1, ServeLoadKeeps
    <2>2. CASE ReceiveLoad(r) \/ FailLoad(r)
        BY <2>2, LoadEndsKeeps DEF ReceiveLoad, FailLoad
    <2>3. CASE AcceptProof(r)
        <3>1. r.id \in Orders
            BY <2>3 DEF AcceptProof, PortalInv, AsAsked
        <3>2. OrdersGrow
            BY <2>3, <3>1, BecomesGrows DEF AcceptProof, OrderStatuses
        <3>3. Absent \in PortalRecords
            BY DEF PortalRecords
        <3> QED BY <2>3, <3>2, <3>3, AnswerWithKeeps DEF AcceptProof
    <2>4. CASE ReceiveProof(r)
        BY <2>4, ReceiveProofKeeps
    <2>5. CASE AcceptRenewal(r)
        <3>1. r.kind = "renew" /\ ~r.served /\ UNCHANGED <<address, page, file>>
            BY <2>5 DEF AcceptRenewal
        <3>2. PICK o \in Orders : /\ orders[o].rev < MaxOrderRev /\ orders' = Becomes(o, "pending_payment")
                                 /\ AnswerWith(r, orders'[o])
            BY <2>5 DEF AcceptRenewal
        <3>3. OrdersGrow
            BY <3>2, BecomesGrows DEF OrderStatuses
        <3>4. orders'[o] \in OrderRecords
            BY <3>3 DEF OrdersGrow
        <3> QED BY <3>1, <3>2, <3>3, <3>4, RecordTypes, AnswerWithKeeps
    <2>6. CASE ReceiveRenewal(r)
        <3> DEFINE a == <<"order-detail", r.record.id>>
        <3>1. /\ r.kind = "renew" /\ r.served /\ Push(a, wire \ {r}) /\ UNCHANGED orders
            BY <2>6 DEF ReceiveRenewal
        <3>2. r.record.id \in Orders
            BY <3>1 DEF PortalInv, AsAsked, OrderRecords
        <3>3. a \in Addresses /\ a[1] = "order-detail"
            BY <3>2 DEF Addresses
        <3>4. a[1] = page.view => ~r.mine
            BY <3>1 DEF PortalInv, OneMine
        <3> HIDE DEF a
        <3>5. \A s \in wire \ (wire \ {r}) : s = r
            OBVIOUS
        <3> QED BY <3>1, <3>3, <3>4, <3>5, PushKeeps
    <2>7. CASE FailAction(r)
        BY <2>7, FailActionKeeps
    <2> QED BY <1>5, <2>1, <2>2, <2>3, <2>4, <2>5, <2>6, <2>7 DEF Answering
<1>6. CASE UNCHANGED portalVars
    BY <1>6, OrdersMove, StandingOrders DEF portalVars, PortalInv, PortalTyped
<1> QED BY <1>1, <1>2, <1>3, <1>4, <1>5, <1>6 DEF PortalNext

LEMMA PortalInvariant == PortalSpec => []PortalInv
<1> QED BY PortalInvInit, PortalInvStep, PTL DEF PortalSpec

-----------------------------------------------------------------------------
(* CustomerPortal: the theorems.                                            *)

\* The flags of the portal's pages tell the truth, wherever the customer starts and
\* goes while answers are under way (the finally blocks of OrderDetailView.vue).
THEOREM PagesHonest == PortalSpec => []PageHonest
<1>1. PortalInv => PageHonest
    <2> SUFFICES ASSUME PortalInv PROVE PageHonest
        OBVIOUS
    <2> DEFINE mine == {r \in wire : r.mine}
    <2>1. Cardinality(mine) <= 1
        <3>1. CASE mine = {}
            BY <3>1, FS_EmptySet
        <3>2. ASSUME NEW r \in mine PROVE Cardinality(mine) <= 1
            <4>1. mine = {r}
                BY DEF PortalInv, OneMine
            <4>2. Cardinality({r}) = 1
                BY FS_Singleton
            <4> QED BY <4>1, <4>2
        <3> QED BY <3>1, <3>2
    <2>2. page.loading <=> \E r \in wire : r.mine /\ r.kind = "load"
        BY DEF PortalInv, FlagsTrue, OneMine
    <2> QED BY <2>1, <2>2 DEF PortalInv, FlagsTrue, PageHonest
<1> QED BY <1>1, PortalInvariant, PTL

\* The action inside OrderForward.
OrderKept ==
    /\ page.view = "order-detail" /\ page'.view = page.view
          /\ page.record # Absent /\ page'.record # Absent /\ page.record.id = page'.record.id =>
        page.record.rev <= page'.record.rev
    /\ file # Absent /\ file' = Absent /\ page'.view = page.view /\ wire' # wire =>
        \E r \in wire \ wire' : r.kind = "proof" /\ r.served /\ r.mine

\* Only a load of this page brings another record, which is not older than the
\* one it replaces.
LEMMA RecordReplaced ==
    ASSUME PortalInv, PortalNext, page'.view = page.view
    PROVE  \/ page'.record = page.record
           \/ \E r \in wire : r.kind = "load" /\ r.served /\ page'.record = r.record
<1>0. page \in PortalPageTypes
    BY DEF PortalInv, PortalTyped
<1>1. ASSUME NEW a, NEW requests, Push(a, requests) PROVE page' = page
    <2>1. a[1] \in Views /\ a[1] # page.view => Mounted(a[1]).view = a[1]
        BY DEF Mounted
    <2>2. Mounted(a[1]).view = a[1]
        BY DEF Mounted
    <2> QED BY <1>1, <2>2 DEF Push
<1>2. CASE Follow
    BY <1>1, <1>2 DEF Follow
<1>3. CASE ChooseFile \/ Review
    BY <1>3 DEF ChooseFile, Review
<1>4. CASE SubmitProof \/ Renew
    BY <1>0, <1>4 DEF SubmitProof, Renew, Press, PortalPageTypes
<1>5. ASSUME NEW r \in wire, Answering(r)
      PROVE  \/ page'.record = page.record
             \/ r.kind = "load" /\ r.served /\ page'.record = r.record
    <2>1. CASE ReceiveLoad(r)
        BY <1>0, <2>1 DEF ReceiveLoad, LoadEnds, PortalPageTypes
    <2>2. CASE FailLoad(r)
        BY <1>0, <2>2 DEF FailLoad, LoadEnds, PortalPageTypes
    <2>3. CASE ReceiveProof(r) \/ FailAction(r)
        BY <1>0, <2>3 DEF ReceiveProof, FailAction, PortalPageTypes
    <2>4. CASE ReceiveRenewal(r)
        BY <1>1, <2>4 DEF ReceiveRenewal
    <2>5. CASE ServeLoad(r) \/ AcceptProof(r) \/ AcceptRenewal(r)
        BY <2>5 DEF ServeLoad, AcceptProof, AcceptRenewal
    <2> QED BY <1>5, <2>1, <2>2, <2>3, <2>4, <2>5 DEF Answering
<1> QED BY <1>2, <1>3, <1>4, <1>5 DEF PortalNext

\* Only the accepted proof of this page empties the list of files by itself.
LEMMA FileKept ==
    ASSUME PortalInv, PortalNext, file # Absent, file' = Absent, page'.view = page.view, wire' # wire
    PROVE  \E r \in wire \ wire' : r.kind = "proof" /\ r.served /\ r.mine
<1>1. ASSUME NEW a, NEW requests, Push(a, requests) PROVE FALSE
    <2>1. Mounted(a[1]).view = a[1]
        BY DEF Mounted
    <2> QED BY <1>1, <2>1 DEF Push
<1>2. PICK r \in wire : ReceiveProof(r)
    BY <1>1 DEF PortalNext, Follow, ChooseFile, SubmitProof, Renew, Press, Review, Answering, ServeLoad,
                ReceiveLoad, FailLoad, LoadEnds, AcceptProof, AcceptRenewal, ReceiveRenewal, FailAction
<1>3. /\ r.kind = "proof" /\ r.served /\ r.mine
      /\ wire' = (wire \ {r}) \cup {Asking("load", address[2])}
    BY <1>2 DEF ReceiveProof
<1>4. Asking("load", address[2]).kind = "load"
    BY DEF Asking
<1> QED BY <1>3, <1>4

\* An order on the page never goes back to an older state of itself, and a chosen
\* screenshot is not lost to a refusal, a failure or a reload (OrderDetailView.vue).
THEOREM OrdersMoveForward == PortalSpec => OrderForward
<1>1. PortalInv /\ [PortalNext]_portalVars => [OrderKept]_portalVars
    <2> SUFFICES ASSUME PortalInv, PortalNext PROVE OrderKept
        OBVIOUS
    <2>1. ASSUME page.view = "order-detail", page'.view = page.view, page.record # Absent,
                 page'.record # Absent, page.record.id = page'.record.id
          PROVE  page.record.rev <= page'.record.rev
        <3>1. CASE page'.record = page.record
            <4>1. page.record \in OrderRecords
                BY <2>1 DEF PortalInv, RecordForward
            <4>2. page.record.rev \in Int
                BY <4>1, PortalAssumption DEF OrderRecords
            <4> QED BY <3>1, <4>2
        <3>2. ASSUME NEW r \in wire, r.kind = "load", r.served, page'.record = r.record
              PROVE  page.record.rev <= page'.record.rev
            BY <2>1, <3>2 DEF PortalInv, RecordForward
        <3> QED BY <2>1, <3>1, <3>2, RecordReplaced
    <2> QED BY <2>1, FileKept DEF OrderKept
<1> QED BY <1>1, PortalInvariant, PTL DEF PortalSpec, OrderForward, OrderKept

\* The action inside AddressShown, and its two halves.
AddressKept == OfAddress' \/ (address'[1] = address[1] /\ address' # address)
ProofsOfShown == \A r \in wire' \ wire : r.mine /\ r.kind = "proof" /\ ~r.served => r.id = page.record.id

\* The router changes the address under the page, or mounts a page that reads its own.
LEMMA PushShows ==
    ASSUME PortalInv, OfAddress, NEW a \in Addresses, NEW requests \in SUBSET wire, Push(a, requests)
    PROVE  AddressKept /\ ProofsOfShown
<1>1. address' = a /\ page.view = address[1]
    BY DEF Push, PortalInv, PortalTyped
<1>2. CASE a[1] = page.view
    <2>1. wire' = requests /\ page' = page
        BY <1>2 DEF Push
    <2>2. CASE a = address
        BY <1>1, <2>1, <2>2 DEF OfAddress, AddressKept, ProofsOfShown
    <2>3. CASE a # address
        BY <1>1, <1>2, <2>1, <2>3 DEF AddressKept, ProofsOfShown
    <2> QED BY <2>2, <2>3
<1>3. CASE a[1] # page.view
    <2> DEFINE s == Asking("load", a[2])
               Old(r) == [r EXCEPT !.mine = FALSE]
    <2>1. /\ page' = Mounted(a[1])
          /\ wire' = {Old(r) : r \in {q \in requests : q.kind # "load"}} \cup {s}
        BY <1>3 DEF Push
    <2>2. page'.record = Absent
        BY <2>1 DEF Mounted
    <2>3. s.kind = "load" /\ s.id = a[2]
        BY DEF Asking
    <2>4. ASSUME NEW r \in requests PROVE Old(r).kind = r.kind /\ Old(r).mine = FALSE
        BY DEF PortalInv, PortalTyped, PortalRequests
    <2> HIDE DEF s, Old
    <2>5. \A q \in wire' : q = s \/ (q.kind # "load" /\ q.mine = FALSE)
        BY <2>1, <2>4
    <2>6. OfAddress'
        BY <1>1, <2>2, <2>3, <2>5 DEF OfAddress
    <2>7. ProofsOfShown
        BY <2>3, <2>5 DEF ProofsOfShown
    <2> QED BY <2>6, <2>7 DEF AddressKept
<1> QED BY <1>2, <1>3

\* What sends nothing but loads of this address, or nothing at all.
LEMMA SameAddressShows ==
    ASSUME OfAddress, UNCHANGED address,
           \/ page'.record = page.record
           \/ \E r \in wire : r.kind = "load" /\ page'.record.id = r.id,
           \A r \in wire' \ wire : r.kind = "load" => r.id = address[2],
           \A r \in wire' \ wire : r.kind = "proof" /\ ~r.served => r.id = page.record.id
    PROVE  AddressKept /\ ProofsOfShown
BY DEF OfAddress, AddressKept, ProofsOfShown

LEMMA AnswersShow ==
    ASSUME PortalInv, OfAddress, NEW r \in wire, Answering(r)
    PROVE  AddressKept /\ ProofsOfShown
<1>0. r \in PortalRequests /\ page \in PortalPageTypes
    BY DEF PortalInv, PortalTyped
<1>1. CASE ServeLoad(r)
    <2> DEFINE s == [r EXCEPT !.served = TRUE, !.record = RecordOf(r.id)]
    <2>1. UNCHANGED <<address, page>> /\ wire' = (wire \ {r}) \cup {s} /\ r.kind = "load"
        BY <1>1 DEF ServeLoad
    <2>2. s.kind = r.kind /\ s.id = r.id
        BY <1>0 DEF PortalRequests
    <2> HIDE DEF s
    <2>3. r.id = address[2]
        BY <2>1 DEF OfAddress
    <2> QED BY <2>1, <2>2, <2>3, SameAddressShows
<1>2. CASE ReceiveLoad(r)
    <2>1. wire' = wire \ {r} /\ UNCHANGED address /\ page'.record = r.record /\ r.kind = "load" /\ r.served
        BY <1>0, <1>2 DEF ReceiveLoad, LoadEnds, PortalPageTypes
    <2>2. page'.record.id = r.id
        BY <2>1 DEF PortalInv, AsAsked
    <2> QED BY <2>1, <2>2, SameAddressShows
<1>3. CASE FailLoad(r) \/ FailAction(r)
    <2>1. wire' = wire \ {r} /\ UNCHANGED address /\ page'.record = page.record
        BY <1>0, <1>3 DEF FailLoad, LoadEnds, FailAction, PortalPageTypes
    <2> QED BY <2>1, SameAddressShows
<1>4. CASE AcceptProof(r) \/ AcceptRenewal(r)
    <2>1. PICK record : AnswerWith(r, record)
        BY <1>4 DEF AcceptProof, AcceptRenewal
    <2> DEFINE s == [r EXCEPT !.served = TRUE, !.record = record]
    <2>2. UNCHANGED <<address, page>> /\ wire' = (wire \ {r}) \cup {s} /\ r.kind \in {"proof", "renew"}
        BY <1>4, <2>1 DEF AcceptProof, AcceptRenewal, AnswerWith
    <2>3. s.kind = r.kind /\ s.served = TRUE
        BY <1>0 DEF PortalRequests
    <2> HIDE DEF s
    <2> QED BY <2>2, <2>3, SameAddressShows
<1>5. CASE ReceiveProof(r)
    <2>1. UNCHANGED address /\ page'.record = page.record
        BY <1>0, <1>5 DEF ReceiveProof, PortalPageTypes
    <2>2. \A s \in wire' \ wire : s = Asking("load", address[2])
        BY <1>5 DEF ReceiveProof
    <2>3. Asking("load", address[2]).kind = "load" /\ Asking("load", address[2]).id = address[2]
        BY DEF Asking
    <2> QED BY <2>1, <2>2, <2>3, SameAddressShows
<1>6. CASE ReceiveRenewal(r)
    <2> DEFINE a == <<"order-detail", r.record.id>>
    <2>1. Push(a, wire \ {r}) /\ r.kind = "renew" /\ r.served
        BY <1>6 DEF ReceiveRenewal
    <2>2. a \in Addresses
        BY <2>1 DEF PortalInv, AsAsked, OrderRecords, Addresses
    <2> HIDE DEF a
    <2> QED BY <2>1, <2>2, PushShows
<1> QED BY <1>1, <1>2, <1>3, <1>4, <1>5, <1>6 DEF Answering

\* A page comes to show something else than its address names by a change of the
\* address under it and in no other way (props of router.js, onMounted(load) of
\* OrderDetailView.vue:58 and SubscriptionDetailView.vue:46).
THEOREM PageOfItsAddress == PortalSpec => AddressShown
<1>1. PortalInv /\ [PortalNext]_portalVars => [OfAddress => AddressKept /\ ProofsOfShown]_portalVars
    <2> SUFFICES ASSUME PortalInv, PortalNext, OfAddress PROVE AddressKept /\ ProofsOfShown
        OBVIOUS
    <2>1. CASE Follow
        BY <2>1, PushShows DEF Follow
    <2>2. CASE ChooseFile \/ Review
        BY <2>2, SameAddressShows DEF ChooseFile, Review
    <2>3. ASSUME NEW kind \in {"proof", "renew"}, Press(kind), kind = "proof" => page.record # Absent
          PROVE  AddressKept /\ ProofsOfShown
        <3>1. UNCHANGED address /\ page'.record = page.record
            BY <2>3 DEF Press, PortalInv, PortalTyped, PortalPageTypes
        <3>2. \A s \in wire' \ wire : s = Asking(kind, address[2])
            BY <2>3 DEF Press
        <3>3. Asking(kind, address[2]).kind = kind /\ Asking(kind, address[2]).id = address[2]
            BY DEF Asking
        <3>4. kind = "proof" => page.record.id = address[2]
            BY <2>3 DEF OfAddress
        <3> QED BY <3>1, <3>2, <3>3, <3>4, SameAddressShows
    <2>4. CASE SubmitProof \/ Renew
        BY <2>3, <2>4 DEF SubmitProof, CanSubmitProof, Renew
    <2>5. ASSUME NEW r \in wire, Answering(r) PROVE AddressKept /\ ProofsOfShown
        BY <2>5, AnswersShow
    <2> QED BY <2>1, <2>2, <2>4, <2>5 DEF PortalNext
<1> QED BY <1>1, PortalInvariant, PTL DEF PortalSpec, AddressShown, AddressKept, ProofsOfShown

-----------------------------------------------------------------------------
(* The page of a tenant link: a subscription on screen ends the login.      *)

TenantInv ==
    /\ tenant \in [loading : BOOLEAN, submitting : BOOLEAN, needLogin : BOOLEAN, sub : BOOLEAN, errorMsg : BOOLEAN]
    /\ ~tenant.loading => tenant.needLogin \/ tenant.sub \/ tenant.errorMsg
    /\ tenant.sub => ~tenant.loading /\ ~tenant.submitting /\ ~tenant.needLogin

LEMMA TenantInvInit == TenantInit => TenantInv
BY DEF TenantInit, TenantInv

LEMMA TenantInvStep == TenantInv /\ [TenantNext]_tenant => TenantInv'
<1> SUFFICES ASSUME TenantInv, [TenantNext]_tenant PROVE TenantInv'
    OBVIOUS
<1>1. CASE TenantLoadEnds
    BY <1>1 DEF TenantLoadEnds, TenantInv
<1>2. CASE DoLogin
    BY <1>2 DEF DoLogin, TenantInv
<1>3. CASE LoginEnds
    BY <1>3 DEF LoginEnds, TenantInv
<1>4. CASE UNCHANGED tenant
    BY <1>4 DEF TenantInv
<1> QED BY <1>1, <1>2, <1>3, <1>4 DEF TenantNext

\* A tenant is never left before a blank page, and what is on screen stays.
THEOREM TenantServed == TenantSpec => TenantExplained
<1>1. TenantInv => (~tenant.loading => TenantPage # "blank")
    BY DEF TenantInv, TenantPage
<1>2. TenantInv /\ [TenantNext]_tenant => [TenantPage = "subscription" => TenantPage' = "subscription"]_tenant
    <2> SUFFICES ASSUME TenantInv, TenantNext, TenantPage = "subscription"
                 PROVE  TenantPage' = "subscription"
        OBVIOUS
    <2>1. tenant.sub /\ ~tenant.needLogin
        BY DEF TenantPage, TenantInv
    <2>2. FALSE
        BY <2>1 DEF TenantNext, TenantLoadEnds, DoLogin, LoginEnds, TenantInv
    <2> QED BY <2>2
<1> QED BY <1>1, <1>2, TenantInvInit, TenantInvStep, PTL DEF TenantSpec, TenantExplained

-----------------------------------------------------------------------------
(* The three applications together.                                         *)

allVars == <<part, partsVars>>

LEMMA PartsStart ==
    Init => ReadsInit /\ ClientInit /\ PortalInit /\ TenantInit /\ ShellInit /\ LandingInit /\ ViewsInit
            /\ part \in Parts
BY DEF Init

\* A step of another part is a stutter of this one.
LEMMA PartsStep ==
    [Next]_allVars =>
        /\ [ReadsNext]_readsVars /\ [ClientNext]_clientVars
        /\ [PortalNext]_portalVars /\ [TenantNext]_tenant
        /\ [ShellNext]_shellVars /\ [LandingNext]_landingVars /\ [Sync]_snapshot
        /\ part' = part
<1> SUFFICES ASSUME [Next]_allVars
             PROVE  /\ [ReadsNext]_readsVars /\ [ClientNext]_clientVars
                    /\ [PortalNext]_portalVars /\ [TenantNext]_tenant
                    /\ [ShellNext]_shellVars /\ [LandingNext]_landingVars /\ [Sync]_snapshot
                    /\ part' = part
    OBVIOUS
<1>1. CASE ReadsStep
    BY <1>1 DEF ReadsStep
<1>2. CASE ClientStep
    BY <1>2 DEF ClientStep
<1>3. CASE PortalStep
    BY <1>3 DEF PortalStep
<1>4. CASE TenantStep
    BY <1>4 DEF TenantStep
<1>5. CASE ShellStep
    BY <1>5 DEF ShellStep
<1>6. CASE LandingStep
    BY <1>6 DEF LandingStep
<1>7. CASE ViewsStep
    BY <1>7 DEF ViewsStep
<1>8. CASE UNCHANGED allVars
    BY <1>8 DEF allVars, partsVars
<1> QED BY <1>1, <1>2, <1>3, <1>4, <1>5, <1>6, <1>7, <1>8 DEF Next

\* The whole implements every part.
THEOREM WholeImplementsParts ==
    Spec => ReadsSpec /\ ClientSpec /\ PortalSpec /\ TenantSpec /\ ShellSpec /\ LandingSpec
            /\ ViewsSpec /\ [](part \in Parts)
<1>1. part \in Parts /\ [Next]_allVars => (part \in Parts)'
    BY PartsStep
<1> QED BY <1>1, PartsStart, PartsStep, PTL
        DEF Spec, allVars, ReadsSpec, ClientSpec, PortalSpec, TenantSpec, ShellSpec, LandingSpec, ViewsSpec

\* Whatever a part does, no variable of the three applications loses its type.
THEOREM PartsTypeCorrect == Spec => []PartsTypeOK
<1>1. PortalInv => PortalTypeOK
    BY RecordTypes DEF PortalInv, PortalTyped, PortalTypeOK, PortalPageTypes, PortalRequests
<1>2. /\ ReadsInv /\ ClientInv /\ PortalInv /\ ShellInv /\ LandingInv /\ part \in Parts => PartsTypeOK
    BY <1>1 DEF ReadsInv, ClientInv, ShellInv, LandingInv, PartsTypeOK
<1> QED BY <1>2, WholeImplementsParts, ReadsInvariant, ClientInvInit, ClientInvStep, PortalInvariant,
           ShellInvInit, ShellInvStep, LandingInvInit, LandingInvStep, PTL
        DEF ClientSpec, ShellSpec, LandingSpec

\* The pages of a customer are true, whatever the other applications do.
THEOREM PortalPagesTrue == Spec => PortalPages
<1> QED BY WholeImplementsParts, PagesHonest, OrdersMoveForward, PageOfItsAddress, TenantServed, PTL DEF PortalPages

\* And so holds what is proved of the console, the API client and the landing page.
THEOREM PartsKeepTheirPromises ==
    Spec => []BlankExplained /\ PanesFresh /\ []ReportedOnce /\ []ScrollRestored /\ []OneFrameLoop
            /\ []SnapshotHonest
<1> QED BY WholeImplementsParts, ReadsExplained, ReadsImplementFreshPanes, ErrorsReportedOnce, PageGivenBack,
           LandingOneLoop, DashboardTrue, PTL
=============================================================================
