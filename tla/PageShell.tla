------------------------------ MODULE PageShell ------------------------------
(***************************************************************************)
(* The frame around the admin console's workspaces: the navigation drawer  *)
(* of narrow windows, the two modal dialogs, the focus and scroll lock     *)
(* they share (useDialogFocus.js), the error boundary, and the label of a  *)
(* copy button.                                                            *)
(*                                                                         *)
(* Every open dialog saves the page's overflow and the focused element     *)
(* when it opens and puts both back when it closes or is unmounted: right  *)
(* only as long as dialogs close in the opposite order of their opening.   *)
(***************************************************************************)
VARIABLES
    isMobile,       \* the window is narrow
    navOpen,        \* mobileNavOpen
    place,          \* the workspace on screen
    asked,          \* the confirmation: none, or asked and perhaps busy
    report,         \* the modal of an incident's report
    crashed,        \* the error boundary shows an error
    scopes,         \* the open focus scopes, with what each has saved
    overflow,       \* of the body: "hidden" while the page must not scroll
    focus,          \* the focused element: a dialog (anything in it), what opens one, or "body"
    opener,         \* the button that opened the last dialog is still in the page
    copied,         \* the copy button says so
    timer           \* its timeout is pending

shellVars ==
    <<isMobile, navOpen, place, asked, report, crashed, scopes, overflow, focus, opener, copied, timer>>
drawer == <<isMobile, navOpen>>
modals == <<asked, report>>
locks == <<scopes, overflow, focus>>
button == <<copied, timer>>

Workspaces == {"overview", "hosts", "routing"}
Modals == {"drawer", "confirm", "report"}
NotAsked == "none"

ShellInit ==
    /\ isMobile \in BOOLEAN /\ navOpen = FALSE
    /\ place = "overview" /\ asked = NotAsked /\ report = FALSE /\ crashed = FALSE
    /\ scopes = {} /\ overflow = "" /\ focus = "body" /\ opener = FALSE
    /\ copied = FALSE /\ timer = FALSE

DrawerOpen == isMobile /\ navOpen

-----------------------------------------------------------------------------
(* useDialogFocus: the effect of an opening dialog, and its clean-up.       *)

Connected(element, narrow, opens) ==
    CASE element = "opener" -> opens
      [] element = "menu"   -> narrow
      [] OTHER              -> TRUE

OpenScope(modal, from) ==
    /\ scopes' = scopes \cup {[modal |-> modal, focus |-> from, overflow |-> overflow]}
    /\ overflow' = "hidden"
    /\ focus' = modal

\* What this dialog's own effect has saved is put back, whichever others are open,
\* once the page has been rendered anew: the element it came from may be gone then.
CloseScope(modal) ==
    LET saved == CHOOSE s \in scopes : s.modal = modal
    IN  /\ scopes' = scopes \ {saved}
        /\ overflow' = saved.overflow
        /\ focus' = IF Connected(saved.focus, isMobile', opener') THEN saved.focus ELSE "body"

-----------------------------------------------------------------------------
(* The drawer.                                                              *)

\* The open drawer makes the page behind it inert; the backdrop of a dialog takes
\* every click, and a focus that leaves the dialog is brought back to it.
Inert == DrawerOpen
Covered == asked # NotAsked \/ report

\* Seeded fault: the open drawer leaves the page behind it alive.
ReachableUnderDrawer == ~Covered

\* The page behind a modal can be neither clicked nor focused.
Reachable == ~Inert /\ ~Covered

OpenMenu ==
    /\ isMobile /\ ~navOpen /\ Reachable
    /\ navOpen' = TRUE
    /\ OpenScope("drawer", "menu")
    /\ UNCHANGED <<isMobile, place, modals, crashed, opener, button>>

\* Escape, the scrim or the cross.
CloseMenu ==
    /\ DrawerOpen
    /\ navOpen' = FALSE
    /\ UNCHANGED <<isMobile, place, modals, crashed, opener, button>>
    /\ CloseScope("drawer")

\* A wide window has no drawer; widening closes it for good.
Resize ==
    /\ isMobile' = ~isMobile
    /\ navOpen' = FALSE
    /\ UNCHANGED <<place, modals, crashed, opener, button>>
    /\ IF DrawerOpen THEN CloseScope("drawer")
       ELSE /\ focus' = IF focus = "menu" THEN "body" ELSE focus
            /\ UNCHANGED <<scopes, overflow>>

\* Out of the drawer, from the sidebar of a wide window or from the overview, which
\* links to the others: the old workspace is unmounted with its copy button, the
\* error of a crashed one stays.
SelectPlace ==
    /\ \/ DrawerOpen
       \/ Reachable /\ ~isMobile
       \/ Reachable /\ place = "overview" /\ ~crashed
    /\ place' \in Workspaces \ {place}
    /\ navOpen' = FALSE
    /\ opener' = FALSE /\ copied' = FALSE /\ timer' = FALSE
    /\ UNCHANGED <<isMobile, modals, crashed>>
    /\ IF DrawerOpen THEN CloseScope("drawer") ELSE focus' = "body" /\ UNCHANGED <<scopes, overflow>>

-----------------------------------------------------------------------------
(* The modals of a workspace.                                               *)

AtWork == Reachable /\ ~crashed

AskConfirm ==
    /\ AtWork /\ place \in {"hosts", "routing"}
    /\ asked' = "asked" /\ opener' = TRUE
    /\ OpenScope("confirm", "opener")
    /\ UNCHANGED <<drawer, place, report, crashed, button>>

OpenReportModal ==
    /\ AtWork /\ place = "hosts"
    /\ report' = TRUE /\ opener' = TRUE
    /\ OpenScope("report", "opener")
    /\ UNCHANGED <<drawer, place, asked, crashed, button>>

\* Escape, a click beside it or the button; not while the action is under way.
CancelAsked ==
    /\ asked = "asked"
    /\ asked' = NotAsked
    /\ UNCHANGED <<drawer, place, report, crashed, opener, button>>
    /\ CloseScope("confirm")

\* Both buttons are disabled, the focused one with them: a browser may leave it the
\* focus or take the focus away.
ConfirmAsked ==
    /\ asked = "asked"
    /\ asked' = "busy"
    /\ focus' \in {focus, "body"}
    /\ UNCHANGED <<drawer, place, report, crashed, scopes, overflow, opener, button>>

\* The tabulator brings a focus that got lost back into the open dialog: to its frame
\* if no button of it is enabled.
Tab ==
    /\ focus = "body"
    /\ \E s \in scopes : focus' = s.modal
    /\ UNCHANGED <<drawer, place, modals, crashed, scopes, overflow, opener, button>>

\* The answer may have taken away or disabled the button that opened the dialog.
ActionEnds ==
    /\ asked = "busy"
    /\ asked' = NotAsked
    /\ opener' \in {opener, FALSE}
    /\ UNCHANGED <<drawer, place, report, crashed, button>>
    /\ CloseScope("confirm")

CloseReportModal ==
    /\ report
    /\ report' = FALSE
    /\ UNCHANGED <<drawer, place, asked, crashed, opener, button>>
    /\ CloseScope("report")

-----------------------------------------------------------------------------
(* The error boundary.                                                      *)

\* A render fails on what a poll brought: the workspace is unmounted, with its
\* dialogs and everything they held.
Crash ==
    /\ ~crashed
    /\ crashed' = TRUE
    /\ asked' = NotAsked /\ report' = FALSE /\ opener' = FALSE
    /\ copied' = FALSE /\ timer' = FALSE
    /\ UNCHANGED <<drawer, place>>
    /\ IF asked # NotAsked THEN CloseScope("confirm")
       ELSE IF report THEN CloseScope("report")
       ELSE /\ focus' = IF focus = "opener" THEN "body" ELSE focus
            /\ UNCHANGED <<scopes, overflow>>

\* Its button is all there is, whichever workspace has been chosen meanwhile.
Retry ==
    /\ crashed /\ Reachable
    /\ crashed' = FALSE
    /\ UNCHANGED <<drawer, place, modals, locks, opener, button>>

-----------------------------------------------------------------------------
(* The copy button.                                                         *)

Copy ==
    /\ AtWork
    /\ copied' = TRUE /\ timer' = TRUE
    /\ UNCHANGED <<drawer, place, modals, crashed, locks, opener>>

TimerEnds ==
    /\ timer
    /\ copied' = FALSE /\ timer' = FALSE
    /\ UNCHANGED <<drawer, place, modals, crashed, locks, opener>>

ShellNext ==
    \/ OpenMenu \/ CloseMenu \/ Resize \/ SelectPlace
    \/ AskConfirm \/ OpenReportModal \/ CancelAsked \/ ConfirmAsked \/ ActionEnds \/ CloseReportModal
    \/ Tab
    \/ Crash \/ Retry
    \/ Copy \/ TimerEnds

ShellSpec == ShellInit /\ [][ShellNext]_shellVars

-----------------------------------------------------------------------------
\* Types.  The layers, the focus and the locks of the page are well-formed.
ShellTypeOK ==
    /\ isMobile \in BOOLEAN /\ navOpen \in BOOLEAN /\ place \in Workspaces
    /\ asked \in {NotAsked, "asked", "busy"} /\ report \in BOOLEAN /\ crashed \in BOOLEAN
    /\ scopes \subseteq [modal : Modals, focus : {"opener", "menu"}, overflow : {"", "hidden"}]
    /\ overflow \in {"", "hidden"} /\ focus \in Modals \cup {"body", "opener", "menu"}
    /\ opener \in BOOLEAN /\ copied \in BOOLEAN /\ timer \in BOOLEAN

OnScreen ==
    {m \in Modals : \/ m = "drawer" /\ DrawerOpen
                    \/ m = "confirm" /\ asked # NotAsked
                    \/ m = "report" /\ report}

\* However drawer, dialogs, resizes, answers and crashes follow each other: the
\* page scrolls exactly while nothing modal is on screen, the focus is never behind
\* the dialog that is (it may be nowhere while a confirmed action is under way,
\* whose dialog has no enabled button), goes to nothing that has left the page, and
\* a copy button never keeps saying that it has copied.
ScrollRestored ==
    /\ OnScreen = {s.modal : s \in scopes}
    /\ overflow = IF OnScreen = {} THEN "" ELSE "hidden"
    /\ OnScreen # {} => focus \in OnScreen \/ (asked = "busy" /\ focus = "body")
    /\ OnScreen = {} => focus \notin Modals /\ Connected(focus, isMobile, opener)
    /\ copied => timer
=============================================================================
