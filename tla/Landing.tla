-------------------------------- MODULE Landing --------------------------------
(***************************************************************************)
(* The public landing page (frontend/src/landing): the animated signal,    *)
(* the sections that are revealed when they scroll into view, the price    *)
(* panel that changes when the plans arrive, the menu and the questions.   *)
(*                                                                         *)
(* What the browser offers differs: visitors may prefer reduced motion,    *)
(* and IntersectionObserver or ResizeObserver may be missing.              *)
(***************************************************************************)
EXTENDS Naturals, FiniteSets

CONSTANT Entries      \* entries of the list of questions, numbered from 0

NoQuestion == 99

ASSUME EntriesAssumption == 0 \in Entries /\ Entries \subseteq Nat \ {NoQuestion}

VARIABLES
    browser,        \* what the visitor's browser offers
    mounted,        \* the page: not yet, mounted, or unmounted again
    running,        \* SignalCanvas: the animation is meant to run
    raf,            \* the frame it requested last
    frames,         \* frames the browser will call back
    observer,       \* SignalCanvas observes whether it is in view
    enabled,        \* reveal-enabled is on the document
    content,        \* the sections and the price panel on the page
    revealed,          \* of these, the ones that carry is-in
    observed,       \* those initReveal observes
    pricing,        \* pricingState, and whether there are plans
    menuOpen,
    openQuestion

canvas == <<running, raf, frames, observer>>
reveal == <<enabled, content, revealed, observed>>
controls == <<menuOpen, openQuestion>>
landingVars == <<browser, mounted, canvas, reveal, pricing, controls>>

Browsers == [reducedMotion : BOOLEAN, intersection : BOOLEAN, context2d : BOOLEAN]
Animated == ~browser.reducedMotion /\ browser.intersection

\* The branches of v-if: each is an element of its own.
PricePanels == {"plans panel", "skeleton", "fallback panel"}
PricePanel(state) ==
    CASE state = "loaded"  -> "plans panel"
      [] state = "loading" -> "skeleton"
      [] OTHER             -> "fallback panel"

NoFrame == 0
Frames == 1..3
NextFrame == CHOOSE f \in Frames \ frames : \A g \in Frames \ frames : f <= g

LandingInit ==
    /\ browser \in Browsers
    /\ mounted = "no"
    /\ running = FALSE /\ raf = NoFrame /\ frames = {} /\ observer = FALSE
    /\ enabled = FALSE /\ content = {"sections", PricePanel("loading")} /\ revealed = {} /\ observed = {}
    /\ pricing = "loading" /\ menuOpen = FALSE /\ openQuestion = 0

-----------------------------------------------------------------------------
(* SignalCanvas.                                                            *)

RequestFrame == raf' = NextFrame /\ frames' = frames \cup {NextFrame}

\* Seeded fault: a second start while the animation runs.
StartSignalAlways == running' = TRUE /\ RequestFrame

StartSignal ==
    IF running THEN UNCHANGED <<running, raf, frames>>
    ELSE running' = TRUE /\ RequestFrame

StopSignal ==
    /\ running' = FALSE
    /\ frames' = frames \ {raf}
    /\ UNCHANGED raf

\* The browser calls a frame: it draws, and asks for the next one.
Frame ==
    /\ \E f \in frames :
        IF running
        THEN raf' = NextFrame /\ frames' = (frames \ {f}) \cup {NextFrame}
        ELSE frames' = frames \ {f} /\ UNCHANGED raf
    /\ UNCHANGED <<browser, mounted, running, observer, reveal, pricing, controls>>

\* The observer tells that the signal has come into view, or left it.
SignalSeen ==
    /\ observer
    /\ StartSignal \/ StopSignal
    /\ UNCHANGED <<browser, mounted, observer, reveal, pricing, controls>>

\* Nothing without a 2d context; a still picture for who prefers that; without an
\* observer it simply runs.
MountSignal ==
    /\ observer' = (browser.context2d /\ Animated)
    /\ IF browser.context2d /\ ~browser.reducedMotion /\ ~browser.intersection
       THEN StartSignal ELSE UNCHANGED <<running, raf, frames>>

-----------------------------------------------------------------------------
(* Revealing.                                                               *)

\* What is on the page now is observed, or revealed at once.
InitReveal ==
    /\ enabled' = Animated
    /\ observed' = IF Animated THEN content \ revealed ELSE {}
    /\ revealed' = IF Animated THEN revealed ELSE revealed \cup content
    /\ UNCHANGED content

ScrolledIntoView ==
    /\ \E e \in observed : revealed' = revealed \cup {e} /\ observed' = observed \ {e}
    /\ UNCHANGED <<browser, mounted, canvas, enabled, content, pricing, controls>>

-----------------------------------------------------------------------------
(* The page.                                                                *)

\* Children first, then onMounted of the page itself.
MountPage ==
    /\ mounted = "no" /\ mounted' = "yes"
    /\ MountSignal /\ InitReveal
    /\ UNCHANGED <<browser, pricing, controls>>

\* GET /api/customer/plans: plans, none, or an error; the price panel is replaced,
\* and the new one starts without is-in.
PlansArrive ==
    /\ mounted = "yes" /\ pricing = "loading"
    /\ pricing' \in {"loaded", "empty", "error"}
    /\ content' = (content \ PricePanels) \cup {PricePanel(pricing')}
    /\ revealed' = revealed \ {PricePanel("loading")}
    /\ observed' = observed \ {PricePanel("loading")}
    /\ UNCHANGED <<browser, mounted, canvas, enabled, controls>>

\* onBeforeUnmount of the page and of the signal.
UnmountPage ==
    /\ mounted = "yes" /\ mounted' = "unmounted"
    /\ StopSignal /\ observer' = FALSE
    /\ enabled' = FALSE /\ observed' = {}
    /\ UNCHANGED <<browser, content, revealed, pricing, controls>>

ToggleMenu ==
    /\ mounted = "yes"
    /\ menuOpen' = ~menuOpen
    /\ UNCHANGED <<browser, mounted, canvas, reveal, pricing, openQuestion>>

\* A link of the open menu closes it.
CloseMenuLink ==
    /\ mounted = "yes" /\ menuOpen
    /\ menuOpen' = FALSE
    /\ UNCHANGED <<browser, mounted, canvas, reveal, pricing, openQuestion>>

\* One question is open at most.
ToggleQuestion ==
    /\ mounted = "yes"
    /\ \E i \in Entries : openQuestion' = IF openQuestion = i THEN NoQuestion ELSE i
    /\ UNCHANGED <<browser, mounted, canvas, reveal, pricing, menuOpen>>

LandingNext ==
    \/ MountPage \/ PlansArrive \/ UnmountPage
    \/ Frame \/ SignalSeen \/ ScrolledIntoView
    \/ ToggleMenu \/ CloseMenuLink \/ ToggleQuestion

LandingSpec == LandingInit /\ [][LandingNext]_landingVars

-----------------------------------------------------------------------------
\* Types.  The page, its observers and the animation are well-formed.
LandingTypeOK ==
    /\ browser \in Browsers /\ mounted \in {"no", "yes", "unmounted"}
    /\ running \in BOOLEAN /\ raf \in Frames \cup {NoFrame} /\ frames \subseteq Frames /\ observer \in BOOLEAN
    /\ enabled \in BOOLEAN /\ content \subseteq {"sections"} \cup PricePanels
    /\ revealed \subseteq content /\ observed \subseteq content
    /\ pricing \in {"loading", "loaded", "empty", "error"} /\ menuOpen \in BOOLEAN
    /\ openQuestion \in Entries \cup {NoQuestion}

\* However often the signal enters and leaves the view, between whichever frames,
\* there is one animation loop at most, it is the one that can be stopped, and
\* none is left once the page has gone (SignalCanvas.vue:119 "Only animate while
\* in view").
OneFrameLoop ==
    /\ Cardinality(frames) <= 1
    /\ running => frames = {raf}
    /\ ~running => frames = {}
    /\ mounted = "unmounted" => ~running /\ observed = {} /\ ~enabled

\* Text that is hidden until it scrolls into view is being watched: "a missing or
\* delayed script never hides substantive page content" (useReveal.js:16-17).
HiddenIsObserved == enabled => content \ revealed \subseteq observed
=============================================================================
