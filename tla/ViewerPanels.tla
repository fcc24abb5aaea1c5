---------------------------- MODULE ViewerPanels ----------------------------
(***************************************************************************)
(* The panels of the stream page: the route inspector, the stats card and  *)
(* the desktop decks (labs, pad, layout, bindings, touch), of which one is *)
(* open at a time, and the bridge, profile and debug panels beside them.   *)
(* Each panel has a flag that says it is open and a card that is shown or  *)
(* hidden; nine copies of the same code keep the two in step, close the    *)
(* other panels, and answer a press outside the card.  A desktop panel is  *)
(* in view only while the desktop dock is: in a desktop window whose       *)
(* sidebar is folded.                                                      *)
(***************************************************************************)
EXTENDS FiniteSets

VARIABLE chrome   \* open, shown: panels; dock, expanded: the utility dock;
                  \* desktop: the window's mode; sidebar: it is extended;
                  \* stats: "none" without a stream, else whether the stream
                  \* collects statistics; dark: statistics were turned off
                  \* under an open panel; settled: the window's last turn has
                  \* been laid out

Exclusive == {"route", "stats", "labs", "pad", "layout", "bindings", "touch"}
Panels == Exclusive \cup {"bridge", "profile", "debug"}
Decks == Panels \ {"route", "stats"}

PanelsInit ==
    \E desktop \in BOOLEAN :
        chrome = [open |-> {}, shown |-> {}, dock |-> desktop, expanded |-> FALSE,
                  desktop |-> desktop, sidebar |-> FALSE, stats |-> "none",
                  dark |-> FALSE, settled |-> TRUE]

ChromeVisible(c) == c.desktop /\ ~c.sidebar

InView(c, p) == p \in c.open /\ (p \in Decks => ChromeVisible(c))

\* Shows the panels of P that are open and in view, and hides the rest of P.
Apply(c, P) == [c EXCEPT !.shown = (@ \ P) \cup {p \in P : InView(c, p)}]

Shut(c, P) == [c EXCEPT !.open = @ \ P, !.shown = @ \ P]

\* Every panel's refresh renders its labels and ends by applying its flag.
SyncRoute(c) == Apply(c, {"route"})
SyncSession(c) == Apply(c, {"profile", "debug"})
SyncLabs(c) == Apply(c, {"labs"})
SyncPad(c) == Apply(c, {"pad"})
SyncLayout(c) == Apply(c, {"layout"})
SyncBindings(c) == Apply(c, {"bindings"})
SyncTouch(c) == Apply(c, {"touch"})
SyncBridge(c) == Apply(c, {"bridge"})

\* Without a dock every desktop panel closes, and in a desktop window the
\* route inspector with them; the stats card stays.
Folded(c) ==
    Shut([c EXCEPT !.dock = FALSE, !.expanded = FALSE],
         Decks \cup (IF c.desktop THEN {"route"} ELSE {}))

Unfolded(c) ==
    SyncBridge(SyncTouch(SyncBindings(SyncLayout(SyncPad(SyncLabs(SyncSession(SyncRoute(
        [c EXCEPT !.dock = TRUE]))))))))

Synced(c) ==
    LET d == IF ChromeVisible(c) THEN Unfolded(c) ELSE Folded(c)
    IN  [d EXCEPT !.settled = TRUE,
                  !.dark = @ /\ d.open \cap {"route", "stats"} # {}]

Collect(c, on) ==
    IF c.stats = "none" THEN c
    ELSE [c EXCEPT !.stats = IF on THEN "on" ELSE "off",
                   !.dark = @ /\ ~on]

-----------------------------------------------------------------------------
(* Opening and closing.  Each deck names the panels it closes.             *)

Flagged(c, p, on) == [c EXCEPT !.open = IF on THEN @ \cup {p} ELSE @ \ {p}]

PanelOpened(c, p, on, closes) ==
    Synced(Apply(Flagged(IF on THEN Shut(c, closes) ELSE c, p, on), {p}))

OpenRoute(c, on) ==
    LET d == Flagged(IF on THEN Shut(c, {"stats", "labs", "pad", "layout", "bindings", "touch"})
                     ELSE c, "route", on)
    IN  Synced(Apply(Collect(d, on \/ "stats" \in d.open), {"route"}))

OpenLabs(c, on) ==
    PanelOpened(c, "labs", on, {"route", "stats", "layout", "bindings", "touch", "pad"})

OpenPad(c, on) ==
    PanelOpened(c, "pad", on, {"route", "stats", "labs", "layout", "bindings", "touch"})

OpenLayout(c, on) ==
    PanelOpened(c, "layout", on, {"route", "stats", "labs", "pad", "bindings", "touch"})

OpenBindings(c, on) ==
    PanelOpened(c, "bindings", on, {"route", "stats", "labs", "pad", "layout", "touch"})

OpenTouch(c, on) ==
    PanelOpened(c, "touch", on, {"route", "stats", "labs", "pad", "layout", "bindings"})

OpenBridge(c, on) == PanelOpened(c, "bridge", on, {})
OpenProfile(c, on) == PanelOpened(c, "profile", on, {})
OpenDebug(c, on) == PanelOpened(c, "debug", on, {})

OpenStats(c, on) ==
    LET d == Flagged(c, "stats", on)
        e == Collect(d, on \/ "route" \in d.open)
    IN  Synced(IF on THEN [e EXCEPT !.shown = @ \cup {"stats"}]
               ELSE Shut(e, {"stats"}))

ToggleStats(c) ==
    IF c.stats = "none" THEN c
    ELSE LET on == "stats" \notin c.open
         IN  OpenStats(IF on THEN Shut(c, Exclusive \ {"stats"}) ELSE c, on)

SetOpen(c, p, on) ==
    CASE p = "route" -> OpenRoute(c, on)
      [] p = "labs" -> OpenLabs(c, on)
      [] p = "pad" -> OpenPad(c, on)
      [] p = "layout" -> OpenLayout(c, on)
      [] p = "bindings" -> OpenBindings(c, on)
      [] p = "touch" -> OpenTouch(c, on)
      [] p = "bridge" -> OpenBridge(c, on)
      [] p = "profile" -> OpenProfile(c, on)
      [] p = "debug" -> OpenDebug(c, on)
      [] OTHER -> OpenStats(c, on)

PanelToggled(c, p) == SetOpen(c, p, p \notin c.open)

Expanded(c, on) == IF c.expanded = on THEN c ELSE Synced([c EXCEPT !.expanded = on])

Sidebar(c, on) == Synced([c EXCEPT !.sidebar = on])

\* A deck's "Tuning": the sidebar opens at the section that tunes it.
OpenTuning(c) == OpenLabs(Sidebar(c, TRUE), FALSE)

\* The stream is replaced: its statistics start turned off.
Replaced(c) ==
    [c EXCEPT !.stats = "off", !.dark = c.open \cap {"route", "stats"} # {}]

\* The small pad card beside the pad deck or the bridge, while the pad is off.
MiniShown(c) ==
    ChromeVisible(c) /\ "touch" \notin c.open /\ c.open \cap {"pad", "bridge"} # {}

-----------------------------------------------------------------------------
(* What the user presses.  Every button of a panel ends in a refresh.      *)

RouteBadge == chrome' = PanelToggled(chrome, "route")

PressDock == chrome.dock /\ chrome' = Expanded(chrome, ~chrome.expanded)

DockAction ==
    /\ chrome.expanded
    /\ \E c \in {Synced(chrome), ToggleStats(chrome), PanelToggled(chrome, "debug")} :
           chrome' = Expanded(c, FALSE)

ClosePanel ==
    \E p \in chrome.shown : chrome' = SetOpen(chrome, p, FALSE)

Again(c) == IF c.stats = "none" THEN {c} ELSE {c, Replaced(c)}

\* What the buttons of each panel come to.  Nothing opens the labs deck for
\* longer than a press, nor the bindings deck that only it leads to: their
\* buttons are here because the page has them.
ProfileButtons(c) == Again(c)

LabsButtons(c) ==
    Again(c) \cup {SetOpen(c, p, TRUE) : p \in {"pad", "layout", "bindings", "touch"}}

\* Every setting of the pad deck opens the deck again.
PadCardActions(c) == {c, OpenPad(c, TRUE), OpenTouch(c, TRUE)}
PadButtons(c) == PadCardActions(c) \cup {OpenTuning(c)}

LayoutActions(c) == {c, OpenLayout(c, TRUE)}
LayoutButtons(c) == LayoutActions(c) \cup {OpenTuning(c)}

BindingsActions(c) == {OpenBindings(c, TRUE)}
BindingsButtons(c) == BindingsActions(c) \cup {OpenTuning(c)}

TouchButtons(c) == {OpenTouch(c, TRUE), OpenTuning(c)}

DebugButtons(c) == {OpenDebug(d, TRUE) : d \in Again(c)}

BridgeButtons(c) ==
    {Sidebar(c, ~c.sidebar), ToggleStats(c), PanelToggled(c, "route"), OpenBridge(c, TRUE)}
        \cup Again(c)

RouteButtons(c) ==
    {OpenRoute(IF "stats" \in c.open THEN c ELSE ToggleStats(c), FALSE)}
        \cup {OpenRoute(SetOpen(c, p, TRUE), FALSE) : p \in {"profile", "debug"}}
        \cup Again(c)

BarButtons(c, p) ==
    CASE p = "profile" -> ProfileButtons(c)
      [] p = "labs" -> LabsButtons(c)
      [] p = "pad" -> PadButtons(c)
      [] p = "layout" -> LayoutButtons(c)
      [] p = "bindings" -> BindingsButtons(c)
      [] p = "touch" -> TouchButtons(c)
      [] p = "debug" -> DebugButtons(c)
      [] p = "bridge" -> BridgeButtons(c)
      [] p = "route" -> RouteButtons(c)
      [] OTHER -> {c}

PressButton ==
    \E p \in chrome.shown : \E c \in BarButtons(chrome, p) : chrome' = Synced(c)

MiniPad == MiniShown(chrome) /\ chrome' = OpenTouch(chrome, TRUE)

\* The panel of the native bridge, in a frame of its own.
NativeAction ==
    \E c \in {ToggleStats(chrome), OpenPad(chrome, TRUE), OpenLayout(chrome, TRUE)} :
        chrome' = c

SidebarPress ==
    /\ chrome.sidebar
    /\ \E c \in {OpenProfile(chrome, TRUE), ToggleStats(chrome)}
                \cup {PanelToggled(chrome, p) : p \in {"bridge", "debug", "labs"}} : chrome' = c

-----------------------------------------------------------------------------
(* Presses outside the cards, the window and the stream.                   *)

CloseAll(c, P) ==
    LET d == Shut(c, P)
    IN  Synced(IF "route" \in P THEN Collect(d, "stats" \in d.open) ELSE d)

\* The panels that a press on a place leaves alone: all but the route inspector
\* count the dock as their own, and the inspector its badge and the bridge's
\* button.  The stats card never listens.
Spared(place) ==
    {"stats"} \cup
    CASE place = "dock" -> Decks
      [] place = "badge" -> {"route"}
      [] place = "bridge route" -> {"route", "bridge"}
      [] place \in Panels -> {place}
      [] OTHER -> {}

PressOutside ==
    \E place \in chrome.shown \cup {"dock", "badge", "bridge route", "page"} :
        LET c == CloseAll(chrome, chrome.shown \ Spared(place))
        IN  /\ place = "dock" => chrome.dock
            /\ place = "bridge route" => "bridge" \in chrome.shown
            /\ chrome.shown \ Spared(place) # {}
            /\ chrome' = IF place = "dock" THEN c ELSE Expanded(c, FALSE)

SidebarToggles == chrome' = Sidebar(chrome, ~chrome.sidebar)

\* The window turns from desktop to mobile or back; the layout follows in the
\* next frame.
WindowTurns ==
    chrome' = [chrome EXCEPT !.desktop = ~@, !.settled = FALSE]

LayoutSettles == ~chrome.settled /\ chrome' = Synced(chrome)

\* Clean fullscreen closes the panels and folds the sidebar; the pad deck and
\* the touch deck are left.
CleanFullscreen ==
    LET c == Shut([chrome EXCEPT !.expanded = FALSE], Panels \ {"pad", "touch"})
    IN  chrome' = Synced(Sidebar(c, FALSE))

\* The low memory profile closes the stats card and turns the statistics off.
LowMemory ==
    chrome' = Synced([Collect(Shut(chrome, {"stats"}), FALSE) EXCEPT !.dark = TRUE])

NewStream == chrome' = Replaced(chrome)

StreamEnds == chrome.stats # "none" /\ chrome' = [chrome EXCEPT !.stats = "none"]

\* The adaptive bitrate and the latency display turn the statistics on.
OthersNeedStats == chrome.stats = "off" /\ chrome' = Collect(chrome, TRUE)

\* The card follows the stream's statistics, at every tick of the page's timer.
PollStats ==
    LET streaming == chrome.stats = "on" /\ chrome.open \cap {"stats", "route"} # {}
        c == SyncRoute(chrome)
    IN  chrome' = [c EXCEPT !.shown =
                       IF ~streaming THEN @ \ {"stats"}
                       ELSE @ \cup ({"stats"} \cap c.open)]

PanelsNext ==
    \/ RouteBadge \/ PressDock \/ DockAction \/ ClosePanel
    \/ PressButton \/ MiniPad
    \/ NativeAction \/ SidebarPress \/ PressOutside
    \/ SidebarToggles \/ WindowTurns \/ LayoutSettles \/ CleanFullscreen
    \/ LowMemory \/ NewStream \/ StreamEnds \/ OthersNeedStats \/ PollStats

PanelsSpec == PanelsInit /\ [][PanelsNext]_chrome

-----------------------------------------------------------------------------
PanelsTypeOK ==
    chrome \in [open : SUBSET Panels, shown : SUBSET Panels, dock : BOOLEAN,
                expanded : BOOLEAN, desktop : BOOLEAN, sidebar : BOOLEAN,
                stats : {"none", "off", "on"}, dark : BOOLEAN, settled : BOOLEAN]

OneAtATimeOpen ==
    \A p, q \in Exclusive : p \in chrome.open /\ q \in chrome.open => p = q

CardsFollowFlags ==
    /\ "stats" \in chrome.shown => "stats" \in chrome.open
    /\ chrome.settled =>
           chrome.shown \ {"stats"} = {p \in Panels \ {"stats"} : InView(chrome, p)}

StatsCollected ==
    chrome.open \cap {"stats", "route"} # {} /\ ~chrome.dark => chrome.stats # "off"

\* Of the panels that take each other's place at most one is open, whichever
\* button, key or panel opened it; once the window's last turn is laid out, the
\* cards shown are those of the open panels that are in view; and the stream
\* collects the statistics an open panel shows, unless the low memory profile or
\* a new stream turned them off under it.
PanelsInStep == OneAtATimeOpen /\ CardsFollowFlags /\ StatsCollected

=============================================================================
