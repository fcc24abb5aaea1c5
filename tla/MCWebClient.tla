---------------------------- MODULE MCWebClient ----------------------------
(***************************************************************************)
(* The components of the web client whose properties are about safety,     *)
(* checked one at a time in one run. They share no state: the pages create *)
(* them with callbacks and settings, which each module takes as its        *)
(* inputs. So a behaviour picks one component in its initial state and     *)
(* takes the steps of that component only; the states reached are those of *)
(* the modules put side by side, never their product.                      *)
(***************************************************************************)
EXTENDS PointerInput, MouseQueue, ControllerLink, QuickPadButtons,
        QuickPadTemplates, QuickPadLayouts, RuntimeResize,
        SidebarHandle, MicSidecar, HostList, ViewerPanels, StartPage,
        HostBanner, MediaSourceQueue, PageModals

VARIABLE focus  \* the component whose steps the behaviour takes

suiteVars ==
  <<focus, pointerVars, queueVars, controllerVars, padVars, templateVars,
    layoutVars, resizeVars, barVars, micVars, listVars, chrome, startVars,
    bannerVars, sourceVars, modalVars>>

OnlyPointerInput ==
  /\ focus = "pointer"
  /\ UNCHANGED <<focus, queueVars, controllerVars, padVars, templateVars,
       layoutVars, resizeVars, barVars, micVars, listVars, chrome,
       startVars, bannerVars, sourceVars, modalVars>>
  /\ PointerNext

OnlyMouseQueue ==
  /\ focus = "mouse"
  /\ UNCHANGED <<focus, pointerVars, controllerVars, padVars, templateVars,
       layoutVars, resizeVars, barVars, micVars, listVars, chrome,
       startVars, bannerVars, sourceVars, modalVars>>
  /\ QueueNext

OnlyControllerLink ==
  /\ focus = "pads"
  /\ UNCHANGED <<focus, pointerVars, queueVars, padVars, templateVars,
       layoutVars, resizeVars, barVars, micVars, listVars, chrome,
       startVars, bannerVars, sourceVars, modalVars>>
  /\ ControllerNext

OnlyQuickPadButtons ==
  /\ focus = "quickpad"
  /\ UNCHANGED <<focus, pointerVars, queueVars, controllerVars,
       templateVars, layoutVars, resizeVars, barVars, micVars, listVars,
       chrome, startVars, bannerVars, sourceVars, modalVars>>
  /\ PadNext

OnlyQuickPadTemplates ==
  /\ focus = "templates"
  /\ UNCHANGED <<focus, pointerVars, queueVars, controllerVars, padVars,
       layoutVars, resizeVars, barVars, micVars, listVars, chrome,
       startVars, bannerVars, sourceVars, modalVars>>
  /\ TemplatesNext

OnlyQuickPadLayouts ==
  /\ focus = "layouts"
  /\ UNCHANGED <<focus, pointerVars, queueVars, controllerVars, padVars,
       templateVars, resizeVars, barVars, micVars, listVars, chrome,
       startVars, bannerVars, sourceVars, modalVars>>
  /\ LayoutsNext

OnlyRuntimeResize ==
  /\ focus = "resize"
  /\ UNCHANGED <<focus, pointerVars, queueVars, controllerVars, padVars,
       templateVars, layoutVars, barVars, micVars, listVars, chrome,
       startVars, bannerVars, sourceVars, modalVars>>
  /\ ResizeNext

OnlySidebarHandle ==
  /\ focus = "handle"
  /\ UNCHANGED <<focus, pointerVars, queueVars, controllerVars, padVars,
       templateVars, layoutVars, resizeVars, micVars, listVars, chrome,
       startVars, bannerVars, sourceVars, modalVars>>
  /\ BarNext

OnlyMicSidecar ==
  /\ focus = "mic"
  /\ UNCHANGED <<focus, pointerVars, queueVars, controllerVars, padVars,
       templateVars, layoutVars, resizeVars, barVars, listVars, chrome,
       startVars, bannerVars, sourceVars, modalVars>>
  /\ MicNext

OnlyHostList ==
  /\ focus = "hosts"
  /\ UNCHANGED <<focus, pointerVars, queueVars, controllerVars, padVars,
       templateVars, layoutVars, resizeVars, barVars, micVars, chrome,
       startVars, bannerVars, sourceVars, modalVars>>
  /\ ListNext

OnlyViewerPanels ==
  /\ focus = "panels"
  /\ UNCHANGED <<focus, pointerVars, queueVars, controllerVars, padVars,
       templateVars, layoutVars, resizeVars, barVars, micVars, listVars,
       startVars, bannerVars, sourceVars, modalVars>>
  /\ PanelsNext

OnlyStartPage ==
  /\ focus = "start"
  /\ UNCHANGED <<focus, pointerVars, queueVars, controllerVars, padVars,
       templateVars, layoutVars, resizeVars, barVars, micVars, listVars,
       chrome, bannerVars, sourceVars, modalVars>>
  /\ StartNext

OnlyHostBanner ==
  /\ focus = "banner"
  /\ UNCHANGED <<focus, pointerVars, queueVars, controllerVars, padVars,
       templateVars, layoutVars, resizeVars, barVars, micVars, listVars,
       chrome, startVars, sourceVars, modalVars>>
  /\ BannerNext

OnlyMediaSourceQueue ==
  /\ focus = "source"
  /\ UNCHANGED <<focus, pointerVars, queueVars, controllerVars, padVars,
       templateVars, layoutVars, resizeVars, barVars, micVars, listVars,
       chrome, startVars, bannerVars, modalVars>>
  /\ SourceNext

OnlyPageModals ==
  /\ focus = "modals"
  /\ UNCHANGED <<focus, pointerVars, queueVars, controllerVars, padVars,
       templateVars, layoutVars, resizeVars, barVars, micVars, listVars,
       chrome, startVars, bannerVars, sourceVars>>
  /\ ModalsNext

SuiteInit ==
  /\ focus \in {"pointer", "mouse", "pads", "quickpad", "templates",
       "layouts", "resize", "handle", "mic", "hosts", "panels", "start",
       "banner", "source", "modals"}
  /\ PointerInit
  /\ QueueInit
  /\ ControllerInit
  /\ PadInit
  /\ TemplatesInit
  /\ LayoutsInit
  /\ ResizeInit
  /\ BarInit
  /\ MicInit
  /\ ListInit
  /\ PanelsInit
  /\ StartInit
  /\ BannerInit
  /\ SourceInit
  /\ ModalsInit
  /\ focus # "templates" => general = CHOOSE l \in Layouts : TRUE
  /\ focus # "layouts" => overlay.orientation = CHOOSE o \in Orientations : TRUE
  /\ focus # "resize" => window.size = (CHOOSE s \in Sizes : TRUE) /\ saved.fps = Max(Rates)
  /\ focus # "handle" => place.edge = (CHOOSE e \in Edges : TRUE) /\ place.android /\ place.handles
  /\ focus # "mic" => mic.panel
  /\ focus # "panels" => chrome.desktop

SuiteNext ==
  \/ OnlyPointerInput
  \/ OnlyMouseQueue
  \/ OnlyControllerLink
  \/ OnlyQuickPadButtons
  \/ OnlyQuickPadTemplates
  \/ OnlyQuickPadLayouts
  \/ OnlyRuntimeResize
  \/ OnlySidebarHandle
  \/ OnlyMicSidecar
  \/ OnlyHostList
  \/ OnlyViewerPanels
  \/ OnlyStartPage
  \/ OnlyHostBanner
  \/ OnlyMediaSourceQueue
  \/ OnlyPageModals

SuiteSpec == SuiteInit /\ [][SuiteNext]_suiteVars

\* Every component keeps the types of its state, whatever the user, the page,
\* the host and the timers do in turn.
ClientTypeOK ==
  /\ focus = "pointer" => PointerTypeOK
  /\ focus = "mouse" => QueueTypeOK
  /\ focus = "pads" => ControllerTypeOK
  /\ focus = "quickpad" => PadTypeOK
  /\ focus = "templates" => TemplatesTypeOK
  /\ focus = "layouts" => LayoutsTypeOK
  /\ focus = "resize" => ResizeTypeOK
  /\ focus = "handle" => BarTypeOK
  /\ focus = "mic" => MicTypeOK
  /\ focus = "hosts" => ListTypeOK
  /\ focus = "panels" => PanelsTypeOK
  /\ focus = "start" => StartTypeOK
  /\ focus = "banner" => BannerTypeOK
  /\ focus = "source" => SourceTypeOK
  /\ focus = "modals" => ModalsTypeOK

\* What the host holds for the user's fingers and mouse is what they press, and
\* its cursor is where they put it: NoStuckButton, GesturesEnd, CursorFollows.
PointersInStep ==
  /\ focus = "pointer" => NoStuckButton /\ GesturesEnd
  /\ focus = "mouse" => CursorFollows

\* What the host holds of the user's controllers and screen buttons is what is
\* plugged in and pressed: ControllersInStep, NothingStuck.
PadsInStep ==
  /\ focus = "pads" => ControllersInStep
  /\ focus = "quickpad" => NothingStuck

\* What the pages and the panels over the stream show is what the state, flags
\* and storage behind them say, or a request is under way that will show it:
\* ListInStep, PageInStep, BannerForAdmin, WaitingIsSeen, PanelsInStep,
\* HandleLeaves, LayoutsInStep.
PagesInStep ==
  /\ focus = "hosts" => ListInStep
  /\ focus = "start" => PageInStep
  /\ focus = "banner" => BannerForAdmin
  /\ focus = "modals" => WaitingIsSeen
  /\ focus = "panels" => PanelsInStep
  /\ focus = "handle" => HandleLeaves
  /\ focus = "layouts" => LayoutsInStep

\* The segments of the source buffer are in order and can be read back, and the
\* microphone is captured for a client that is there: SegmentsInOrder,
\* SegmentsReadBack, CaptureEnds.
MediaInStep ==
  /\ focus = "source" => SegmentsInOrder /\ SegmentsReadBack
  /\ focus = "mic" => CaptureEnds
=============================================================================
