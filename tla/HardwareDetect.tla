---------------------------- MODULE HardwareDetect ----------------------------
(***************************************************************************)
(* The hardware_detect service, which runs once at boot: it selects a DRM  *)
(* card to display with and a DRM render to draw with, hides every other   *)
(* DRM device, lets the drivers of the two adjust the selection of HALs    *)
(* and libraries, applies the user's overrides, publishes the selection as *)
(* properties and stops the HAL services that were not selected.           *)
(***************************************************************************)
EXTENDS Integers

CONSTANTS
  Gpus,            \* the places of GPUs, in the order of the names of their device nodes
  GpuKinds,        \* what may be in a place: a record, see GpuAssumption
  Params,          \* the properties the service may be started with
  None             \* no device, no name

\* Every selection is unset, but for the version of OpenGL ES and the format of buffers.
Unset ==
  [gles |-> "2.0", allocator |-> "unset", composer |-> "unset", egl |-> "unset",
   gralloc |-> "unset", hwc |-> "unset", vulkan |-> "unset", vulkanApex |-> "unset",
   backend |-> "unset", format |-> "RGBA", audio |-> "unset", usb |-> "unset"]

ASSUME GpuAssumption ==
  /\ Gpus \subseteq 0..63 /\ None \notin Gpus
  /\ GpuKinds \subseteq
       [driver : STRING, kms : BOOLEAN, connected : BOOLEAN, render : BOOLEAN,
        atomic : BOOLEAN, threeD : BOOLEAN, chip : Nat]
  /\ \A p \in Params :
       /\ {p.useFb, p.swiftshader, p.reverse, p.virtualBox, p.sound, p.usb} \subseteq BOOLEAN
       /\ {p.preferCard, p.preferRender} \subseteq STRING
       /\ DOMAIN p.overrides \subseteq DOMAIN Unset
       /\ p.overrides \in [DOMAIN p.overrides -> STRING]

VARIABLES
  machine,         \* the GPU in each place: kms, a card node that can be used; render, a render node
  params,          \* the properties that are read
  sysfb,           \* the cards whose member is_sysfb reads as true
  stage,           \* where the service is
  card, render,    \* the selected devices: the places of their GPUs
  hidden,          \* the device nodes that have become links to /dev/null
  sel,             \* gGlesVersion, gHwEgl and the other selections
  running          \* the HAL services that are not stopped
vars == <<machine, params, sysfb, stage, card, render, hidden, sel, running>>

Allocators == {"minigbm_upstream", "gralloc-2-0"}
Composers == {"drmfb", "drm_upstream", "hwcomposer-2-2", "hwcomposer-2-4"}

-----------------------------------------------------------------------------
(* GetDrmCardRenderDevicePair *)

Cards == {g \in Gpus : machine[g].kms}

Renders == {g \in Gpus : machine[g].render}

SysfbNames == {"efidrm", "simpledrm", "vesadrm"}

\* What is_sysfb may read: it is set for the firmware framebuffers, and of any other card
\* it is what the memory happened to hold, the same each time it is read.
SysfbReads == {S \in SUBSET Cards : \A g \in Cards : machine[g].driver \in SysfbNames => g \in S}

IsSysfb(g) == g \in sysfb

Init ==
  /\ machine \in [Gpus -> GpuKinds]
  /\ params \in Params
  /\ sysfb \in SysfbReads
  /\ stage = "start"
  /\ card = None /\ render = None /\ hidden = {}
  /\ sel = Unset
  /\ running = Allocators \cup Composers

\* The order of the names of the nodes, or the reverse one.
Before(a, b) == IF params.reverse THEN a > b ELSE a < b

FirstOf(S) == CHOOSE a \in S : \A b \in S : a = b \/ Before(a, b)

\* The cards that strategies 1, 2 and 3 choose from; a card has a render if there is a
\* render node of the same device.
Capable == {g \in Cards : ~IsSysfb(g) /\ machine[g].connected /\ g \in Renders}
Connected == {g \in Cards : ~IsSysfb(g) /\ machine[g].connected}
Ordinary == {g \in Cards : ~IsSysfb(g)}

\* Variant: a card without a monitor is taken before one that has no render.
StrategyCardRenderFirst ==
  IF Capable # {} THEN FirstOf(Capable)
  ELSE IF Ordinary \cap Renders # {} THEN FirstOf(Ordinary \cap Renders)
  ELSE IF Connected # {} THEN FirstOf(Connected)
  ELSE IF Ordinary # {} THEN FirstOf(Ordinary)
  ELSE FirstOf(Cards)

StrategyCard ==
  IF Capable # {} THEN FirstOf(Capable)
  ELSE IF Connected # {} THEN FirstOf(Connected)
  ELSE IF Ordinary # {} THEN FirstOf(Ordinary)
  ELSE FirstOf(Cards)

StrategyRender == IF Capable # {} THEN FirstOf(Capable) ELSE None

PreferredCards == {g \in Cards : machine[g].driver = params.preferCard}

PreferredRenders == {g \in Renders : machine[g].driver = params.preferRender}

SelectedCard == IF PreferredCards # {} THEN FirstOf(PreferredCards) ELSE StrategyCard

\* Variant: the preferred card is taken to have a render.
SelectedRenderAssumed ==
  IF PreferredRenders # {} THEN FirstOf(PreferredRenders)
  ELSE IF PreferredCards # {} THEN SelectedCard
  ELSE StrategyRender

\* Variant: only the render of the selected card may be preferred.
SelectedRenderOwn ==
  IF SelectedCard \in PreferredRenders \cup (PreferredCards \cap Renders) THEN SelectedCard
  ELSE StrategyRender

\* The render of the preferred card is taken if it has one, else the one selected before
\* is kept.
SelectedRender ==
  IF PreferredRenders # {} THEN FirstOf(PreferredRenders)
  ELSE IF PreferredCards # {} /\ SelectedCard \in Renders THEN SelectedCard
  ELSE StrategyRender

CardNode(g) == <<"card", g>>
RenderNode(g) == <<"renderD", g>>
DrmNodes == {CardNode(g) : g \in Cards} \cup {RenderNode(g) : g \in Renders}

\* Variant: the devices of the selected card's GPU are left.
ToHideOfOtherGpus == DrmNodes \ ({CardNode(card), RenderNode(card)} \cup hidden)

\* The node that is the next to be hidden may be any: the order shows nowhere.
ToHide == DrmNodes \ ({CardNode(card), RenderNode(render)} \cup hidden)

-----------------------------------------------------------------------------
(* What the handlers of the drivers select *)

UseSwiftshaderGraphics(s) ==
  [s EXCEPT !.egl = "angle", !.gles = "3.1", !.vulkanApex = "swiftshader"]

\* Variant: the composer is not selected.
SetupFramebufferGralloc(s) ==
  UseSwiftshaderGraphics(
    [s EXCEPT !.gralloc = "default", !.hwc = "unset", !.allocator = "gralloc-2-0",
              !.format = "BGRA"])

SetupFramebufferDisplay(s) ==
  UseSwiftshaderGraphics(
    [s EXCEPT !.gralloc = "default", !.hwc = "unset", !.allocator = "gralloc-2-0",
              !.composer = "hwcomposer-2-2", !.format = "BGRA"])

\* The defaults for a card, with or without a render.
SetDefaultsForDrmDisplay(s) ==
  LET hals == [s EXCEPT !.allocator = "minigbm_upstream", !.gralloc = "minigbm_upstream",
                        !.composer = IF machine[card].atomic THEN "drm_upstream" ELSE "drmfb"]
  IN  IF render # None THEN [hals EXCEPT !.egl = "mesa"] ELSE UseSwiftshaderGraphics(hals)

\* Of an i915 render: hasvk for the chips of generations 7 and 8; a chip whose id cannot be
\* asked for has the id 0.
DrmI915Render(s, chip) ==
  LET base == IF params.swiftshader THEN UseSwiftshaderGraphics(s)
              ELSE [s EXCEPT !.gles = "3.2", !.vulkan = "intel"]
      gen78 == chip \in 1..\h0F33 \/ chip \in \h1602..\h162E \/ chip \in \h22B0..\h22B3
  IN  IF gen78 THEN [base EXCEPT !.vulkan = "intel_hasvk"] ELSE base

DrmVirtiogpu(s, g, isRender) ==
  LET format == IF render = None \/ (machine[render].driver = "virtio_gpu" /\ ~machine[g].threeD)
                THEN [s EXCEPT !.format = "BGRA"] ELSE s
  IN  IF ~isRender THEN format
      ELSE IF machine[g].threeD
      THEN [format EXCEPT !.egl = "mesa", !.vulkan = "virtio", !.gles = "3.2"]
      ELSE UseSwiftshaderGraphics(format)

\* VirtualBox has no 3D acceleration, and Swiftshader does not display via vmwgfx.
VmwgfxUnusable == params.virtualBox \/ params.swiftshader

\* The handler of the card's driver.
CardHandler(s) ==
  LET driver == machine[card].driver
  IN  CASE IsSysfb(card) \/ driver = "qxl" -> SetupFramebufferDisplay(s)
        [] driver = "vmwgfx" /\ VmwgfxUnusable -> SetupFramebufferDisplay(s)
        [] driver = "msm" -> [s EXCEPT !.vulkan = "freedreno"]
        [] driver = "virtio_gpu" -> DrmVirtiogpu(s, card, FALSE)
        [] driver \in {"mediatek", "tidss"} -> [s EXCEPT !.vulkan = "imagination"]
        [] OTHER -> s

\* The handler of the render's driver.
RenderHandler(s) ==
  LET driver == machine[render].driver
  IN  CASE driver = "amdgpu" -> [s EXCEPT !.backend = "dumb_generic", !.gles = "3.2", !.vulkan = "radeon"]
        [] driver \in {"apple", "asahi"} -> [s EXCEPT !.backend = "gbm_mesa", !.gles = "3.2", !.vulkan = "asahi"]
        [] driver = "i915" -> DrmI915Render(s, machine[render].chip)
        [] driver = "nouveau" -> [s EXCEPT !.gles = "3.1", !.vulkan = "nouveau"]
        [] driver = "radeon" -> [s EXCEPT !.backend = "dumb_generic", !.gles = "3.1"]
        [] driver = "virtio_gpu" -> DrmVirtiogpu(s, render, TRUE)
        [] driver = "vmwgfx" /\ ~VmwgfxUnusable -> [s EXCEPT !.gles = "3.1"]
        [] driver \in {"panfrost", "panthor"} -> [s EXCEPT !.vulkan = "panfrost"]
        [] driver = "v3d" -> [s EXCEPT !.vulkan = "broadcom"]
        [] OTHER -> s

-----------------------------------------------------------------------------
(* main and DetectGraphics *)

\* The sound card and the USB controller are looked for; then the framebuffer is used if
\* the user asks for it.
Start ==
  /\ stage = "start"
  /\ LET s == [sel EXCEPT !.audio = IF params.sound THEN "tinyhal" ELSE "unset",
                          !.usb = IF params.usb THEN "mainline" ELSE "none"]
     IN  IF params.useFb THEN sel' = SetupFramebufferDisplay(s) /\ stage' = "apply"
         ELSE sel' = s /\ stage' = "select"
  /\ UNCHANGED <<machine, params, sysfb, card, render, hidden, running>>

\* /dev/dri is made for the first DRM device, whether it can be used or not.
DriDirectory == \E g \in Gpus : machine[g].driver # "none"

\* Without the directory directory_iterator throws; with it, but without a card, the
\* framebuffer is used.
SelectDevices ==
  /\ stage = "select"
  /\ CASE ~DriDirectory -> stage' = "terminated" /\ UNCHANGED <<card, render, sel>>
       [] DriDirectory /\ Cards = {} ->
            sel' = SetupFramebufferDisplay(sel) /\ stage' = "apply" /\ UNCHANGED <<card, render>>
       [] DriDirectory /\ Cards # {} ->
            card' = SelectedCard /\ render' = SelectedRender /\ stage' = "hide" /\ UNCHANGED sel
  /\ UNCHANGED <<machine, params, sysfb, hidden, running>>

\* A device that is not selected is renamed, and a link to /dev/null takes its name; an
\* error of either call is thrown and caught by nobody.
HideDevice ==
  /\ stage = "hide"
  /\ \E n \in ToHide :
       \/ hidden' = hidden \cup {n} /\ UNCHANGED stage
       \/ stage' = "terminated" /\ UNCHANGED hidden
  /\ UNCHANGED <<machine, params, sysfb, card, render, sel, running>>

HideDone ==
  /\ stage = "hide" /\ ToHide = {}
  /\ sel' = SetDefaultsForDrmDisplay(sel)
  /\ stage' = "card"
  /\ UNCHANGED <<machine, params, sysfb, card, render, hidden, running>>

HandleCard ==
  /\ stage = "card"
  /\ sel' = CardHandler(sel)
  /\ stage' = "render"
  /\ UNCHANGED <<machine, params, sysfb, card, render, hidden, running>>

HandleRender ==
  /\ stage = "render"
  /\ sel' = IF render = None THEN sel ELSE RenderHandler(sel)
  /\ stage' = "apply"
  /\ UNCHANGED <<machine, params, sysfb, card, render, hidden, running>>

-----------------------------------------------------------------------------
(* ApplySelections *)

ProcessBootOverrides(s) ==
  [f \in DOMAIN s |-> IF f \in DOMAIN params.overrides THEN params.overrides[f] ELSE s[f]]

\* Variant: the Vulkan module is left alone.
SwitchVulkanApexOnly(s) ==
  IF s.vulkanApex = "unset" THEN [s EXCEPT !.vulkanApex = "no_apex"] ELSE s

\* The Swiftshader APEX sets the Vulkan module by itself.
SwitchVulkanApex(s) ==
  IF s.vulkanApex = "unset" THEN [s EXCEPT !.vulkanApex = "no_apex"]
  ELSE IF s.vulkanApex = "swiftshader" THEN [s EXCEPT !.vulkan = "unset"]
  ELSE s

\* The values that the maps have; kHwHwcMap has none.
InMap ==
  [audio |-> {"tinyhal"}, usb |-> {"mainline", "none"}, egl |-> {"angle", "mesa"},
   backend |-> {"dmabuf_heap", "dumb_generic", "gbm_mesa"},
   gralloc |-> {"default", "gbm", "minigbm_upstream"}, hwc |-> {},
   vulkan |-> {"asahi", "broadcom", "freedreno", "imagination", "intel", "intel_hasvk", "lvp",
               "nouveau", "panfrost", "radeon", "virtio"},
   vulkanApex |-> {"no_apex", "swiftshader"}]

\* at() throws for a value that is not unset and that the map does not have.
MapThrows(s) == \E f \in DOMAIN InMap : s[f] # "unset" /\ s[f] \notin InMap[f]

\* The services of a HAL that is set, but for the selected one, are stopped: all of them
\* if the user has set it to a value that is none of theirs.
StopOthers(services, selected) == IF selected = "unset" THEN {} ELSE services \ {selected}

ApplySelections ==
  /\ stage = "apply"
  /\ LET s == SwitchVulkanApex(ProcessBootOverrides(sel))
     IN  /\ sel' = s
         /\ IF MapThrows(s) THEN stage' = "terminated" /\ UNCHANGED running
            ELSE /\ stage' = "done"
                 /\ running' = running \ (StopOthers(Allocators, s.allocator)
                                          \cup StopOthers(Composers, s.composer))
  /\ UNCHANGED <<machine, params, sysfb, card, render, hidden>>

Next ==
  \/ Start \/ SelectDevices \/ HideDevice \/ HideDone \/ HandleCard \/ HandleRender
  \/ ApplySelections

Spec == Init /\ [][Next]_vars

-----------------------------------------------------------------------------
(* Properties *)

\* Every variable stays in its domain.
DisplayTypeOK ==
  /\ machine \in [Gpus -> GpuKinds]
  /\ params \in Params /\ sysfb \in SysfbReads
  /\ stage \in {"start", "select", "hide", "card", "render", "apply", "done", "terminated"}
  /\ card \in Cards \cup {None} /\ render \in Renders \cup {None}
  /\ hidden \subseteq DrmNodes
  /\ DOMAIN sel = DOMAIN Unset
  /\ running \subseteq Allocators \cup Composers

\* The two sets of graphics HALs that work together: the composer of a framebuffer cannot
\* show the buffers of minigbm.
HalSets ==
  {[allocator |-> "gralloc-2-0", composer |-> "hwcomposer-2-2", gralloc |-> "default"]} \cup
  {[allocator |-> "minigbm_upstream", composer |-> c, gralloc |-> "minigbm_upstream"] :
     c \in {"drm_upstream", "drmfb"}}

\* Whatever the handlers have selected one after another, when the service is done the
\* graphics HALs that the user has not overridden are of one set that works together, and
\* of a HAL that he has not overridden the one selected service is left. An override takes
\* its own HAL out of the set and changes no other one: gralloc_hal_service,
\* hwc_hal_service and hw_gralloc may each be set alone.
HalsMatch ==
  stage = "done" =>
    LET own == {"allocator", "composer", "gralloc"} \ DOMAIN params.overrides
    IN  /\ \E hals \in HalSets : \A f \in own : sel[f] = hals[f]
        /\ "allocator" \in own => running \cap Allocators = {sel.allocator}
        /\ "composer" \in own => running \cap Composers = {sel.composer}

\* The drivers in user space that open the first device they find can only find the
\* selected ones: all others are hidden before anything is selected for them, and the
\* selected ones never are.
OnlySelectedLeft ==
  /\ CardNode(card) \notin hidden /\ RenderNode(render) \notin hidden
  /\ stage \in {"card", "render"} => hidden = DrmNodes \ {CardNode(card), RenderNode(render)}

\* Whether a is a better card than b: one that is not taken for a firmware framebuffer,
\* then one with a monitor, then one with a render.
Better(a, b) ==
  \/ ~IsSysfb(a) /\ IsSysfb(b)
  \/ /\ ~IsSysfb(a) /\ ~IsSysfb(b)
     /\ \/ machine[a].connected /\ ~machine[b].connected
        \/ machine[a].connected /\ machine[b].connected /\ a \in Renders /\ b \notin Renders

\* Without a preference of the user the selected card is the best one, the first among
\* equally good ones, and the render is the card's own (docs/status.md: one GPU for
\* rendering and another one for display is not supported). A card that is no firmware
\* framebuffer may be passed over like one: its is_sysfb is never initialised.
BestCard ==
  card # None /\ PreferredCards = {} /\ PreferredRenders = {} =>
    /\ \A g \in Cards : g = card \/ Better(card, g) \/ (~Better(g, card) /\ Before(card, g))
    /\ render \in {card, None}

\* docs/boot-parameters.md: the card, and the render, with the preferred name is used
\* if present.
PreferredUsed ==
  card # None => /\ PreferredCards # {} => card \in PreferredCards
                 /\ PreferredRenders # {} => render \in PreferredRenders

\* Without a render the graphics are drawn by the CPU, whatever the handlers and the
\* switch over the Vulkan APEX have done: Angle on Swiftshader, with the version of
\* OpenGL ES that it has, and no other Vulkan driver (docs/status.md: CPU rendered
\* graphics is always available as fallback). Only the user can undo it, by an override
\* of one of the three selections that it consists of; hw_vulkan does not.
CpuRendered ==
  sel.egl = "angle" /\ sel.gles = "3.1" /\ sel.vulkanApex = "swiftshader" /\ sel.vulkan = "unset"

SoftwareFallback ==
  stage = "done" /\ render = None /\ DOMAIN params.overrides \cap {"egl", "gles", "vulkanApex"} = {}
    => CpuRendered
=============================================================================
