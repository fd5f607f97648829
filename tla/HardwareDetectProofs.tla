------------------------- MODULE HardwareDetectProofs -------------------------
(***************************************************************************)
(* Theorems about HardwareDetect, for any GPUs and parameters: the         *)
(* selected card is the best one, exactly the other devices are hidden,    *)
(* and without a render everything is drawn by the CPU.                    *)
(***************************************************************************)
EXTENDS HardwareDetect, DataLemmas

-----------------------------------------------------------------------------
(* The first of a set of devices *)

\* A nonempty set of places has a last one in the order of the enumeration.
LEMMA FirstOfSet ==
  ASSUME NEW S \in SUBSET Gpus, S # {}
  PROVE  FirstOf(S) \in S /\ \A b \in S : FirstOf(S) = b \/ Before(FirstOf(S), b)
<1>1. S \in SUBSET (0..63)
  BY GpuAssumption
<1>2. PICK last \in S : \A f \in S : f <= last
  BY <1>1, LargestExists
<1>3. PICK first \in S : \A f \in S : first <= f
  <2> DEFINE R == {63 - x : x \in S}
  <2>1. R \in SUBSET (0..63) /\ R # {}
    BY <1>1
  <2>2. PICK r \in R : \A f \in R : f <= r
    <3> HIDE DEF R
    <3> QED BY <2>1, LargestExists
  <2>3. PICK first \in S : r = 63 - first
    BY <2>2
  <2>4. \A f \in S : first <= f
    <3>1. TAKE f \in S
    <3>2. 63 - f \in R
      BY <3>1
    <3>3. 63 - f <= 63 - first
      BY <2>2, <2>3, <3>2
    <3>4. f \in 0..63 /\ first \in 0..63
      BY <1>1, <2>3
    <3> QED BY <3>3, <3>4
  <2> QED BY <2>4
<1>4. \E a \in S : \A b \in S : a = b \/ Before(a, b)
  <2>1. \A b \in S : b \in 0..63
    BY <1>1
  <2>2. CASE params.reverse
    <3>1. \A b \in S : last = b \/ last > b
      BY <1>2, <2>1
    <3> QED BY <2>2, <3>1 DEF Before
  <2>3. CASE ~params.reverse
    <3>1. \A b \in S : first = b \/ first < b
      BY <1>3, <2>1
    <3> QED BY <2>3, <3>1 DEF Before
  <2> QED BY <2>2, <2>3
<1> QED BY <1>4 DEF FirstOf

LEMMA DeviceSets ==
  /\ Capable \subseteq Connected /\ Connected \subseteq Ordinary /\ Ordinary \subseteq Cards
  /\ Cards \subseteq Gpus /\ Renders \subseteq Gpus /\ Capable \subseteq Renders
  /\ PreferredCards \subseteq Cards /\ PreferredRenders \subseteq Renders
BY DEF Capable, Connected, Ordinary, Cards, Renders, PreferredCards, PreferredRenders

\* The strategies select a card of the best kind there is, the first one of them.
LEMMA StrategyBest ==
  ASSUME Cards # {}
  PROVE  /\ StrategyCard \in Cards
         /\ \A g \in Cards : \/ g = StrategyCard \/ Better(StrategyCard, g)
                             \/ ~Better(g, StrategyCard) /\ Before(StrategyCard, g)
<1>1. CASE Capable # {}
  <2>1. StrategyCard = FirstOf(Capable)
    BY <1>1 DEF StrategyCard
  <2>2. /\ StrategyCard \in Capable
        /\ \A b \in Capable : StrategyCard = b \/ Before(StrategyCard, b)
    BY <1>1, <2>1, FirstOfSet, DeviceSets
  <2> QED BY <2>2, DeviceSets DEF Better, Capable
<1>2. CASE Capable = {} /\ Connected # {}
  <2>1. StrategyCard = FirstOf(Connected)
    BY <1>2 DEF StrategyCard
  <2>2. /\ StrategyCard \in Connected
        /\ \A b \in Connected : StrategyCard = b \/ Before(StrategyCard, b)
    BY <1>2, <2>1, FirstOfSet, DeviceSets
  <2>3. \A g \in Connected : g \notin Renders
    BY <1>2 DEF Capable, Connected
  <2> QED BY <2>2, <2>3, DeviceSets DEF Better, Connected
<1>3. CASE Connected = {} /\ Ordinary # {}
  <2>1. StrategyCard = FirstOf(Ordinary)
    BY <1>3, DeviceSets DEF StrategyCard
  <2>2. /\ StrategyCard \in Ordinary
        /\ \A b \in Ordinary : StrategyCard = b \/ Before(StrategyCard, b)
    BY <1>3, <2>1, FirstOfSet, DeviceSets
  <2>3. \A g \in Ordinary : ~machine[g].connected
    BY <1>3 DEF Connected, Ordinary
  <2> QED BY <2>2, <2>3, DeviceSets DEF Better, Ordinary
<1>4. CASE Ordinary = {}
  <2>1. StrategyCard = FirstOf(Cards)
    BY <1>4, DeviceSets DEF StrategyCard
  <2>2. /\ StrategyCard \in Cards
        /\ \A b \in Cards : StrategyCard = b \/ Before(StrategyCard, b)
    BY <2>1, FirstOfSet, DeviceSets
  <2>3. \A g \in Cards : IsSysfb(g)
    BY <1>4 DEF Ordinary
  <2> QED BY <2>2, <2>3 DEF Better
<1> QED BY <1>1, <1>2, <1>3, <1>4, DeviceSets

\* The selected devices are there.
LEMMA SelectedThere ==
  ASSUME Cards # {}
  PROVE  SelectedCard \in Cards /\ SelectedRender \in Renders \cup {None}
<1>1. SelectedCard \in Cards
  BY StrategyBest, FirstOfSet, DeviceSets DEF SelectedCard
<1>2. StrategyRender \in Renders \cup {None}
  BY FirstOfSet, DeviceSets DEF StrategyRender
<1>3. PreferredRenders # {} => FirstOf(PreferredRenders) \in Renders
  BY FirstOfSet, DeviceSets
<1> QED BY <1>1, <1>2, <1>3 DEF SelectedRender

-----------------------------------------------------------------------------
(* The inductive invariant *)

\* A selection is a function on these names; what its values are does not matter.
Names == {"gles", "allocator", "composer", "egl", "gralloc", "hwc", "vulkan", "vulkanApex",
          "backend", "format", "audio", "usb"}

IsSelection(s) == s = [f \in Names |-> s[f]]

LEMMA UnsetSelection == IsSelection(Unset) /\ DOMAIN Unset = Names
BY DEF IsSelection, Names, Unset

\* The devices are selected once, from what is there, and nothing is hidden before.
Chosen ==
  /\ card # None => card = SelectedCard /\ render = SelectedRender
  /\ card = None => render = None /\ hidden = {}
  /\ stage \in {"start", "select"} => card = None
  /\ stage \in {"hide", "card", "render"} => card # None

Fallback(s) == s.egl = "angle" /\ s.gles = "3.1" /\ s.vulkanApex = "swiftshader"

\* Without a render, what is selected for the CPU stays selected.
FallbackKept ==
  /\ stage \in {"card", "render", "apply"} /\ render = None => Fallback(sel)
  /\ SoftwareFallback

DisplayInv == DisplayTypeOK /\ IsSelection(sel) /\ Chosen /\ OnlySelectedLeft /\ FallbackKept

LEMMA InitDisplay == Init => DisplayInv
<1> SUFFICES ASSUME Init PROVE DisplayInv
  OBVIOUS
<1>1. DisplayTypeOK
  BY DEF Init, DisplayTypeOK, DrmNodes
<1> QED BY <1>1, UnsetSelection DEF Init, DisplayInv, Chosen, OnlySelectedLeft, FallbackKept, SoftwareFallback

\* What depends on the machine and the parameters only stays as it is.
LEMMA SelectionStable ==
  ASSUME UNCHANGED <<machine, params, sysfb>>
  PROVE  /\ UNCHANGED <<Cards, Renders, DrmNodes, PreferredCards, PreferredRenders, SysfbReads>>
         /\ UNCHANGED <<SelectedCard, SelectedRender>>
<1>1. UNCHANGED <<Cards, Renders, PreferredCards, PreferredRenders>>
  BY DEF Cards, Renders, PreferredCards, PreferredRenders
<1>2. UNCHANGED DrmNodes
  BY <1>1 DEF DrmNodes
<1>3. \A S : UNCHANGED FirstOf(S)
  BY DEF FirstOf, Before
<1>4. UNCHANGED <<Capable, Connected, Ordinary>>
  BY <1>1 DEF Capable, Connected, Ordinary, IsSysfb
<1>5. UNCHANGED <<StrategyCard, StrategyRender>>
  BY <1>1, <1>3, <1>4 DEF StrategyCard, StrategyRender
<1>6. UNCHANGED SelectedCard
  BY <1>1, <1>3, <1>5 DEF SelectedCard
<1>7. UNCHANGED SelectedRender
  BY <1>1, <1>3, <1>5, <1>6 DEF SelectedRender
<1>8. UNCHANGED SysfbReads
  BY <1>1 DEF SysfbReads
<1> QED BY <1>1, <1>2, <1>6, <1>7, <1>8

LEMMA SwiftshaderSelects ==
  ASSUME NEW s, IsSelection(s)
  PROVE  IsSelection(UseSwiftshaderGraphics(s)) /\ Fallback(UseSwiftshaderGraphics(s))
BY DEF IsSelection, Names, UseSwiftshaderGraphics, Fallback

LEMMA FramebufferSelects ==
  ASSUME NEW s, IsSelection(s)
  PROVE  IsSelection(SetupFramebufferDisplay(s)) /\ Fallback(SetupFramebufferDisplay(s))
<1>1. IsSelection([s EXCEPT !.gralloc = "default", !.hwc = "unset", !.allocator = "gralloc-2-0",
                !.composer = "hwcomposer-2-2", !.format = "BGRA"])
  BY DEF IsSelection, Names
<1> QED BY <1>1, SwiftshaderSelects DEF SetupFramebufferDisplay

LEMMA DefaultsSelect ==
  ASSUME NEW s, IsSelection(s)
  PROVE  /\ IsSelection(SetDefaultsForDrmDisplay(s))
         /\ render = None => Fallback(SetDefaultsForDrmDisplay(s))
<1> DEFINE hals == [s EXCEPT !.allocator = "minigbm_upstream", !.gralloc = "minigbm_upstream",
                             !.composer = IF machine[card].atomic THEN "drm_upstream" ELSE "drmfb"]
<1>1. IsSelection(hals)
  BY DEF IsSelection, Names
<1>2. IsSelection([hals EXCEPT !.egl = "mesa"])
  BY <1>1 DEF IsSelection, Names
<1> QED BY <1>1, <1>2, SwiftshaderSelects DEF SetDefaultsForDrmDisplay

\* The handler of a card's driver leaves what is selected for the CPU as it is.
LEMMA CardSelects ==
  ASSUME NEW s, IsSelection(s)
  PROVE  IsSelection(CardHandler(s)) /\ (Fallback(s) => Fallback(CardHandler(s)))
<1>1. /\ IsSelection(DrmVirtiogpu(s, card, FALSE))
      /\ Fallback(s) => Fallback(DrmVirtiogpu(s, card, FALSE))
  BY DEF DrmVirtiogpu, Fallback, IsSelection, Names
<1>2. ASSUME NEW v
      PROVE  IsSelection([s EXCEPT !.vulkan = v]) /\ (Fallback(s) => Fallback([s EXCEPT !.vulkan = v]))
  BY DEF Fallback, IsSelection, Names
<1>3. CardHandler(s) \in {SetupFramebufferDisplay(s), [s EXCEPT !.vulkan = "freedreno"],
                         DrmVirtiogpu(s, card, FALSE), [s EXCEPT !.vulkan = "imagination"], s}
  BY DEF CardHandler
<1> QED BY <1>1, <1>2, <1>3, FramebufferSelects

LEMMA RenderSelects ==
  ASSUME NEW s, IsSelection(s), render # None
  PROVE  IsSelection(RenderHandler(s))
<1>1. \A chip : IsSelection(DrmI915Render(s, chip))
  <2>1. TAKE chip
  <2>2. \A b : IsSelection(b) => IsSelection([b EXCEPT !.vulkan = "intel_hasvk"])
    BY DEF IsSelection, Names
  <2> DEFINE mesa == [s EXCEPT !.gles = "3.2", !.vulkan = "intel"]
  <2>3. IsSelection(mesa)
    BY DEF IsSelection, Names
  <2> DEFINE base == IF params.swiftshader THEN UseSwiftshaderGraphics(s) ELSE mesa
  <2>4. IsSelection(base)
    BY <2>3, SwiftshaderSelects
  <2> DEFINE gen78 == \/ chip \in 1..\h0F33 \/ chip \in \h1602..\h162E
                     \/ chip \in \h22B0..\h22B3
  <2>5. DrmI915Render(s, chip) = IF gen78 THEN [base EXCEPT !.vulkan = "intel_hasvk"] ELSE base
    BY DEF DrmI915Render
  <2> HIDE DEF base, gen78
  <2> QED BY <2>2, <2>4, <2>5
<1>2. IsSelection(DrmVirtiogpu(s, render, TRUE))
  <2>1. \A b : IsSelection(b) =>
          IsSelection([b EXCEPT !.egl = "mesa", !.vulkan = "virtio", !.gles = "3.2"])
    BY DEF IsSelection, Names
  <2>2. IsSelection([s EXCEPT !.format = "BGRA"])
    BY DEF IsSelection, Names
  <2> QED BY <2>1, <2>2, SwiftshaderSelects DEF DrmVirtiogpu
<1>3. ASSUME NEW b, NEW g, NEW v
      PROVE  /\ IsSelection([s EXCEPT !.backend = b, !.gles = g, !.vulkan = v])
             /\ IsSelection([s EXCEPT !.backend = b, !.gles = g])
             /\ IsSelection([s EXCEPT !.gles = g, !.vulkan = v])
             /\ IsSelection([s EXCEPT !.gles = g])
             /\ IsSelection([s EXCEPT !.vulkan = v])
  <2>1. IsSelection([s EXCEPT !.backend = b, !.gles = g, !.vulkan = v])
    BY DEF IsSelection, Names
  <2>2. IsSelection([s EXCEPT !.backend = b, !.gles = g])
    BY DEF IsSelection, Names
  <2>3. IsSelection([s EXCEPT !.gles = g, !.vulkan = v])
    BY DEF IsSelection, Names
  <2>4. IsSelection([s EXCEPT !.gles = g])
    BY DEF IsSelection, Names
  <2>5. IsSelection([s EXCEPT !.vulkan = v])
    BY DEF IsSelection, Names
  <2> QED BY <2>1, <2>2, <2>3, <2>4, <2>5
<1> QED BY <1>1, <1>2, <1>3 DEF RenderHandler

\* What is selected for the CPU is applied unless it is overridden; the Vulkan module of
\* Swiftshader is left to its APEX.
LEMMA ApplySelects ==
  ASSUME NEW s, IsSelection(s), params \in Params
  PROVE  /\ IsSelection(ProcessBootOverrides(s))
         /\ IsSelection(SwitchVulkanApex(s))
         /\ DOMAIN params.overrides \cap {"egl", "gles", "vulkanApex"} = {} /\ Fallback(s)
              => Fallback(ProcessBootOverrides(s))
         /\ Fallback(s) => /\ Fallback(SwitchVulkanApex(s))
                           /\ SwitchVulkanApex(s).vulkan = "unset"
<1>1. params.overrides \in [DOMAIN params.overrides -> STRING]
  BY GpuAssumption
<1>2. IsSelection(ProcessBootOverrides(s))
  BY <1>1 DEF ProcessBootOverrides, IsSelection, Names
<1>3. ASSUME DOMAIN params.overrides \cap {"egl", "gles", "vulkanApex"} = {}, Fallback(s)
      PROVE  Fallback(ProcessBootOverrides(s))
  BY <1>3 DEF ProcessBootOverrides, IsSelection, Names, Fallback
<1>4. IsSelection(SwitchVulkanApex(s))
  BY DEF SwitchVulkanApex, IsSelection, Names
<1>5. Fallback(s) => /\ Fallback(SwitchVulkanApex(s))
                    /\ SwitchVulkanApex(s).vulkan = "unset"
  BY DEF Fallback, SwitchVulkanApex, IsSelection, Names
<1> QED BY <1>2, <1>3, <1>4, <1>5

-----------------------------------------------------------------------------
(* Every step keeps the invariant *)

LEMMA StartKeeps == DisplayInv /\ Start => DisplayInv'
<1> SUFFICES ASSUME DisplayInv, Start PROVE DisplayInv'
  OBVIOUS
<1> DEFINE s == [sel EXCEPT !.audio = IF params.sound THEN "tinyhal" ELSE "unset",
                            !.usb = IF params.usb THEN "mainline" ELSE "none"]
<1>1. UNCHANGED <<machine, params, sysfb, card, render, hidden, running>> /\ card = None
  BY DEF Start, DisplayInv, Chosen
<1>2. UNCHANGED <<Cards, Renders, DrmNodes, SysfbReads, SelectedCard, SelectedRender>>
  BY <1>1, SelectionStable
<1>3. IsSelection(s)
  BY DEF DisplayInv, IsSelection, Names
<1>4. \/ sel' = SetupFramebufferDisplay(s) /\ stage' = "apply"
      \/ sel' = s /\ stage' = "select"
  BY DEF Start
<1> HIDE DEF s
<1>5. IsSelection(sel') /\ (stage' = "apply" => Fallback(sel')) /\ stage' \in {"apply", "select"}
  BY <1>3, <1>4, FramebufferSelects
<1>6. DisplayTypeOK'
  BY <1>1, <1>2, <1>5, UnsetSelection DEF DisplayInv, DisplayTypeOK, IsSelection
<1>7. Chosen' /\ OnlySelectedLeft' /\ FallbackKept'
  BY <1>1, <1>2, <1>5 DEF DisplayInv, Chosen, OnlySelectedLeft, FallbackKept, SoftwareFallback
<1> QED BY <1>5, <1>6, <1>7 DEF DisplayInv, IsSelection

LEMMA SelectDevicesKeeps == DisplayInv /\ SelectDevices => DisplayInv'
<1> SUFFICES ASSUME DisplayInv, SelectDevices PROVE DisplayInv'
  OBVIOUS
<1>1. /\ UNCHANGED <<machine, params, sysfb, hidden, running>>
      /\ card = None /\ render = None /\ hidden = {}
  BY DEF SelectDevices, DisplayInv, Chosen
<1>2. UNCHANGED <<Cards, Renders, DrmNodes, SysfbReads, SelectedCard, SelectedRender>>
  BY <1>1, SelectionStable
<1>3. None \notin Cards
  BY DeviceSets, GpuAssumption
<1>4. CASE DriDirectory /\ Cards = {}
  <2>1. /\ sel' = SetupFramebufferDisplay(sel) /\ stage' = "apply"
        /\ card' = None /\ render' = None
    BY <1>1, <1>4 DEF SelectDevices
  <2>2. IsSelection(sel') /\ Fallback(sel')
    BY <2>1, FramebufferSelects DEF DisplayInv
  <2>3. DisplayTypeOK'
    BY <1>1, <1>2, <2>1, <2>2, UnsetSelection DEF DisplayInv, DisplayTypeOK, IsSelection
  <2>4. Chosen' /\ OnlySelectedLeft' /\ FallbackKept'
    BY <1>1, <2>1, <2>2 DEF Chosen, OnlySelectedLeft, FallbackKept, SoftwareFallback
  <2> QED BY <2>2, <2>3, <2>4 DEF DisplayInv, IsSelection
<1>5. CASE DriDirectory /\ Cards # {}
  <2>1. /\ card' = SelectedCard /\ render' = SelectedRender
        /\ stage' = "hide" /\ UNCHANGED sel
    BY <1>5 DEF SelectDevices
  <2>2. SelectedCard \in Cards /\ SelectedRender \in Renders \cup {None}
    BY <1>5, SelectedThere
  <2>3. DisplayTypeOK'
    BY <1>1, <1>2, <2>1, <2>2 DEF DisplayInv, DisplayTypeOK
  <2>4. Chosen' /\ OnlySelectedLeft' /\ FallbackKept'
    BY <1>1, <1>2, <1>3, <2>1, <2>2 DEF Chosen, OnlySelectedLeft, FallbackKept, SoftwareFallback
  <2> QED BY <2>1, <2>3, <2>4 DEF DisplayInv, IsSelection
<1>6. CASE ~DriDirectory
  <2>1. stage' = "terminated" /\ UNCHANGED <<card, render, sel>>
    BY <1>6 DEF SelectDevices
  <2>2. DisplayTypeOK'
    BY <1>1, <1>2, <2>1 DEF DisplayInv, DisplayTypeOK
  <2>3. Chosen' /\ OnlySelectedLeft' /\ FallbackKept'
    BY <1>1, <1>2, <2>1 DEF Chosen, OnlySelectedLeft, FallbackKept, SoftwareFallback
  <2> QED BY <2>1, <2>2, <2>3 DEF DisplayInv, IsSelection
<1> QED BY <1>4, <1>5, <1>6

LEMMA HideKeeps == DisplayInv /\ (HideDevice \/ HideDone) => DisplayInv'
<1> SUFFICES ASSUME DisplayInv, HideDevice \/ HideDone PROVE DisplayInv'
  OBVIOUS
<1>1. UNCHANGED <<machine, params, sysfb, card, render, running>> /\ stage = "hide" /\ card # None
  BY DEF HideDevice, HideDone, DisplayInv, Chosen
<1>2. UNCHANGED <<Cards, Renders, DrmNodes, SysfbReads, SelectedCard, SelectedRender>>
  BY <1>1, SelectionStable
<1>3. CASE HideDevice
  <2>1. PICK n \in ToHide : /\ hidden' \in {hidden, hidden \cup {n}}
                           /\ stage' \in {"hide", "terminated"}
    BY <1>1, <1>3 DEF HideDevice
  <2>2. UNCHANGED sel
    BY <1>3 DEF HideDevice
  <2>3. n \in DrmNodes /\ n # CardNode(card) /\ n # RenderNode(render)
    BY DEF ToHide
  <2>4. DisplayTypeOK'
    BY <1>1, <1>2, <2>1, <2>2, <2>3 DEF DisplayInv, DisplayTypeOK
  <2>5. Chosen' /\ FallbackKept'
    BY <1>1, <1>2, <2>1, <2>2 DEF DisplayInv, Chosen, FallbackKept, SoftwareFallback
  <2>6. OnlySelectedLeft'
    <3>1. CardNode(card)' = CardNode(card) /\ RenderNode(render)' = RenderNode(render)
      BY <1>1 DEF CardNode, RenderNode
    <3> QED BY <2>1, <2>3, <3>1 DEF DisplayInv, OnlySelectedLeft
  <2> QED BY <2>2, <2>4, <2>5, <2>6 DEF DisplayInv, IsSelection
<1>4. CASE HideDone
  <2>1. UNCHANGED hidden /\ ToHide = {} /\ stage' = "card" /\ sel' = SetDefaultsForDrmDisplay(sel)
    BY <1>4 DEF HideDone
  <2>2. IsSelection(sel') /\ (render = None => Fallback(sel'))
    BY <2>1, DefaultsSelect DEF DisplayInv
  <2>3. DisplayTypeOK'
    BY <1>1, <1>2, <2>1, <2>2, UnsetSelection DEF DisplayInv, DisplayTypeOK, IsSelection
  <2>4. Chosen' /\ FallbackKept'
    BY <1>1, <1>2, <2>1, <2>2 DEF DisplayInv, Chosen, FallbackKept, SoftwareFallback
  <2>5. OnlySelectedLeft'
    <3>1. hidden = DrmNodes \ {CardNode(card), RenderNode(render)}
      BY <2>1 DEF DisplayInv, DisplayTypeOK, OnlySelectedLeft, ToHide
    <3>2. CardNode(card)' = CardNode(card) /\ RenderNode(render)' = RenderNode(render)
      BY <1>1 DEF CardNode, RenderNode
    <3> QED BY <1>2, <2>1, <3>1, <3>2 DEF OnlySelectedLeft
  <2> QED BY <2>2, <2>3, <2>4, <2>5 DEF DisplayInv, IsSelection
<1> QED BY <1>3, <1>4

LEMMA HandlersKeep == DisplayInv /\ (HandleCard \/ HandleRender) => DisplayInv'
<1> SUFFICES ASSUME DisplayInv, HandleCard \/ HandleRender PROVE DisplayInv'
  OBVIOUS
<1>1. /\ UNCHANGED <<machine, params, sysfb, card, render, hidden, running>>
      /\ stage \in {"card", "render"} /\ stage' \in {"render", "apply"} /\ card # None
  BY DEF HandleCard, HandleRender, DisplayInv, Chosen
<1>2. UNCHANGED <<Cards, Renders, DrmNodes, SysfbReads, SelectedCard, SelectedRender>>
  BY <1>1, SelectionStable
<1>3. IsSelection(sel') /\ (render = None => Fallback(sel'))
  <2>1. CASE HandleCard
    BY <2>1, CardSelects DEF HandleCard, DisplayInv, FallbackKept
  <2>2. CASE HandleRender
    BY <2>2, RenderSelects DEF HandleRender, DisplayInv, FallbackKept
  <2> QED BY <2>1, <2>2
<1>4. DisplayTypeOK'
  BY <1>1, <1>2, <1>3, UnsetSelection DEF DisplayInv, DisplayTypeOK, IsSelection
<1>5. Chosen' /\ FallbackKept'
  BY <1>1, <1>2, <1>3 DEF DisplayInv, Chosen, FallbackKept, SoftwareFallback
<1>6. OnlySelectedLeft'
  <2>1. CardNode(card)' = CardNode(card) /\ RenderNode(render)' = RenderNode(render)
    BY <1>1 DEF CardNode, RenderNode
  <2> QED BY <1>1, <1>2, <2>1 DEF DisplayInv, OnlySelectedLeft
<1> QED BY <1>3, <1>4, <1>5, <1>6 DEF DisplayInv, IsSelection

LEMMA ApplyKeeps == DisplayInv /\ ApplySelections => DisplayInv'
<1> SUFFICES ASSUME DisplayInv, ApplySelections PROVE DisplayInv'
  OBVIOUS
<1> DEFINE s == ProcessBootOverrides(sel)
<1>1. /\ UNCHANGED <<machine, params, sysfb, card, render, hidden>>
      /\ stage = "apply" /\ stage' \in {"terminated", "done"}
      /\ sel' = SwitchVulkanApex(s) /\ running' \subseteq running
  BY DEF ApplySelections
<1>2. UNCHANGED <<Cards, Renders, DrmNodes, SysfbReads, SelectedCard, SelectedRender>>
  BY <1>1, SelectionStable
<1>3. IsSelection(sel) /\ params \in Params
  BY DEF DisplayInv, DisplayTypeOK
<1>4. /\ IsSelection(s)
      /\ DOMAIN params.overrides \cap {"egl", "gles", "vulkanApex"} = {} /\ Fallback(sel)
           => Fallback(s)
  BY <1>3, ApplySelects
<1> HIDE DEF s
<1>5. IsSelection(sel')
  BY <1>1, <1>3, <1>4, ApplySelects
<1>6. SoftwareFallback'
  <2> SUFFICES ASSUME stage' = "done", render = None,
                      DOMAIN params.overrides \cap {"egl", "gles", "vulkanApex"} = {}
               PROVE  CpuRendered'
    BY <1>1 DEF SoftwareFallback
  <2>1. Fallback(s)
    BY <1>1, <1>4 DEF DisplayInv, FallbackKept
  <2>2. Fallback(sel') /\ sel'.vulkan = "unset"
    BY <1>1, <1>3, <1>4, <2>1, ApplySelects
  <2> QED BY <2>2 DEF CpuRendered, Fallback
<1>7. DisplayTypeOK'
  BY <1>1, <1>2, <1>5, UnsetSelection DEF DisplayInv, DisplayTypeOK, IsSelection
<1>8. Chosen' /\ FallbackKept'
  BY <1>1, <1>2, <1>6 DEF DisplayInv, Chosen, FallbackKept
<1>9. OnlySelectedLeft'
  <2>1. CardNode(card)' = CardNode(card) /\ RenderNode(render)' = RenderNode(render)
    BY <1>1 DEF CardNode, RenderNode
  <2> QED BY <1>1, <2>1 DEF DisplayInv, OnlySelectedLeft
<1> QED BY <1>5, <1>7, <1>8, <1>9 DEF DisplayInv, IsSelection

LEMMA StutterKeeps == DisplayInv /\ UNCHANGED vars => DisplayInv'
<1> SUFFICES ASSUME DisplayInv, UNCHANGED vars PROVE DisplayInv'
  OBVIOUS
<1>1. UNCHANGED <<machine, params, sysfb, stage, card, render, hidden, sel, running>>
  BY DEF vars
<1>2. UNCHANGED <<Cards, Renders, DrmNodes, SysfbReads, SelectedCard, SelectedRender>>
  BY <1>1, SelectionStable
<1> QED BY <1>1, <1>2 DEF DisplayInv, DisplayTypeOK, IsSelection, Chosen, OnlySelectedLeft,
          CardNode, RenderNode, FallbackKept, Fallback, SoftwareFallback, CpuRendered

\* The invariant of the service holds in every reachable state.
THEOREM DisplayInvariant == Spec => []DisplayInv
<1>1. DisplayInv /\ [Next]_vars => DisplayInv'
  BY StartKeeps, SelectDevicesKeeps, HideKeeps, HandlersKeep, ApplyKeeps, StutterKeeps DEF Next
<1> QED BY InitDisplay, <1>1, PTL DEF Spec

-----------------------------------------------------------------------------
(* What follows *)

\* The state of the service stays in its domain, with any GPUs: every handler keeps the
\* selection a function on its names, and whatever is selected is there.
THEOREM DisplayTypeCorrect == Spec => []DisplayTypeOK
<1>1. DisplayInv => DisplayTypeOK
  BY DEF DisplayInv
<1> QED BY <1>1, DisplayInvariant, PTL

\* When anything is selected for the two devices exactly the others are hidden, and the
\* selected ones never are.
THEOREM OnlySelectedDevicesLeft == Spec => []OnlySelectedLeft
<1>1. DisplayInv => OnlySelectedLeft
  BY DEF DisplayInv
<1> QED BY <1>1, DisplayInvariant, PTL

\* The four strategies of GetDrmCardRenderDevicePair are one order of the cards, and they
\* select the first of the best ones, among any number of GPUs.
THEOREM BestCardSelected == Spec => []BestCard
<1>1. DisplayInv => BestCard
  <2> SUFFICES ASSUME DisplayInv, card # None, PreferredCards = {}, PreferredRenders = {}
               PROVE  /\ \A g \in Cards : \/ g = card \/ Better(card, g)
                                          \/ ~Better(g, card) /\ Before(card, g)
                      /\ render \in {card, None}
    BY DEF BestCard
  <2>1. card = StrategyCard /\ render = StrategyRender
    BY DEF DisplayInv, Chosen, SelectedCard, SelectedRender
  <2>2. Cards # {}
    BY DEF DisplayInv, DisplayTypeOK
  <2>3. render \in {card, None}
    BY <2>1 DEF StrategyCard, StrategyRender
  <2> QED BY <2>1, <2>2, <2>3, StrategyBest
<1> QED BY <1>1, DisplayInvariant, PTL

\* The card and the render that the user prefers are used if they are there.
THEOREM PreferredSelected == Spec => []PreferredUsed
<1>1. DisplayInv => PreferredUsed
  <2> SUFFICES ASSUME DisplayInv, card # None
               PROVE  /\ PreferredCards # {} => card \in PreferredCards
                      /\ PreferredRenders # {} => render \in PreferredRenders
    BY DEF PreferredUsed
  <2>1. PreferredCards # {} => card \in PreferredCards
    BY FirstOfSet, DeviceSets DEF DisplayInv, Chosen, SelectedCard
  <2>2. PreferredRenders # {} => render \in PreferredRenders
    BY FirstOfSet, DeviceSets DEF DisplayInv, Chosen, SelectedRender
  <2> QED BY <2>1, <2>2
<1> QED BY <1>1, DisplayInvariant, PTL

\* Without a render and an override of what it takes everything is drawn by the CPU: no handler of
\* a card and no switch of the Vulkan APEX undoes it, whatever the cards are.
THEOREM SoftwareFallbackKept == Spec => []SoftwareFallback
<1>1. DisplayInv => SoftwareFallback
  BY DEF DisplayInv, FallbackKept
<1> QED BY <1>1, DisplayInvariant, PTL

-----------------------------------------------------------------------------
(* The HAL services *)

Framebuffer(s) ==
  s.allocator = "gralloc-2-0" /\ s.composer = "hwcomposer-2-2" /\ s.gralloc = "default"

Minigbm(s) ==
  /\ s.allocator = "minigbm_upstream" /\ s.gralloc = "minigbm_upstream"
  /\ s.composer \in {"drm_upstream", "drmfb"}

Matching(s) == Framebuffer(s) \/ Minigbm(s)

\* The HALs that the user has not overridden.
OwnHals == {"allocator", "composer", "gralloc"} \ DOMAIN params.overrides

SameHals(s, t) ==
  t.allocator = s.allocator /\ t.composer = s.composer /\ t.gralloc = s.gralloc

\* From the first selection of HALs on, the three belong together, and no service is
\* stopped before they are applied.
HalsKept ==
  /\ stage \in {"card", "render", "apply"} => Matching(sel)
  /\ stage # "done" => running = Allocators \cup Composers
  /\ HalsMatch

LEMMA SwiftshaderSameHals ==
  ASSUME NEW s, IsSelection(s)
  PROVE  SameHals(s, UseSwiftshaderGraphics(s))
BY DEF IsSelection, Names, UseSwiftshaderGraphics, SameHals

LEMMA FramebufferHals ==
  ASSUME NEW s, IsSelection(s)
  PROVE  Framebuffer(SetupFramebufferDisplay(s))
<1> DEFINE t == [s EXCEPT !.gralloc = "default", !.hwc = "unset", !.allocator = "gralloc-2-0",
                          !.composer = "hwcomposer-2-2", !.format = "BGRA"]
<1>1. IsSelection(t) /\ Framebuffer(t)
  BY DEF IsSelection, Names, Framebuffer
<1>2. SetupFramebufferDisplay(s) = UseSwiftshaderGraphics(t)
  BY DEF SetupFramebufferDisplay
<1> HIDE DEF t
<1> QED BY <1>1, <1>2, SwiftshaderSameHals DEF SameHals, Framebuffer

LEMMA DefaultHals ==
  ASSUME NEW s, IsSelection(s)
  PROVE  Minigbm(SetDefaultsForDrmDisplay(s))
<1> DEFINE hals == [s EXCEPT !.allocator = "minigbm_upstream", !.gralloc = "minigbm_upstream",
                             !.composer = IF machine[card].atomic THEN "drm_upstream" ELSE "drmfb"]
<1>1. IsSelection(hals) /\ Minigbm(hals)
  BY DEF IsSelection, Names, Minigbm
<1>2. SetDefaultsForDrmDisplay(s) \in {[hals EXCEPT !.egl = "mesa"], UseSwiftshaderGraphics(hals)}
  BY DEF SetDefaultsForDrmDisplay
<1> HIDE DEF hals
<1>3. SameHals(hals, [hals EXCEPT !.egl = "mesa"])
  BY <1>1 DEF IsSelection, Names, SameHals
<1> QED BY <1>1, <1>2, <1>3, SwiftshaderSameHals DEF SameHals, Minigbm

\* The handler of a card's driver keeps the HALs or goes over to those of a framebuffer.
LEMMA CardHals ==
  ASSUME NEW s, IsSelection(s), Matching(s)
  PROVE  Matching(CardHandler(s))
<1>1. SameHals(s, DrmVirtiogpu(s, card, FALSE))
  BY DEF DrmVirtiogpu, SameHals, IsSelection, Names
<1>2. \A v : SameHals(s, [s EXCEPT !.vulkan = v])
  BY DEF SameHals, IsSelection, Names
<1>3. CardHandler(s) \in {SetupFramebufferDisplay(s), [s EXCEPT !.vulkan = "freedreno"],
                         DrmVirtiogpu(s, card, FALSE), [s EXCEPT !.vulkan = "imagination"], s}
  BY DEF CardHandler
<1>4. \A t : SameHals(s, t) => Matching(t)
  BY DEF SameHals, Matching, Framebuffer, Minigbm
<1>5. Matching(SetupFramebufferDisplay(s)) /\ Matching(DrmVirtiogpu(s, card, FALSE))
  BY <1>1, <1>4, FramebufferHals DEF Matching
<1>6. Matching([s EXCEPT !.vulkan = "freedreno"]) /\ Matching([s EXCEPT !.vulkan = "imagination"])
  BY <1>2, <1>4
<1> QED BY <1>3, <1>5, <1>6

\* The handler of a render's driver selects no HAL.
LEMMA RenderHals ==
  ASSUME NEW s, IsSelection(s)
  PROVE  SameHals(s, RenderHandler(s))
<1>1. \A chip : SameHals(s, DrmI915Render(s, chip))
  <2>1. TAKE chip
  <2> DEFINE mesa == [s EXCEPT !.gles = "3.2", !.vulkan = "intel"]
             base == IF params.swiftshader THEN UseSwiftshaderGraphics(s) ELSE mesa
             gen78 == \/ chip \in 1..\h0F33 \/ chip \in \h1602..\h162E
                      \/ chip \in \h22B0..\h22B3
  <2>2. IsSelection(mesa) /\ SameHals(s, mesa)
    BY DEF IsSelection, Names, SameHals
  <2>3. IsSelection(base) /\ SameHals(s, base)
    BY <2>2, SwiftshaderSelects, SwiftshaderSameHals
  <2>4. DrmI915Render(s, chip) = IF gen78 THEN [base EXCEPT !.vulkan = "intel_hasvk"] ELSE base
    BY DEF DrmI915Render
  <2> HIDE DEF base, gen78
  <2>5. SameHals(s, [base EXCEPT !.vulkan = "intel_hasvk"])
    BY <2>3 DEF IsSelection, Names, SameHals
  <2> QED BY <2>3, <2>4, <2>5
<1>2. SameHals(s, DrmVirtiogpu(s, render, TRUE))
  <2>1. ASSUME NEW b, IsSelection(b)
        PROVE  SameHals(b, [b EXCEPT !.egl = "mesa", !.vulkan = "virtio", !.gles = "3.2"])
    BY <2>1 DEF IsSelection, Names, SameHals
  <2>2. IsSelection([s EXCEPT !.format = "BGRA"]) /\ SameHals(s, [s EXCEPT !.format = "BGRA"])
    BY DEF IsSelection, Names, SameHals
  <2>3. \A b, t : SameHals(s, b) /\ SameHals(b, t) => SameHals(s, t)
    BY DEF SameHals
  <2> QED BY <2>1, <2>2, <2>3, SwiftshaderSameHals DEF DrmVirtiogpu
<1>3. ASSUME NEW b, NEW g, NEW v
      PROVE  /\ SameHals(s, [s EXCEPT !.backend = b, !.gles = g, !.vulkan = v])
             /\ SameHals(s, [s EXCEPT !.backend = b, !.gles = g])
             /\ SameHals(s, [s EXCEPT !.gles = g, !.vulkan = v])
             /\ SameHals(s, [s EXCEPT !.gles = g])
             /\ SameHals(s, [s EXCEPT !.vulkan = v])
             /\ SameHals(s, s)
  BY DEF IsSelection, Names, SameHals
<1> QED BY <1>1, <1>2, <1>3 DEF RenderHandler

\* An override of a HAL changes no other one, and the switch of the Vulkan APEX selects
\* none.
LEMMA ApplyHals ==
  ASSUME NEW s, IsSelection(s), params \in Params
  PROVE  /\ \A f \in OwnHals : ProcessBootOverrides(s)[f] = s[f]
         /\ SameHals(s, SwitchVulkanApex(s))
<1>1. \A f \in OwnHals : ProcessBootOverrides(s)[f] = s[f]
  BY DEF OwnHals, ProcessBootOverrides, IsSelection, Names
<1>2. SameHals(s, SwitchVulkanApex(s))
  BY DEF SwitchVulkanApex, SameHals, IsSelection, Names
<1> QED BY <1>1, <1>2

\* What was selected is one of the sets of HALs.
LEMMA MatchingSet ==
  ASSUME NEW s, Matching(s)
  PROVE  /\ \E hals \in HalSets : \A f \in {"allocator", "composer", "gralloc"} : s[f] = hals[f]
         /\ s.allocator \in Allocators /\ s.composer \in Composers
<1>1. CASE Framebuffer(s)
  <2> DEFINE hals == [allocator |-> "gralloc-2-0", composer |-> "hwcomposer-2-2", gralloc |-> "default"]
  <2>1. hals \in HalSets
    BY DEF HalSets
  <2>2. \A f \in {"allocator", "composer", "gralloc"} : s[f] = hals[f]
    BY <1>1 DEF Framebuffer
  <2> QED BY <1>1, <2>1, <2>2 DEF Framebuffer, Allocators, Composers
<1>2. CASE Minigbm(s)
  <2> DEFINE hals == [allocator |-> "minigbm_upstream", composer |-> s.composer,
                      gralloc |-> "minigbm_upstream"]
  <2>1. hals \in HalSets
    BY <1>2 DEF HalSets, Minigbm
  <2>2. \A f \in {"allocator", "composer", "gralloc"} : s[f] = hals[f]
    BY <1>2 DEF Minigbm
  <2> QED BY <1>2, <2>1, <2>2 DEF Minigbm, Allocators, Composers
<1> QED BY <1>1, <1>2 DEF Matching

\* Of the services of a HAL, which are all running, the selected one is left, whatever
\* becomes of those of the other HAL.
LEMMA StoppedHals ==
  ASSUME NEW a, NEW c
  PROVE  LET left == (Allocators \cup Composers) \ (StopOthers(Allocators, a)
                                                    \cup StopOthers(Composers, c))
         IN  /\ a \in Allocators => left \cap Allocators = {a}
             /\ c \in Composers => left \cap Composers = {c}
<1> DEFINE left == (Allocators \cup Composers) \ (StopOthers(Allocators, a)
                                                  \cup StopOthers(Composers, c))
<1>1. Allocators \cap Composers = {} /\ "unset" \notin Allocators \cup Composers
  BY DEF Allocators, Composers
<1>2. /\ StopOthers(Allocators, a) \subseteq Allocators
      /\ StopOthers(Composers, c) \subseteq Composers
  BY DEF StopOthers
<1>3. ASSUME a \in Allocators PROVE left \cap Allocators = {a}
  <2>1. StopOthers(Allocators, a) = Allocators \ {a}
    BY <1>1, <1>3 DEF StopOthers
  <2> QED BY <1>1, <1>2, <1>3, <2>1
<1>4. ASSUME c \in Composers PROVE left \cap Composers = {c}
  <2>1. StopOthers(Composers, c) = Composers \ {c}
    BY <1>1, <1>4 DEF StopOthers
  <2> QED BY <1>1, <1>2, <1>4, <2>1
<1> QED BY <1>3, <1>4

LEMMA HalsStep == DisplayInv /\ HalsKept /\ [Next]_vars => HalsKept'
<1> SUFFICES ASSUME DisplayInv, HalsKept, [Next]_vars PROVE HalsKept'
  OBVIOUS
<1>1. IsSelection(sel) /\ params \in Params
  BY DEF DisplayInv, DisplayTypeOK
<1>2. CASE Start
  <2> DEFINE s == [sel EXCEPT !.audio = IF params.sound THEN "tinyhal" ELSE "unset",
                              !.usb = IF params.usb THEN "mainline" ELSE "none"]
  <2>1. IsSelection(s)
    BY <1>1 DEF IsSelection, Names
  <2>2. \/ sel' = SetupFramebufferDisplay(s) /\ stage' = "apply"
        \/ stage' = "select"
    BY <1>2 DEF Start
  <2> HIDE DEF s
  <2>3. UNCHANGED running /\ stage # "done"
    BY <1>2 DEF Start
  <2> QED BY <2>1, <2>2, <2>3, FramebufferHals DEF HalsKept, HalsMatch, Matching
<1>3. CASE SelectDevices
  <2>1. UNCHANGED running /\ stage # "done"
    BY <1>3 DEF SelectDevices
  <2>2. \/ stage' \in {"terminated", "hide"}
        \/ stage' = "apply" /\ sel' = SetupFramebufferDisplay(sel)
    BY <1>3 DEF SelectDevices
  <2> QED BY <1>1, <2>1, <2>2, FramebufferHals DEF HalsKept, HalsMatch, Matching
<1>4. CASE HideDevice
  BY <1>4 DEF HideDevice, HalsKept, HalsMatch
<1>5. CASE HideDone
  BY <1>1, <1>5, DefaultHals DEF HideDone, HalsKept, HalsMatch, Matching
<1>6. CASE HandleCard
  BY <1>1, <1>6, CardHals DEF HandleCard, HalsKept, HalsMatch
<1>7. CASE HandleRender
  <2>1. SameHals(sel, sel')
    BY <1>1, <1>7, RenderHals DEF HandleRender, SameHals
  <2>2. Matching(sel')
    BY <1>7, <2>1 DEF HandleRender, HalsKept, SameHals, Matching, Framebuffer, Minigbm
  <2> QED BY <1>7, <2>2 DEF HandleRender, HalsKept, HalsMatch
<1>8. CASE ApplySelections
  <2> DEFINE o == ProcessBootOverrides(sel)
             s == SwitchVulkanApex(o)
  <2>1. /\ UNCHANGED params /\ sel' = s
        /\ \/ stage' = "terminated" /\ running' = running
           \/ /\ stage' = "done"
              /\ running' = running \ (StopOthers(Allocators, s.allocator)
                                       \cup StopOthers(Composers, s.composer))
    BY <1>8 DEF ApplySelections
  <2>2. IsSelection(o) /\ \A f \in OwnHals : o[f] = sel[f]
    BY <1>1, ApplySelects, ApplyHals
  <2> HIDE DEF o
  <2>3. SameHals(o, s)
    BY <1>1, <2>2, ApplyHals
  <2> HIDE DEF s
  <2>4. Matching(sel) /\ running = Allocators \cup Composers
    BY <1>8 DEF ApplySelections, HalsKept
  <2>5. \A f \in OwnHals : s[f] = sel[f]
    BY <2>2, <2>3 DEF SameHals, OwnHals
  <2>6. PICK hals \in HalSets : \A f \in {"allocator", "composer", "gralloc"} : sel[f] = hals[f]
    BY <2>4, MatchingSet
  <2>7. \A f \in OwnHals : s[f] = hals[f]
    BY <2>5, <2>6 DEF OwnHals
  <2>8. /\ "allocator" \in OwnHals => s.allocator \in Allocators
        /\ "composer" \in OwnHals => s.composer \in Composers
    BY <2>4, <2>5, MatchingSet
  <2>9. CASE stage' = "terminated" /\ running' = running
    BY <2>4, <2>9 DEF HalsKept, HalsMatch
  <2>10. CASE /\ stage' = "done"
              /\ running' = running \ (StopOthers(Allocators, s.allocator)
                                       \cup StopOthers(Composers, s.composer))
    <3>1. /\ "allocator" \in OwnHals => running' \cap Allocators = {s.allocator}
          /\ "composer" \in OwnHals => running' \cap Composers = {s.composer}
      BY <2>4, <2>8, <2>10, StoppedHals
    <3>2. HalsMatch'
      BY <2>1, <2>7, <3>1 DEF HalsMatch, OwnHals, HalSets, Allocators, Composers
    <3> QED BY <2>10, <3>2 DEF HalsKept
  <2> QED BY <2>1, <2>9, <2>10
<1>9. CASE UNCHANGED vars
  BY <1>9 DEF vars, HalsKept, HalsMatch
<1> QED BY <1>2, <1>3, <1>4, <1>5, <1>6, <1>7, <1>8, <1>9 DEF Next

\* The allocator, the composer and gralloc that the user has not overridden belong
\* together, whatever the handlers of the drivers select and whatever else is overridden.
THEOREM HalsBelongTogether == Spec => []HalsMatch
<1>1. Init => HalsKept
  BY DEF Init, HalsKept, HalsMatch
<1>2. HalsKept => HalsMatch
  BY DEF HalsKept
<1> QED BY <1>1, <1>2, HalsStep, DisplayInvariant, PTL DEF Spec
=============================================================================
