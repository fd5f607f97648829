--------------------------- MODULE MCHardwareDetect ---------------------------
(***************************************************************************)
(* HardwareDetect with up to three GPUs of the kinds its handlers tell     *)
(* apart.                                                                  *)
(***************************************************************************)
EXTENDS HardwareDetect

MCGpus == 0..2

Gpu(driver, kms, connected, hasRender) ==
  [driver |-> driver, kms |-> kms, connected |-> connected, render |-> hasRender,
   atomic |-> TRUE, threeD |-> FALSE, chip |-> 0]

\* Nothing, and a device that cannot be opened.
NoGpu == Gpu("none", FALSE, FALSE, FALSE)
Unusable == Gpu("unknown", FALSE, FALSE, FALSE)

MCGpuKinds ==
  {NoGpu, Unusable,
   Gpu("simpledrm", TRUE, TRUE, FALSE),
   Gpu("qxl", TRUE, TRUE, FALSE),
   Gpu("rockchip", TRUE, TRUE, FALSE),
   Gpu("panfrost", FALSE, FALSE, TRUE),
   Gpu("mediatek", TRUE, FALSE, FALSE),
   [Gpu("msm", TRUE, TRUE, TRUE) EXCEPT !.atomic = FALSE],
   Gpu("i915", TRUE, FALSE, TRUE),
   [Gpu("i915", TRUE, TRUE, TRUE) EXCEPT !.chip = \h0166],
   Gpu("virtio_gpu", TRUE, TRUE, FALSE),
   [Gpu("virtio_gpu", TRUE, TRUE, TRUE) EXCEPT !.threeD = TRUE]}

NoParams ==
  [useFb |-> FALSE, swiftshader |-> FALSE, reverse |-> FALSE, virtualBox |-> FALSE,
   sound |-> TRUE, usb |-> TRUE, preferCard |-> "", preferRender |-> "", overrides |-> <<>>]

MCParams ==
  {NoParams,
   [NoParams EXCEPT !.useFb = TRUE, !.sound = FALSE],
   [NoParams EXCEPT !.swiftshader = TRUE, !.usb = FALSE],
   [NoParams EXCEPT !.reverse = TRUE],
   [NoParams EXCEPT !.preferCard = "qxl"],
   [NoParams EXCEPT !.preferCard = "virtio_gpu", !.reverse = TRUE],
   [NoParams EXCEPT !.preferRender = "panfrost"],
   [NoParams EXCEPT !.overrides = [hwc |-> "other"]],
   [NoParams EXCEPT !.overrides = [vulkanApex |-> "no_apex", audio |-> "unset"]],
   [NoParams EXCEPT !.overrides = [allocator |-> "gralloc-2-0", vulkan |-> "lvp"]],
   [NoParams EXCEPT !.overrides = [composer |-> "other", gralloc |-> "gbm"]],
   [NoParams EXCEPT !.useFb = TRUE, !.overrides = [composer |-> "unset"]]}
=============================================================================
