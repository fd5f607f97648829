------------------------- MODULE MCColdbootModules -------------------------
(***************************************************************************)
(* A module that two buses bring in and depends on both, a fourth that     *)
(* depends on all of them, and one of the buses asked for by a uevent of   *)
(* its own.                                                                *)
(***************************************************************************)
EXTENDS ColdbootModules

MCTasks == {"usb", "i2c", "touch", "pen"}

MCPriority == [m \in MCTasks |-> 0]

MCDeps ==
  [m \in MCTasks |-> CASE m = "pen" -> {"usb", "i2c", "touch"}
                       [] m = "touch" -> {"usb", "i2c"}
                       [] OTHER -> {}]

MCAliases == {"pen", "usb"}
=============================================================================
