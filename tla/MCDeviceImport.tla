--------------------------- MODULE MCDeviceImport ---------------------------
(* DeviceImport with few sessions and devices, as model values.             *)
EXTENDS DeviceImportInv, TLC

SessionSymmetry == Permutations(Sessions)

CallFaults == {"list", "capture", "timeout", "open", "release"}
AllFaults  == CallFaults \cup {"replug", "cli", "kill"}
Replugs    == {"replug"}
NoFaults   == {}
=============================================================================
