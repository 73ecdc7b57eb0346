---------------------------- MODULE MCScanDialog ----------------------------
(* Model-checking instances of ScanDialog.                                 *)
EXTENDS ScanDialog

AllModes == {"scan", "memory", "update"}

(* A dialog opened from the tray, and both command-line modes.             *)
AllPolicies == {Disabled, OnAnyResult, CliPolicy(FALSE, TRUE),
                CliPolicy(TRUE, TRUE)}
ScanOnly == {"scan"}
NeverClose == {CliPolicy(FALSE, FALSE)}
=============================================================================
