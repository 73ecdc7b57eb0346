----------------------------- MODULE AutoClose ------------------------------
(* When a progress dialog closes by itself (cw_auto_close.cpp).            *)
EXTENDS Integers

NoChanges == 2      \* CW_UPDATE_RC_NO_CHANGES

(* Whether the exit codes that close the dialog are limited to codes.      *)
Policy(enabled, allowCancelled, limited, codes) ==
    [enabled |-> enabled, allowCancelled |-> allowCancelled,
     limited |-> limited, codes |-> codes]

Disabled == Policy(FALSE, FALSE, FALSE, {})
OnAnyResult == Policy(TRUE, TRUE, FALSE, {})
OnExitCode(c) == Policy(TRUE, TRUE, TRUE, {c})
OnExitCodes(c, d) == Policy(TRUE, FALSE, TRUE, {c, d})

(* The policy that --close gives the two command-line modes.               *)
CliPolicy(isUpdate, closeRequested) ==
    IF ~closeRequested THEN Disabled
    ELSE IF isUpdate THEN OnExitCodes(0, NoChanges) ELSE OnExitCode(0)

ShouldAutoClose(policy, code, cancelled) ==
    /\ policy.enabled
    /\ IF cancelled THEN policy.allowCancelled
       ELSE policy.limited => code \in policy.codes

=============================================================================
