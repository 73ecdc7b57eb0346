----------------------------- MODULE Protection -----------------------------
(***************************************************************************)
(* What the program tells of its virus databases (cw_utils.cpp) and of     *)
(* newer versions of itself (cw_update_checker.cpp).                       *)
(***************************************************************************)
EXTENDS Integers, Sequences

CONSTANTS Periods,     \* bound: time is counted in periods 0 .. Periods
          PeriodDays,  \* days in a period
          Local        \* CLAMWIN_VERSION_STR, parsed

ASSUME ProtectionAssumption == Periods \in Nat /\ PeriodDays \in Nat \ {0}

None == -1

(* A database folder: whether it has main.cld or main.cvd, and when each   *)
(* form of the daily database was written.                                 *)
Stamps == {None} \cup 0 .. Periods
Folder == [main : BOOLEAN, cld : Stamps, cvd : Stamps]
NoFiles == [main |-> FALSE, cld |-> None, cvd |-> None]

(* CW_GetDBInfo: the .cld is read when there is one.                       *)
GetDBInfo(files) ==
    [main |-> files.main,
     daily |-> IF files.cld # None THEN files.cld ELSE files.cvd]

(* CW_GetProtectionStatus: without a daily database there is no age.       *)
GetProtectionStatus(files, now) ==
    LET info == GetDBInfo(files)
        days == (now - info.daily) * PeriodDays
    IN  IF ~info.main /\ info.daily = None THEN "error"
        ELSE IF info.daily = None THEN "ok"
        ELSE IF days > 14 THEN "error"
        ELSE IF days > 5 THEN "warn"
        ELSE "ok"

(* parseVersion: a tag with fewer than two numbers is no version.          *)
Parsed(tag) == Len(tag) >= 2
Part(tag, n) == IF n <= Len(tag) THEN tag[n] ELSE 0

isNewerVersion(tag) ==
    /\ Parsed(tag)
    /\ \E n \in 1 .. 3 :
         /\ Part(tag, n) > Part(Local, n)
         /\ \A k \in 1 .. n - 1 : Part(tag, k) = Part(Local, k)
=============================================================================
