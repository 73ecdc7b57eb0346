-------------------------------- MODULE Job ---------------------------------
(***************************************************************************)
(* What a CWProcess object promises to the code that owns it: every        *)
(* successful start() is answered by exactly one onFinished callback, and  *)
(* the object returns to rest only after that callback has been made, so   *)
(* that no callback can reach an owner that has let the object go.         *)
(*                                                                         *)
(* Process.tla is shown to implement this module; Background.tla is built on  *)
(* its actions.                                                            *)
(***************************************************************************)
CONSTANT Procs      \* the CWProcess objects

VARIABLE status     \* per object: at rest, a child running, or reported

Status == {"idle", "running", "reported"}

TypeOK == status \in [Procs -> Status]

Init == status = [p \in Procs |-> "idle"]

(* start() returned true: a child and its reader thread exist.             *)
Begin(p) ==
    /\ status[p] = "idle"
    /\ status' = [status EXCEPT ![p] = "running"]

(* The reader thread calls onFinished.                                     *)
Report(p) ==
    /\ status[p] = "running"
    /\ status' = [status EXCEPT ![p] = "reported"]

(* stop() has joined the reader thread and freed the context.              *)
Release(p) ==
    /\ status[p] = "reported"
    /\ status' = [status EXCEPT ![p] = "idle"]

Next == \E p \in Procs : Begin(p) \/ Report(p) \/ Release(p)

Spec == Init /\ [][Next]_status

=============================================================================
