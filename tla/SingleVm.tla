------------------------------ MODULE SingleVm ------------------------------
(***************************************************************************)
(* What the process manager promises to the rest of the BMC: one VM at a   *)
(* time, and a running flag (IsRunning) that may lag behind the end of the *)
(* VM but never claims that a live VM is off.                              *)
(***************************************************************************)
EXTENDS Naturals

VARIABLES vm,     \* generation of the VM that exists, 0 when there is none
          seen,   \* what IsRunning answers
          last    \* generation of the last VM ever started

vmVars == <<vm, seen, last>>

Init == vm = 0 /\ seen = FALSE /\ last = 0

\* A new VM starts only when there is none and the last one's end is known.
Boot ==
    /\ vm = 0
    /\ ~seen
    /\ last' = last + 1
    /\ vm' = last + 1
    /\ seen' = TRUE

\* The VM ends, for whatever reason; nobody has noticed yet.
End == vm # 0 /\ vm' = 0 /\ UNCHANGED <<seen, last>>

Notice == vm = 0 /\ seen /\ seen' = FALSE /\ UNCHANGED <<vm, last>>

Next == Boot \/ End \/ Notice

Spec == Init /\ [][Next]_vmVars
=============================================================================
