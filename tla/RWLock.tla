------------------------------- MODULE RWLock -------------------------------
(***************************************************************************)
(* What every lock of src/intl/lock.h promises its users: any number of    *)
(* readers, or one writer.  A plain or a recursive lock is one that is     *)
(* only ever taken for writing; its nested calls are stutters.             *)
(***************************************************************************)
CONSTANT Threads

VARIABLE holds   (* what each thread holds: "none", "read" or "write" *)

Init == holds = [t \in Threads |-> "none"]

Take(t) ==
  /\ holds[t] = "none"
  /\ \/ /\ \A u \in Threads : holds[u] # "write"
        /\ holds' = [holds EXCEPT ![t] = "read"]
     \/ /\ \A u \in Threads : holds[u] = "none"
        /\ holds' = [holds EXCEPT ![t] = "write"]

Release(t) ==
  /\ holds[t] # "none"
  /\ holds' = [holds EXCEPT ![t] = "none"]

Next == \E t \in Threads : Take(t) \/ Release(t)

Spec == Init /\ [][Next]_holds
=============================================================================
