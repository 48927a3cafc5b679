------------------------------ MODULE PortLease ------------------------------
(***************************************************************************)
(* What LibvirtQemuRuntime promises about the host ports it forwards: a    *)
(* tenant name holds at most one port, no two names hold the same one, and *)
(* a port goes from one name to another only by being given back first.    *)
(* A restart of the backend forgets every lease at once.                   *)
(***************************************************************************)
CONSTANTS Names, Ports, None

VARIABLE lease   \* lease[n]: the port n holds, or None

Init == lease = [n \in Names |-> None]

Free(p) == \A n \in Names : lease[n] # p

Grant(n) ==
  /\ lease[n] = None
  /\ \E p \in Ports : Free(p) /\ lease' = [lease EXCEPT ![n] = p]

GiveBack(n) ==
  /\ lease[n] # None
  /\ lease' = [lease EXCEPT ![n] = None]

Forget == lease' = [n \in Names |-> None]

Next == Forget \/ \E n \in Names : Grant(n) \/ GiveBack(n)

Spec == Init /\ [][Next]_lease
==============================================================================
