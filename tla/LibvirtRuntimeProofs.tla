------------------------- MODULE LibvirtRuntimeProofs -------------------------
(***************************************************************************)
(* Proofs that LibvirtRuntime is type correct, that its lifecycle lock and *)
(* its port pool are sound for any number of callers, tenants and ports,   *)
(* and that it implements PortLease.                                       *)
(***************************************************************************)
EXTENDS LibvirtRuntime, TLAPS

USE PortsAreNumbers, NoneIsFresh, KnownFaults, SwitchIsBoolean

\* A call that has not returned knows its operation and its tenant name.
CallKnown ==
  \A c \in Callers : pc[c] # "idle" => call[c].op \in Ops /\ call[c].name \in Names

TypeInv == TypeOK /\ CallKnown

LEMMA InitTypes == Init => TypeInv
  BY DEF Init, TypeInv, TypeOK, CallKnown, NoCall, NoTenant

\* What a command leaves behind is well typed, whatever its result.
LEMMA CommandTypes ==
  ASSUME TypeOK, NEW cmd \in {"install", "start", "destroy", "undefine"},
         NEW n \in Names, NEW r, RunCommand(cmd, n, r)
  PROVE  /\ defined' \subseteq Names /\ active' \subseteq Names
         /\ leases' \subseteq Names  /\ late' \subseteq Commands
  <1>1. CASE Effect(cmd, n) /\ UNCHANGED late
    BY <1>1 DEF TypeOK, Effect
  <1>2. CASE UNCHANGED libvirtd /\ late' \subseteq late \cup {[cmd |-> cmd, name |-> n]}
    BY <1>2 DEF TypeOK, libvirtd, Commands
  <1>3. CASE /\ defined' \in {defined} \cup
                  (IF cmd = "install" /\ Applies(cmd, n) THEN {defined \cup {n}} ELSE {})
             /\ UNCHANGED <<active, leases, late>>
    BY <1>3 DEF TypeOK
  <1> QED
    BY <1>1, <1>2, <1>3 DEF RunCommand, libvirtd

\* The locals of the calls and the lock, as far as types go.
ControlOK ==
  /\ lock \in Callers \cup {None}
  /\ pc \in [Callers -> Steps \cup {"idle", "lock"}]
  /\ call \in [Callers -> [op   : Ops \cup {None},   name : Names \cup {None},
                           port : Ports \cup {None}, ip   : Names \cup {None},
                           pid  : Nat \cup {None}]]
  /\ CallKnown

LEMMA ReturnTypes ==
  ASSUME TypeInv, NEW c \in Callers, Return(c)
  PROVE  ControlOK'
  BY DEF TypeInv, TypeOK, CallKnown, ControlOK, Return, NoCall

LEMMA GotoTypes ==
  ASSUME TypeInv, NEW c \in Callers, pc[c] # "idle", NEW s \in Steps, Goto(c, s),
         \/ UNCHANGED call
         \/ \E p \in Ports \cup {None} : call' = [call EXCEPT ![c].port = p]
         \/ \E m \in Names : call' = [call EXCEPT ![c].ip = m]
         \/ \E i \in Nat : call' = [call EXCEPT ![c].pid = i]
  PROVE  ControlOK'
  <1>1. pc' \in [Callers -> Steps \cup {"idle", "lock"}] /\ lock' = lock
    BY DEF TypeInv, TypeOK, Goto
  <1>2. \A d \in Callers : pc'[d] # "idle" => pc[d] # "idle"
    BY DEF TypeInv, TypeOK, Goto
  <1>3. CASE UNCHANGED call
    BY <1>1, <1>2, <1>3 DEF TypeInv, TypeOK, CallKnown, ControlOK
  <1>4. CASE \E p \in Ports \cup {None} : call' = [call EXCEPT ![c].port = p]
    BY <1>1, <1>2, <1>4 DEF TypeInv, TypeOK, CallKnown, ControlOK
  <1>5. CASE \E m \in Names : call' = [call EXCEPT ![c].ip = m]
    BY <1>1, <1>2, <1>5 DEF TypeInv, TypeOK, CallKnown, ControlOK
  <1>6. CASE \E i \in Nat : call' = [call EXCEPT ![c].pid = i]
    <2>1. PICK i \in Nat : call' = [call EXCEPT ![c].pid = i]
      BY <1>6
    <2>2. call' = [call EXCEPT ![c] = [call[c] EXCEPT !.pid = i]]
      BY <2>1
    <2>3. [call[c] EXCEPT !.pid = i] \in
            [op   : Ops \cup {None},   name : Names \cup {None},
             port : Ports \cup {None}, ip   : Names \cup {None}, pid : Nat \cup {None}]
      BY DEF TypeInv, TypeOK
    <2> QED
      BY <1>1, <1>2, <2>2, <2>3 DEF TypeInv, TypeOK, CallKnown, ControlOK
  <1> QED
    BY <1>3, <1>4, <1>5, <1>6

LEMMA StepTypes ==
  ASSUME TypeInv, NEW c \in Callers, Step(c)
  PROVE  TypeInv'
  <1> USE DEF Steps, CreateSteps, StartSteps, StopSteps, RemoveSteps
  <1>a. /\ call[c].port \in Ports \cup {None} /\ call[c].ip \in Names \cup {None}
        /\ call[c].pid \in Nat \cup {None}
        /\ pc[c] # "idle" => call[c].name \in Names /\ call[c].op \in Ops
    BY DEF TypeInv, TypeOK, CallKnown
  <1>1. CASE CreateCheck(c)
    <2>1. ControlOK'
      BY <1>1, ReturnTypes, GotoTypes DEF CreateCheck
    <2> QED
      BY <1>1, <2>1 DEF CreateCheck, TypeInv, TypeOK, ControlOK, memory, libvirtd, files
  <1>2. CASE CreateAllocate(c)
    <2>1. ControlOK'
      BY <1>a, <1>2, ReturnTypes, GotoTypes DEF CreateAllocate
    <2> QED
      BY <1>a, <1>2, <2>1
      DEF CreateAllocate, TypeInv, TypeOK, ControlOK, memory, libvirtd, files
  <1>3. CASE CreateOverlay(c)
    <2>1. ControlOK'
      BY <1>a, <1>3, ReturnTypes, GotoTypes DEF CreateOverlay
    <2> QED
      BY <1>a, <1>3, <2>1
      DEF CreateOverlay, TypeInv, TypeOK, ControlOK, memory, libvirtd, files
  <1>4. CASE CreateSeed(c)
    <2>1. ControlOK'
      BY <1>a, <1>4, ReturnTypes, GotoTypes DEF CreateSeed
    <2> QED
      BY <1>a, <1>4, <2>1
      DEF CreateSeed, TypeInv, TypeOK, ControlOK, memory, libvirtd, files
  <1>5. CASE CreateSerialLog(c)
    <2>1. ControlOK'
      BY <1>a, <1>5, ReturnTypes, GotoTypes DEF CreateSerialLog
    <2> QED
      BY <1>a, <1>5, <2>1
      DEF CreateSerialLog, TypeInv, TypeOK, ControlOK, memory, libvirtd, files
  <1>6. CASE CreateInstall(c)
    <2>1. ControlOK'
      BY <1>a, <1>6, ReturnTypes, GotoTypes DEF CreateInstall
    <2> QED
      BY <1>a, <1>6, <2>1, CommandTypes
      DEF CreateInstall, TypeInv, TypeOK, ControlOK, memory, libvirtd, files
  <1>7. CASE CreateUndo(c)
    <2>1. ControlOK'
      BY <1>a, <1>7, ReturnTypes, GotoTypes DEF CreateUndo
    <2> QED
      BY <1>a, <1>7, <2>1, CommandTypes
      DEF CreateUndo, TypeInv, TypeOK, ControlOK, memory, libvirtd, files
  <1>8. CASE CreateCommit(c)
    <2>1. ControlOK'
      BY <1>a, <1>8, ReturnTypes, GotoTypes DEF CreateCommit
    <2> QED
      BY <1>a, <1>8, <2>1
      DEF CreateCommit, TypeInv, TypeOK, ControlOK, memory, libvirtd, files, Tracked, Tenant, NoTenant
  <1>9. CASE Discard(c)
    <2>1. ControlOK'
      BY <1>a, <1>9, ReturnTypes, GotoTypes DEF Discard
    <2> QED
      BY <1>a, <1>9, <2>1
      DEF Discard, TypeInv, TypeOK, ControlOK, memory, libvirtd, files
  <1>10. CASE StartDomain(c)
    <2>1. ControlOK'
      BY <1>a, <1>10, ReturnTypes, GotoTypes DEF StartDomain
    <2> QED
      BY <1>a, <1>10, <2>1, CommandTypes
      DEF StartDomain, TypeInv, TypeOK, ControlOK, memory, libvirtd, files
  <1>11. CASE StartLease(c)
    <2>1. ControlOK'
      BY <1>a, <1>11, ReturnTypes, GotoTypes DEF StartLease, TypeInv, TypeOK
    <2> QED
      BY <1>a, <1>11, <2>1
      DEF StartLease, TypeInv, TypeOK, ControlOK, memory, libvirtd, files
  <1>12. CASE StartPort(c)
    <2>1. ControlOK'
      BY <1>a, <1>12, ReturnTypes, GotoTypes DEF StartPort, TypeInv, TypeOK, Tracked, Tenant, NoTenant
    <2> QED
      BY <1>a, <1>12, <2>1
      DEF StartPort, TypeInv, TypeOK, ControlOK, memory, libvirtd, files
  <1>13. CASE StartForward(c)
    <2>1. spawned + 1 \in Nat
      BY DEF TypeInv, TypeOK
    <2>2. ControlOK'
      BY <1>a, <1>13, <2>1, ReturnTypes, GotoTypes DEF StartForward
    <2>3. spawned' \in Nat
      BY <1>13, <2>1 DEF StartForward, TypeInv, TypeOK
    <2>5. forwards' \subseteq Forward
      BY <1>a, <1>13, <2>1 DEF Forward, StartForward, TypeInv, TypeOK
    <2> QED
      BY <1>13, <2>2, <2>3, <2>5
      DEF StartForward, TypeInv, TypeOK, ControlOK, memory, libvirtd, files
  <1>14. CASE StartRecord(c)
    <2>1. ControlOK'
      BY <1>a, <1>14, ReturnTypes, GotoTypes DEF StartRecord
    <2>2. tenants' \in [Names -> Tenant \cup {NoTenant}]
      <3>1. CASE UNCHANGED tenants
        BY <3>1 DEF TypeInv, TypeOK
      <3>2. CASE /\ Tracked(call[c].name)
                 /\ tenants' = [tenants EXCEPT ![call[c].name].pid = call[c].pid,
                                               ![call[c].name].ip  = call[c].ip]
        <4>1. tenants[call[c].name] \in Tenant
          BY <1>a, <1>14, <3>2 DEF StartRecord, Tracked, TypeInv, TypeOK
        <4>2. [tenants[call[c].name] EXCEPT !.pid = call[c].pid, !.ip = call[c].ip] \in Tenant
          BY <1>a, <4>1 DEF Tenant
        <4> QED
          BY <3>2, <4>2 DEF TypeInv, TypeOK
      <3> QED
        BY <1>14, <3>1, <3>2 DEF StartRecord
    <2>3. forwards' \subseteq Forward /\ ports' \subseteq Ports
      BY <1>14 DEF StartRecord, KillPid, TypeInv, TypeOK
    <2> QED
      BY <1>14, <2>1, <2>2, <2>3
      DEF StartRecord, TypeInv, TypeOK, ControlOK, libvirtd, files
  <1>15. CASE StopKill(c)
    <2>1. ControlOK'
      BY <1>a, <1>15, ReturnTypes, GotoTypes DEF StopKill
    <2> QED
      BY <1>a, <1>15, <2>1
      DEF StopKill, TypeInv, TypeOK, ControlOK, memory, libvirtd, files, KillPid
  <1>16. CASE StopDestroy(c)
    <2>1. ControlOK'
      BY <1>a, <1>16, ReturnTypes, GotoTypes DEF StopDestroy, AfterStop
    <2> QED
      BY <1>a, <1>16, <2>1, CommandTypes
      DEF StopDestroy, TypeInv, TypeOK, ControlOK, memory, libvirtd, files
  <1>17. CASE StopClear(c)
    <2>1. ControlOK'
      BY <1>a, <1>17, ReturnTypes, GotoTypes DEF StopClear, AfterStop
    <2>2. tenants' \in [Names -> Tenant \cup {NoTenant}]
      <3>1. CASE ~Tracked(call[c].name)
        BY <1>17, <3>1 DEF StopClear, TypeInv, TypeOK
      <3>2. CASE Tracked(call[c].name)
        <4>1. tenants[call[c].name] \in Tenant
          BY <1>a, <1>17, <3>2 DEF StopClear, Tracked, TypeInv, TypeOK
        <4>2. [tenants[call[c].name] EXCEPT !.pid = None, !.ip = None] \in Tenant
          BY <4>1 DEF Tenant
        <4>3. tenants' = [tenants EXCEPT ![call[c].name] =
                            [tenants[call[c].name] EXCEPT !.pid = None, !.ip = None]]
          BY <1>a, <1>17, <3>2 DEF StopClear, TypeInv, TypeOK
        <4> QED
          BY <1>a, <4>2, <4>3 DEF TypeInv, TypeOK
      <3> QED
        BY <3>1, <3>2
    <2> QED
      BY <1>17, <2>1, <2>2
      DEF StopClear, TypeInv, TypeOK, ControlOK, libvirtd, files
  <1>18. CASE RemoveUndefine(c)
    <2>1. ControlOK'
      BY <1>a, <1>18, ReturnTypes, GotoTypes DEF RemoveUndefine
    <2> QED
      BY <1>a, <1>18, <2>1, CommandTypes
      DEF RemoveUndefine, TypeInv, TypeOK, ControlOK, memory, libvirtd, files
  <1>19. CASE RemoveForget(c)
    <2>1. ControlOK'
      BY <1>a, <1>19, ReturnTypes, GotoTypes DEF RemoveForget, TypeInv, TypeOK, Tracked, Tenant, NoTenant
    <2> QED
      BY <1>a, <1>19, <2>1
      DEF RemoveForget, TypeInv, TypeOK, ControlOK, memory, libvirtd, files, Tracked, Tenant, NoTenant
  <1> QED
    BY <1>1, <1>2, <1>3, <1>4, <1>5, <1>6, <1>7, <1>8, <1>9, <1>10, <1>11, <1>12, <1>13, <1>14, <1>15, <1>16, <1>17, <1>18, <1>19 DEF Step

LEMMA NextTypes ==
  ASSUME TypeInv, [Next]_vars
  PROVE  TypeInv'
  <1>1. CASE UNCHANGED vars
    BY <1>1 DEF TypeInv, TypeOK, CallKnown, vars, memory, libvirtd, files
  <1>2. ASSUME NEW c \in Callers, NEW op \in Ops, NEW n \in Names, Begin(c, op, n)
        PROVE  TypeInv'
    BY <1>2 DEF TypeInv, TypeOK, CallKnown, Begin, NoCall, Steps, Ops, memory,
                libvirtd, files
  <1>3. ASSUME NEW c \in Callers, Acquire(c)
        PROVE  TypeInv'
    <2>1. call[c].op \in Ops
      BY <1>3 DEF Acquire, TypeInv, CallKnown
    <2>2. FirstStep(call[c].op) \in Steps
      BY <2>1 DEF Ops, FirstStep, Steps, CreateSteps, StartSteps, StopSteps
    <2> QED
      BY <1>3, <2>2 DEF TypeInv, TypeOK, CallKnown, Acquire, memory, libvirtd, files
  <1>4. CASE LateCommand
    <2>1. PICK l \in late : Effect(l.cmd, l.name) \/ UNCHANGED libvirtd
      BY <1>4 DEF LateCommand
    <2>2. l.cmd \in {"install", "start", "destroy", "undefine"} /\ l.name \in Names
      BY DEF TypeInv, TypeOK, Commands
    <2>3. defined' \subseteq Names /\ active' \subseteq Names /\ leases' \subseteq Names
      BY <2>1, <2>2 DEF Effect, libvirtd, TypeInv, TypeOK
    <2> QED
      BY <1>4, <2>3 DEF LateCommand, TypeInv, TypeOK, CallKnown, memory, files
  <1>5. CASE Crash
    <2>1. InFlight \subseteq Commands
      BY DEF InFlight, Commands, TypeInv, CallKnown
    <2> QED
      BY <1>5, <2>1 DEF Crash, TypeInv, TypeOK, CallKnown, NoCall, NoTenant, libvirtd, files
  <1> QED
    BY <1>1, <1>2, <1>3, <1>4, <1>5, StepTypes DEF Next

\* Every variable of the runtime keeps its type, in every interleaving of any
\* number of calls, with failures, timeouts, late commands and restarts.
THEOREM TypeCorrect == Spec => []TypeOK
  <1>1. Init => TypeInv
    BY InitTypes
  <1>2. TypeInv /\ [Next]_vars => TypeInv'
    BY NextTypes
  <1>3. TypeInv => TypeOK
    BY DEF TypeInv
  <1> QED
    BY <1>1, <1>2, <1>3, PTL DEF Spec

-------------------------------------------------------------------------------
(* The port pool.  PortsAccounted is not inductive: it has to know who may *)
(* touch the map (only the lock's holder) and what the holder's host_port  *)
(* stands for at each of its steps.                                        *)

\* Steps of create, and the last step of remove, that own a port of no tenant.
Holding == {"overlay", "seed", "serial", "install", "undo", "commit", "discard"}

\* Steps of start that use the port of a tenant in the map.
Publishing == {"forward", "record"}

LockHeld == \A c \in Callers : lock = c <=> pc[c] \notin {"idle", "lock"}

StageAt(step, k) ==
  /\ step \in Holding => k.port \in Ports /\ ~Tracked(k.name)
  /\ step = "allocate" => ~Tracked(k.name)
  /\ step \in Publishing => Tracked(k.name) /\ k.port = tenants[k.name].port
  /\ step \notin Holding \cup Publishing => k.port = None

Stage == \A c \in Callers : StageAt(pc[c], call[c])

IInv == TypeInv /\ LockHeld /\ Stage /\ PortsAccounted

\* What a step does to the leases and to the pool.
Kept     == ports' = ports /\ \A n \in Names : LeaseOf(n)' = LeaseOf(n)
Granted  == \E n \in Names, p \in Ports \ ports :
              /\ LeaseOf(n) = None /\ LeaseOf(n)' = p /\ ports' = ports \cup {p}
              /\ \A m \in Names \ {n} : LeaseOf(m)' = LeaseOf(m)
Returned == \E n \in Names :
              /\ LeaseOf(n) # None /\ LeaseOf(n)' = None /\ ports' = ports \ {LeaseOf(n)}
              /\ \A m \in Names \ {n} : LeaseOf(m)' = LeaseOf(m)

LEMMA LeaseType ==
  ASSUME IInv, NEW n \in Names
  PROVE  LeaseOf(n) \in Ports \cup {None}
  BY DEF IInv, TypeInv, TypeOK, LeaseOf, Tracked, Tenant

LEMMA PortsFollow ==
  ASSUME IInv, Kept \/ Granted \/ Returned
  PROVE  PortsAccounted'
  <1> USE LeaseType DEF IInv, PortsAccounted
  <1>1. CASE Kept
    BY <1>1 DEF Kept
  <1>2. CASE Granted
    <2>1. PICK n \in Names, p \in Ports \ ports :
            /\ LeaseOf(n) = None /\ LeaseOf(n)' = p /\ ports' = ports \cup {p}
            /\ \A m \in Names \ {n} : LeaseOf(m)' = LeaseOf(m)
      BY <1>2 DEF Granted
    <2>2. \A m \in Names : LeaseOf(m)' = IF m = n THEN p ELSE LeaseOf(m)
      BY <2>1
    <2>3. p # None
      OBVIOUS
    <2> QED
      BY <2>1, <2>2, <2>3
  <1>3. CASE Returned
    <2>1. PICK n \in Names :
            /\ LeaseOf(n) # None /\ LeaseOf(n)' = None /\ ports' = ports \ {LeaseOf(n)}
            /\ \A m \in Names \ {n} : LeaseOf(m)' = LeaseOf(m)
      BY <1>3 DEF Returned
    <2>2. \A m \in Names : LeaseOf(m)' = IF m = n THEN None ELSE LeaseOf(m)
      BY <2>1
    <2> QED
      BY <2>1, <2>2
  <1> QED
    BY <1>1, <1>2, <1>3

\* What the invariant says of the caller whose step it is and of the others.
LEMMA Holder ==
  ASSUME IInv, NEW c \in Callers, Step(c)
  PROVE  /\ lock = c /\ c # None
         /\ pc \in [Callers -> Steps \cup {"idle", "lock"}]
         /\ tenants \in [Names -> Tenant \cup {NoTenant}]
         /\ call[c].name \in Names
         /\ \A d \in Callers \ {c} : pc[d] \in {"idle", "lock"} /\ call[d].port = None
         /\ \A n \in Names : Tracked(n) => tenants[n].port \in Ports
  <1>1. pc[c] \notin {"idle", "lock"}
    BY DEF Step, CreateCheck, CreateAllocate, CreateOverlay, CreateSeed,
           CreateSerialLog, CreateInstall, CreateUndo, CreateCommit, Discard,
           StartDomain, StartLease, StartPort, StartForward, StartRecord,
           StopKill, StopDestroy, StopClear, RemoveUndefine, RemoveForget
  <1>2. lock = c
    BY <1>1 DEF IInv, LockHeld
  <1>3. \A d \in Callers \ {c} : pc[d] \in {"idle", "lock"}
    BY <1>2 DEF IInv, LockHeld
  <1>4. \A d \in Callers \ {c} : call[d].port = None
    BY <1>3 DEF IInv, Stage, StageAt, Holding, Publishing
  <1> QED
    BY <1>1, <1>2, <1>3, <1>4 DEF IInv, TypeInv, TypeOK, CallKnown, Tracked, Tenant

\* The leases as the holder of the lock sees them.
LEMMA LeaseView ==
  ASSUME IInv, NEW c \in Callers, Step(c), NEW n \in Names
  PROVE  LeaseOf(n) = IF Tracked(n) THEN tenants[n].port
                      ELSE IF call[c].name = n THEN call[c].port ELSE None
  BY Holder DEF LeaseOf

\* The map as far as the pool goes.
SameMap == \A n \in Names : /\ tenants'[n].port = tenants[n].port
                            /\ Tracked(n)' <=> Tracked(n)

LEMMA SameTenants == UNCHANGED tenants => SameMap
  BY DEF SameMap, Tracked

LEMMA AfterReturn ==
  ASSUME IInv, NEW c \in Callers, Step(c), Return(c)
  PROVE  /\ LockHeld' /\ Stage'
         /\ \A n \in Names : LeaseOf(n)' = IF Tracked(n)' THEN tenants'[n].port ELSE None
  <1>1. \A d \in Callers : pc'[d] \in {"idle", "lock"} /\ call'[d].port = None
    BY Holder DEF Return, NoCall, IInv, TypeInv, TypeOK
  <1>2. lock' = None
    BY DEF Return
  <1>3. LockHeld'
    BY <1>1, <1>2 DEF LockHeld
  <1>4. Stage'
    BY <1>1 DEF Stage, StageAt, Holding, Publishing
  <1>5. \A n \in Names : LeaseOf(n)' = IF Tracked(n)' THEN tenants'[n].port ELSE None
    BY <1>2 DEF LeaseOf
  <1> QED
    BY <1>3, <1>4, <1>5

LEMMA AfterGoto ==
  ASSUME IInv, NEW c \in Callers, Step(c), NEW s \in Steps, Goto(c, s),
         \A d \in Callers \ {c} : call'[d] = call[d], StageAt(s, call[c])'
  PROVE  /\ LockHeld' /\ Stage'
         /\ \A n \in Names :
              LeaseOf(n)' = IF Tracked(n)' THEN tenants'[n].port
                            ELSE IF call'[c].name = n THEN call'[c].port ELSE None
  <1>1. s \notin {"idle", "lock"}
    BY DEF Steps, CreateSteps, StartSteps, StopSteps, RemoveSteps
  <1>2. lock' = c /\ pc'[c] = s
    BY Holder DEF Goto
  <1>3. \A d \in Callers \ {c} : pc'[d] \in {"idle", "lock"} /\ call'[d].port = None
    BY Holder DEF Goto
  <1>4. LockHeld'
    BY <1>1, <1>2, <1>3 DEF LockHeld
  <1>5. \A d \in Callers \ {c} : StageAt(pc[d], call[d])'
    BY <1>3 DEF StageAt, Holding, Publishing
  <1>6. Stage'
    BY <1>2, <1>5 DEF Stage
  <1>7. \A n \in Names :
          LeaseOf(n)' = IF Tracked(n)' THEN tenants'[n].port
                        ELSE IF call'[c].name = n THEN call'[c].port ELSE None
    BY <1>2, Holder DEF LeaseOf
  <1> QED
    BY <1>4, <1>6, <1>7

\* The four ways in which most steps end.
LEMMA ReturnKeeps ==
  ASSUME IInv, NEW c \in Callers, Step(c), Return(c), SameMap, ports' = ports,
         pc[c] \notin Holding
  PROVE  LockHeld' /\ Stage' /\ Kept
  <1>1. call[c].port = None \/ Tracked(call[c].name)
    BY DEF IInv, Stage, StageAt
  <1>2. Kept
    BY <1>1, AfterReturn, LeaseView DEF SameMap, Kept
  <1> QED
    BY <1>2, AfterReturn

LEMMA ReturnReleases ==
  ASSUME IInv, NEW c \in Callers, Step(c), Return(c), SameMap, pc[c] \in Holding,
         ports' = ports \ {call[c].port}
  PROVE  LockHeld' /\ Stage' /\ Returned
  <1>1. PICK n \in Names : n = call[c].name
    BY Holder
  <1>2. call[c].port \in Ports /\ ~Tracked(n)
    BY <1>1 DEF IInv, Stage, StageAt
  <1>3. LeaseOf(n) = call[c].port /\ call[c].port # None
    BY <1>1, <1>2, LeaseView
  <1>4. LeaseOf(n)' = None
    BY <1>2, AfterReturn DEF SameMap
  <1>5. \A m \in Names \ {n} : LeaseOf(m)' = LeaseOf(m)
    BY <1>1, AfterReturn, LeaseView DEF SameMap
  <1>6. Returned
    BY <1>2, <1>3, <1>4, <1>5 DEF Returned
  <1> QED
    BY <1>6, AfterReturn

LEMMA GotoKeeps ==
  ASSUME IInv, NEW c \in Callers, Step(c), NEW s \in Steps \ {"allocate"}, Goto(c, s),
         SameMap, ports' = ports,
         call'[c].name = call[c].name, call'[c].port = call[c].port,
         \A d \in Callers \ {c} : call'[d] = call[d],
         s \in Holding <=> pc[c] \in Holding, s \in Publishing <=> pc[c] \in Publishing
  PROVE  LockHeld' /\ Stage' /\ Kept
  <1>1. StageAt(pc[c], call[c]) /\ call[c].name \in Names
    BY Holder DEF IInv, Stage
  <1>2. StageAt(s, call[c])'
    BY <1>1 DEF StageAt, SameMap
  <1>3. Kept
    BY <1>2, AfterGoto, LeaseView DEF SameMap, Kept
  <1> QED
    BY <1>2, <1>3, AfterGoto

LEMMA StepPorts ==
  ASSUME IInv, NEW c \in Callers, Step(c)
  PROVE  LockHeld' /\ Stage' /\ (Kept \/ Granted \/ Returned)
  <1> USE DEF Steps, CreateSteps, StartSteps, StopSteps, RemoveSteps, Holding, Publishing,
              memory
  <1>1. CASE CreateCheck(c)
    <2>1. CASE Return(c)
      BY <1>1, <2>1, SameTenants, ReturnKeeps DEF CreateCheck
    <2>2. CASE Goto(c, "allocate") /\ UNCHANGED call /\ ~Tracked(call[c].name)
      <3>1. StageAt("allocate", call[c])'
        BY <1>1, <2>2 DEF CreateCheck, StageAt, IInv, Stage, Tracked
      <3>2. Kept
        BY <1>1, <2>2, <3>1, AfterGoto, LeaseView DEF CreateCheck, Kept, Tracked
      <3> QED
        BY <2>2, <3>1, <3>2, AfterGoto
    <2> QED
      BY <1>1, <2>1, <2>2 DEF CreateCheck
  <1>2. CASE CreateAllocate(c)
    <2>1. CASE Return(c) /\ UNCHANGED <<ports, tenants>>
      BY <1>2, <2>1, SameTenants, ReturnKeeps DEF CreateAllocate
    <2>2. ASSUME NEW p \in Ports, FirstFree(p), ports' = ports \cup {p}, UNCHANGED tenants,
                 call' = [call EXCEPT ![c].port = p], Goto(c, "overlay")
          PROVE  LockHeld' /\ Stage' /\ Granted
      <3>1. /\ call'[c].port = p /\ call'[c].name = call[c].name
            /\ \A d \in Callers \ {c} : call'[d] = call[d]
        BY <2>2 DEF IInv, TypeInv, TypeOK
      <3>2. ~Tracked(call[c].name) /\ call[c].port = None /\ call[c].name \in Names
        BY <1>2, Holder DEF CreateAllocate, IInv, Stage, StageAt
      <3>3. StageAt("overlay", call[c])'
        BY <2>2, <3>1, <3>2 DEF StageAt, Tracked
      <3>4. LeaseOf(call[c].name) = None /\ LeaseOf(call[c].name)' = p
        BY <2>2, <3>1, <3>2, <3>3, AfterGoto, LeaseView DEF Tracked
      <3>5. \A m \in Names \ {call[c].name} : LeaseOf(m)' = LeaseOf(m)
        BY <2>2, <3>1, <3>3, AfterGoto, LeaseView DEF Tracked
      <3>6. p \in Ports \ ports
        BY <2>2 DEF FirstFree
      <3>7. Granted
        BY <2>2, <3>2, <3>4, <3>5, <3>6 DEF Granted
      <3> QED
        BY <2>2, <3>1, <3>3, <3>7, AfterGoto
    <2> QED
      BY <1>2, <2>1, <2>2 DEF CreateAllocate
  <1>3. CASE CreateOverlay(c)
    BY <1>3, SameTenants, ReturnReleases, GotoKeeps DEF CreateOverlay
  <1>4. CASE CreateSeed(c)
    BY <1>4, SameTenants, ReturnReleases, GotoKeeps DEF CreateSeed
  <1>5. CASE CreateSerialLog(c)
    BY <1>5, SameTenants, ReturnReleases, GotoKeeps DEF CreateSerialLog
  <1>6. CASE CreateInstall(c)
    BY <1>6, SameTenants, GotoKeeps DEF CreateInstall
  <1>7. CASE CreateUndo(c)
    BY <1>7, SameTenants, GotoKeeps DEF CreateUndo
  <1>8. CASE CreateCommit(c)
    <2>1. PICK n \in Names : n = call[c].name
      BY Holder
    <2>2. ~Tracked(n) /\ call[c].port \in Ports
      BY <1>8, <2>1 DEF CreateCommit, IInv, Stage, StageAt
    <2>3. /\ tenants'[n].port = call[c].port /\ Tracked(n)'
          /\ \A m \in Names \ {n} : tenants'[m] = tenants[m]
      BY <1>8, <2>1, <2>2, Holder DEF CreateCommit, Tracked, NoTenant
    <2>4. Kept
      BY <1>8, <2>1, <2>2, <2>3, AfterReturn, LeaseView DEF CreateCommit, Kept, Tracked
    <2> QED
      BY <1>8, <2>4, AfterReturn DEF CreateCommit
  <1>9. CASE Discard(c)
    BY <1>9, SameTenants, ReturnReleases DEF Discard
  <1>10. CASE StartDomain(c)
    BY <1>10, SameTenants, ReturnKeeps, GotoKeeps DEF StartDomain
  <1>11. CASE StartLease(c)
    <2>1. \A m \in Names : call' = [call EXCEPT ![c].ip = m] =>
            /\ call'[c].name = call[c].name /\ call'[c].port = call[c].port
            /\ \A d \in Callers \ {c} : call'[d] = call[d]
      BY DEF IInv, TypeInv, TypeOK
    <2>2. leases \subseteq Names
      BY DEF IInv, TypeInv, TypeOK
    <2> QED
      BY <1>11, <2>1, <2>2, SameTenants, ReturnKeeps, GotoKeeps DEF StartLease
  <1>12. CASE StartPort(c)
    <2>1. CASE Return(c)
      BY <1>12, <2>1, SameTenants, ReturnKeeps DEF StartPort
    <2>2. CASE /\ Tracked(call[c].name) /\ Goto(c, "forward")
               /\ call' = [call EXCEPT ![c].port = tenants[call[c].name].port]
      <3>1. /\ call'[c].port = tenants[call[c].name].port /\ call'[c].name = call[c].name
            /\ \A d \in Callers \ {c} : call'[d] = call[d]
        BY <2>2 DEF IInv, TypeInv, TypeOK
      <3>2. StageAt("forward", call[c])'
        BY <1>12, <2>2, <3>1 DEF StartPort, StageAt, Tracked
      <3>3. ports' = ports /\ tenants' = tenants
        BY <1>12 DEF StartPort
      <3>4. \A n \in Names :
              LeaseOf(n)' = IF Tracked(n)' THEN tenants'[n].port
                            ELSE IF call'[c].name = n THEN call'[c].port ELSE None
        BY <2>2, <3>1, <3>2, AfterGoto
      <3>5. call[c].port = None
        BY <1>12 DEF StartPort, IInv, Stage, StageAt
      <3>6. \A n \in Names : LeaseOf(n)' = LeaseOf(n)
        BY <2>2, <3>1, <3>3, <3>4, <3>5, LeaseView DEF Tracked
      <3> QED
        BY <2>2, <3>1, <3>2, <3>3, <3>6, AfterGoto DEF Kept
    <2> QED
      BY <1>12, <2>1, <2>2 DEF StartPort
  <1>13. CASE StartForward(c)
    <2>1. CASE Return(c)
      BY <1>13, <2>1, SameTenants, ReturnKeeps DEF StartForward
    <2>2. CASE Goto(c, "record") /\ call' = [call EXCEPT ![c].pid = spawned']
      <3>1. /\ call'[c].name = call[c].name /\ call'[c].port = call[c].port
            /\ \A d \in Callers \ {c} : call'[d] = call[d]
        BY <2>2 DEF IInv, TypeInv, TypeOK
      <3> QED
        BY <1>13, <2>2, <3>1, SameTenants, GotoKeeps DEF StartForward
    <2> QED
      BY <1>13, <2>1, <2>2 DEF StartForward
  <1>14. CASE StartRecord(c)
    <2>1. Tracked(call[c].name) /\ call[c].name \in Names
      BY <1>14, Holder DEF StartRecord, IInv, Stage, StageAt
    <2>2. tenants' = [tenants EXCEPT ![call[c].name].pid = call[c].pid,
                                     ![call[c].name].ip  = call[c].ip]
      BY <1>14, <2>1 DEF StartRecord
    <2>3. SameMap
      BY <2>1, <2>2, Holder DEF SameMap, Tracked, Tenant, NoTenant
    <2> QED
      BY <1>14, <2>1, <2>3, ReturnKeeps DEF StartRecord
  <1>15. CASE StopKill(c)
    BY <1>15, SameTenants, GotoKeeps DEF StopKill
  <1>16. CASE StopDestroy(c)
    BY <1>16, SameTenants, ReturnKeeps, GotoKeeps DEF StopDestroy, AfterStop
  <1>17. CASE StopClear(c)
    <2>1. SameMap
      <3>1. CASE UNCHANGED tenants
        BY <3>1, SameTenants
      <3>2. CASE Tracked(call[c].name)
        <4>1. tenants' = [tenants EXCEPT ![call[c].name].pid = None, ![call[c].name].ip = None]
          BY <1>17, <3>2 DEF StopClear
        <4> QED
          BY <3>2, <4>1, Holder DEF SameMap, Tracked, Tenant, NoTenant
      <3> QED
        BY <1>17, <3>1, <3>2 DEF StopClear
    <2> QED
      BY <1>17, <2>1, ReturnKeeps, GotoKeeps DEF StopClear, AfterStop
  <1>18. CASE RemoveUndefine(c)
    BY <1>18, SameTenants, ReturnKeeps, GotoKeeps DEF RemoveUndefine
  <1>19. CASE RemoveForget(c)
    <2>1. PICK n \in Names : n = call[c].name
      BY Holder
    <2>2. /\ call[c].port = None /\ ~Tracked(n)'
          /\ \A m \in Names \ {n} : tenants'[m] = tenants[m]
      BY <1>19, <2>1, Holder DEF RemoveForget, Tracked, IInv, Stage, StageAt
    <2>3. CASE Return(c) /\ ~Tracked(n)
      <3>1. Kept
        BY <1>19, <2>1, <2>2, <2>3, AfterReturn, LeaseView DEF RemoveForget, Kept, Tracked
      <3> QED
        BY <2>3, <3>1, AfterReturn
    <2>4. CASE /\ Tracked(n) /\ Goto(c, "discard")
               /\ call' = [call EXCEPT ![c].port = tenants[n].port]
      <3>1. /\ call'[c].port = tenants[n].port /\ call'[c].name = n
            /\ call'[c].port \in Ports
            /\ \A d \in Callers \ {c} : call'[d] = call[d]
        BY <2>1, <2>4, Holder DEF IInv, TypeInv, TypeOK
      <3>2. StageAt("discard", call[c])'
        BY <2>2, <3>1 DEF StageAt, Tracked
      <3>3. \A m \in Names :
              LeaseOf(m)' = IF Tracked(m)' THEN tenants'[m].port
                            ELSE IF n = m THEN tenants[n].port ELSE None
        BY <2>4, <3>1, <3>2, AfterGoto
      <3>4. LeaseOf(n)' = LeaseOf(n)
        BY <2>2, <2>4, <3>3, LeaseView
      <3>5. \A m \in Names \ {n} : LeaseOf(m)' = LeaseOf(m)
        BY <2>1, <2>2, <3>3, LeaseView DEF Tracked
      <3>6. Kept
        BY <1>19, <3>4, <3>5 DEF RemoveForget, Kept
      <3> QED
        BY <2>4, <3>1, <3>2, <3>6, AfterGoto
    <2> QED
      BY <1>19, <2>1, <2>3, <2>4 DEF RemoveForget
  <1> QED
    BY <1>1, <1>2, <1>3, <1>4, <1>5, <1>6, <1>7, <1>8, <1>9, <1>10, <1>11, <1>12, <1>13, <1>14, <1>15, <1>16, <1>17, <1>18, <1>19 DEF Step

LEMMA NextPorts ==
  ASSUME IInv, [Next]_vars
  PROVE  IInv' /\ (Kept \/ Granted \/ Returned \/ Crash)
  <1>1. CASE UNCHANGED vars
    <2>1. LockHeld' /\ Stage' /\ Kept
      BY <1>1 DEF IInv, LockHeld, Stage, StageAt, Tracked, Kept, LeaseOf, vars, memory
    <2> QED
      BY <1>1, <2>1, NextTypes, PortsFollow DEF IInv
  <1>2. ASSUME NEW c \in Callers, NEW op \in Ops, NEW n \in Names, Begin(c, op, n)
        PROVE  IInv' /\ Kept
    <2>1. lock # c
      BY <1>2 DEF Begin, IInv, LockHeld
    <2>2. LockHeld'
      BY <1>2, <2>1 DEF Begin, IInv, LockHeld, TypeInv, TypeOK
    <2>3. Stage'
      BY <1>2 DEF Begin, NoCall, IInv, Stage, StageAt, Tracked, Holding, Publishing,
                  TypeInv, TypeOK, memory
    <2>4. Kept
      BY <1>2, <2>1 DEF Begin, Kept, LeaseOf, Tracked, memory, IInv, TypeInv, TypeOK
    <2> QED
      BY <1>2, <2>2, <2>3, <2>4, NextTypes, PortsFollow DEF IInv, Next
  <1>3. ASSUME NEW c \in Callers, Acquire(c)
        PROVE  IInv' /\ Kept
    <2>1. call[c].op \in Ops /\ call[c].port = None
      BY <1>3 DEF Acquire, IInv, TypeInv, CallKnown, Stage, StageAt, Holding, Publishing
    <2>2. FirstStep(call[c].op) \in {"check", "start", "kill"}
      BY <2>1 DEF Ops, FirstStep
    <2>3. LockHeld'
      BY <1>3, <2>2 DEF Acquire, IInv, LockHeld, TypeInv, TypeOK
    <2>4. Stage'
      BY <1>3, <2>1, <2>2 DEF Acquire, IInv, Stage, StageAt, Tracked, Holding, Publishing,
                              TypeInv, TypeOK, memory
    <2>5. Kept
      BY <1>3, <2>1 DEF Acquire, Kept, LeaseOf, Tracked, memory
    <2> QED
      BY <1>3, <2>3, <2>4, <2>5, NextTypes, PortsFollow DEF IInv, Next
  <1>4. ASSUME NEW c \in Callers, Step(c)
        PROVE  IInv' /\ (Kept \/ Granted \/ Returned)
    BY <1>4, StepPorts, NextTypes, PortsFollow DEF IInv, Next
  <1>5. CASE LateCommand
    <2>1. LockHeld' /\ Stage' /\ Kept
      BY <1>5 DEF LateCommand, IInv, LockHeld, Stage, StageAt, Tracked, Kept, LeaseOf, memory
    <2> QED
      BY <1>5, <2>1, NextTypes, PortsFollow DEF IInv, Next
  <1>6. CASE Crash
    <2>1. LockHeld' /\ Stage'
      BY <1>6 DEF Crash, NoCall, LockHeld, Stage, StageAt, Holding, Publishing
    <2>2. \A n \in Names : LeaseOf(n)' = None
      BY <1>6 DEF Crash, LeaseOf, Tracked
    <2>3. PortsAccounted'
      BY <1>6, <2>2 DEF Crash, PortsAccounted
    <2> QED
      BY <1>6, <2>1, <2>3, NextTypes DEF IInv, Next
  <1> QED
    BY <1>1, <1>2, <1>3, <1>4, <1>5, <1>6 DEF Next

LEMMA InitPorts == Init => IInv
  <1>1. Init => LockHeld /\ Stage
    BY DEF Init, LockHeld, Stage, StageAt, Holding, Publishing, NoCall
  <1>2. Init => \A n \in Names : LeaseOf(n) = None
    BY DEF Init, LeaseOf, Tracked
  <1>3. Init => PortsAccounted
    BY <1>2 DEF Init, PortsAccounted
  <1> QED
    BY <1>1, <1>3, InitTypes DEF IInv

\* The pool holds exactly the leased ports and no two tenants share one, for
\* any number of callers, names and ports and any mix of faults and restarts.
THEOREM PortPoolSound == Spec => []PortsAccounted
  <1>1. IInv /\ [Next]_vars => IInv'
    BY NextPorts
  <1>2. IInv => PortsAccounted
    BY DEF IInv
  <1> QED
    BY InitPorts, <1>1, <1>2, PTL DEF Spec

\* The race_detected branch of start_container is unreachable: the lifecycle
\* lock keeps the tenant in the map, on its port, until the forward is recorded.
THEOREM StartNeverRaces == Spec => []NoRemovalMidStart
  <1>1. IInv /\ [Next]_vars => IInv'
    BY NextPorts
  <1>2. IInv => NoRemovalMidStart
    BY DEF IInv, Stage, StageAt, Publishing, NoRemovalMidStart
  <1> QED
    BY InitPorts, <1>1, <1>2, PTL DEF Spec

\* The runtime implements PortLease: it starts with no lease, and every step
\* grants one free port, returns one, keeps all, or is a restart.
THEOREM RuntimeImplementsLease == Spec => LeaseSpec
  <1> DEFINE f == [n \in Names |-> LeaseOf(n)]
  <1>1. Init => Lease!Init
    BY DEF Init, Lease!Init, LeaseOf, Tracked
  <1>2. IInv /\ [Next]_vars => [Lease!Next]_f
    <2> SUFFICES ASSUME IInv, [Next]_vars PROVE Lease!Next \/ f' = f
      OBVIOUS
    <2>1. CASE Kept
      BY <2>1 DEF Kept
    <2>2. CASE Granted
      <3>1. PICK n \in Names, p \in Ports \ ports :
              /\ LeaseOf(n) = None /\ LeaseOf(n)' = p
              /\ \A m \in Names \ {n} : LeaseOf(m)' = LeaseOf(m)
        BY <2>2 DEF Granted
      <3>2. f' = [f EXCEPT ![n] = p]
        BY <3>1
      <3>3. \A m \in Names : f[m] # p
        BY <3>1 DEF IInv, PortsAccounted
      <3>4. Lease!Grant(n)
        BY <3>1, <3>2, <3>3 DEF Lease!Grant, Lease!Free
      <3> QED
        BY <3>4 DEF Lease!Next
    <2>3. CASE Returned
      <3>1. PICK n \in Names :
              /\ LeaseOf(n) # None /\ LeaseOf(n)' = None
              /\ \A m \in Names \ {n} : LeaseOf(m)' = LeaseOf(m)
        BY <2>3 DEF Returned
      <3>2. f' = [f EXCEPT ![n] = None]
        BY <3>1
      <3>3. Lease!GiveBack(n)
        BY <3>1, <3>2 DEF Lease!GiveBack
      <3> QED
        BY <3>3 DEF Lease!Next
    <2>4. CASE Crash
      <3>1. \A n \in Names : LeaseOf(n)' = None
        BY <2>4 DEF Crash, LeaseOf, Tracked
      <3> QED
        BY <3>1 DEF Lease!Forget, Lease!Next
    <2> QED
      BY <2>1, <2>2, <2>3, <2>4, NextPorts
  <1>3. IInv /\ [Next]_vars => IInv'
    BY NextPorts
  <1> QED
    BY InitPorts, <1>1, <1>2, <1>3, PTL DEF Spec, LeaseSpec, Lease!Spec

-------------------------------------------------------------------------------
(* The disks.  What may delete a tenant's files is a create that fails and *)
(* a remove: both hold the lock, on a name that is not in the map.         *)

FilesAt(step, n) ==
  /\ step \in {"seed", "serial", "install", "commit"} => n \in overlays
  /\ step \in {"serial", "install", "commit"} => n \in seeds

FilesInv == TrackedHasDisk /\ \A c \in Callers : FilesAt(pc[c], call[c].name)

\* A step moves its own caller only, and keeps the name it works on.
LEMMA StepMoves ==
  ASSUME IInv, NEW c \in Callers, Step(c)
  PROVE  /\ \A d \in Callers \ {c} : pc'[d] = pc[d] /\ call'[d] = call[d]
         /\ \A d \in Callers \ {c} : pc'[d] \in {"idle", "lock"}
         /\ pc'[c] # "idle" => call'[c].name = call[c].name /\ call'[c].op = call[c].op
         /\ pc'[c] = "idle" => call'[c] = NoCall
  <1> USE Holder DEF Goto, Return
  <1>1. /\ DOMAIN call = Callers /\ DOMAIN pc = Callers
        /\ call[c] \in [op   : Ops \cup {None},   name : Names \cup {None},
                        port : Ports \cup {None}, ip   : Names \cup {None},
                        pid  : Nat \cup {None}]
    BY DEF IInv, TypeInv, TypeOK
  <1>2. CASE Return(c)
    BY <1>1, <1>2
  <1>3. CASE /\ \E s \in Steps : Goto(c, s)
             /\ \/ UNCHANGED call
                \/ \E p : call' = [call EXCEPT ![c].port = p]
                \/ \E m : call' = [call EXCEPT ![c].ip = m]
                \/ \E i : call' = [call EXCEPT ![c].pid = i]
    <2>1. PICK s \in Steps : Goto(c, s)
      BY <1>3
    <2>2. s \notin {"idle"} /\ pc'[c] = s /\ \A d \in Callers \ {c} : pc'[d] = pc[d]
      BY <1>1, <2>1 DEF Steps, CreateSteps, StartSteps, StopSteps, RemoveSteps
    <2>3. CASE UNCHANGED call
      BY <2>2, <2>3
    <2>4. CASE \E p : call' = [call EXCEPT ![c].port = p]
      BY <1>1, <2>2, <2>4
    <2>5. CASE \E m : call' = [call EXCEPT ![c].ip = m]
      BY <1>1, <2>2, <2>5
    <2>6. CASE \E i : call' = [call EXCEPT ![c].pid = i]
      BY <1>1, <2>2, <2>6
    <2> QED BY <1>3, <2>3, <2>4, <2>5, <2>6
  <1>4. CASE CreateCheck(c) \/ CreateAllocate(c) \/ CreateOverlay(c) \/ CreateSeed(c)
             \/ CreateSerialLog(c) \/ CreateInstall(c) \/ CreateUndo(c)
             \/ CreateCommit(c) \/ Discard(c)
    BY <1>2, <1>3, <1>4
    DEF CreateCheck, CreateAllocate, CreateOverlay, CreateSeed, CreateSerialLog,
        CreateInstall, CreateUndo, CreateCommit, Discard, Steps, CreateSteps
  <1>5. CASE StartDomain(c) \/ StartLease(c) \/ StartPort(c) \/ StartForward(c) \/ StartRecord(c)
    BY <1>2, <1>3, <1>5
    DEF StartDomain, StartLease, StartPort, StartForward, StartRecord, Steps, StartSteps
  <1>6. CASE StopKill(c) \/ StopDestroy(c) \/ StopClear(c) \/ RemoveUndefine(c) \/ RemoveForget(c)
    BY <1>2, <1>3, <1>6
    DEF StopKill, StopDestroy, StopClear, AfterStop, RemoveUndefine, RemoveForget,
        Steps, StopSteps, RemoveSteps
  <1> QED BY <1>4, <1>5, <1>6 DEF Step

LEMMA StepFiles ==
  ASSUME IInv, FilesInv, NEW c \in Callers, Step(c)
  PROVE  FilesInv'
  <1> DEFINE n == call[c].name
  <1>1. /\ n \in Names /\ pc \in [Callers -> Steps \cup {"idle", "lock"}]
        /\ tenants \in [Names -> Tenant \cup {NoTenant}]
        /\ \A m \in Names : Tracked(m) => tenants[m].port \in Ports
    BY Holder
  <1>2. /\ \A m \in Names : Tracked(m) => m \in overlays /\ m \in seeds
        /\ FilesAt(pc[c], n) /\ StageAt(pc[c], call[c])
    BY DEF FilesInv, TrackedHasDisk, IInv, Stage
  <1>3. /\ \A d \in Callers \ {c} : pc'[d] \in {"idle", "lock"}
        /\ pc'[c] # "idle" => call'[c].name = n
    BY StepMoves
  <1> HIDE DEF n
  <1>4. SUFFICES /\ \A m \in Names : Tracked(m)' => m \in overlays' /\ m \in seeds'
                 /\ pc'[c] \in {"seed", "serial", "install", "commit"} => n \in overlays'
                 /\ pc'[c] \in {"serial", "install", "commit"} => n \in seeds'
    BY <1>3 DEF FilesInv, TrackedHasDisk, FilesAt
  <1> USE <1>1, <1>2 DEF n
  <1>5. CASE CreateOverlay(c)
    BY <1>5 DEF CreateOverlay, Goto, Return, StageAt, Holding, Tracked
  <1>6. CASE CreateSeed(c)
    BY <1>6 DEF CreateSeed, Goto, Return, StageAt, Holding, Tracked, FilesAt
  <1>7. CASE CreateSerialLog(c)
    BY <1>7 DEF CreateSerialLog, Goto, Return, StageAt, Holding, Tracked, FilesAt, files
  <1>8. CASE CreateInstall(c)
    BY <1>8 DEF CreateInstall, Goto, Tracked, FilesAt, files, memory
  <1>9. CASE CreateCommit(c)
    BY <1>9 DEF CreateCommit, Return, Tracked, FilesAt, files
  <1>10. CASE Discard(c)
    BY <1>10 DEF Discard, Return, StageAt, Holding, Tracked
  <1>11. CASE CreateCheck(c) \/ CreateAllocate(c) \/ CreateUndo(c)
    BY <1>11 DEF CreateCheck, CreateAllocate, CreateUndo, Goto, Return, Tracked, files, memory
  <1>12. CASE StartDomain(c) \/ StartLease(c) \/ StartPort(c) \/ StartForward(c)
    BY <1>12 DEF StartDomain, StartLease, StartPort, StartForward, Goto, Return, Tracked,
                 files, memory
  <1>13. CASE StartRecord(c)
    <2>1. \A m \in Names : Tracked(m)' => Tracked(m)
      BY <1>13 DEF StartRecord, Tracked
    <2> QED BY <1>13, <2>1 DEF StartRecord, Return, files
  <1>14. CASE StopKill(c) \/ StopDestroy(c) \/ RemoveUndefine(c)
    BY <1>14 DEF StopKill, StopDestroy, RemoveUndefine, AfterStop, Goto, Return, Tracked,
                 files, memory
  <1>15. CASE StopClear(c)
    <2>1. \A m \in Names : Tracked(m)' => Tracked(m)
      BY <1>15 DEF StopClear, Tracked
    <2> QED BY <1>15, <2>1 DEF StopClear, AfterStop, Goto, Return, files
  <1>16. CASE RemoveForget(c)
    BY <1>16 DEF RemoveForget, Goto, Return, Tracked, files
  <1> QED BY <1>5, <1>6, <1>7, <1>8, <1>9, <1>10, <1>11, <1>12, <1>13, <1>14, <1>15, <1>16 DEF Step

LEMMA NextFiles ==
  ASSUME IInv, FilesInv, [Next]_vars
  PROVE  FilesInv'
  <1>1. CASE UNCHANGED vars
    BY <1>1 DEF vars, memory, files, FilesInv, FilesAt, TrackedHasDisk, Tracked
  <1>2. ASSUME NEW c \in Callers, NEW op \in Ops, NEW n \in Names, Begin(c, op, n)
        PROVE  FilesInv'
    BY <1>2 DEF Begin, IInv, TypeInv, TypeOK, FilesInv, FilesAt, TrackedHasDisk, Tracked,
                memory, files
  <1>3. ASSUME NEW c \in Callers, Acquire(c)
        PROVE  FilesInv'
    <2>1. FirstStep(call[c].op) \in {"check", "start", "kill"}
      BY <1>3 DEF Acquire, FirstStep, IInv, TypeInv, CallKnown, Ops
    <2> QED
      BY <1>3, <2>1 DEF Acquire, IInv, TypeInv, TypeOK, FilesInv, FilesAt, TrackedHasDisk,
                        Tracked, memory, files
  <1>4. CASE LateCommand
    BY <1>4 DEF LateCommand, FilesInv, FilesAt, TrackedHasDisk, Tracked, memory, files
  <1>5. CASE Crash
    BY <1>5 DEF Crash, FilesInv, FilesAt, TrackedHasDisk, Tracked
  <1> QED BY <1>1, <1>2, <1>3, <1>4, <1>5, StepFiles DEF Next

\* A tenant in the map keeps its disk and its seed, whatever creates, removes,
\* failures, late commands and restarts come between.
THEOREM DisksStay == Spec => []TrackedHasDisk
  <1>1. Init => FilesInv
    BY DEF Init, FilesInv, FilesAt, TrackedHasDisk, Tracked
  <1>2. IInv /\ [Next]_vars => IInv'
    BY NextPorts
  <1>3. IInv /\ FilesInv /\ [Next]_vars => FilesInv'
    BY NextFiles
  <1>4. FilesInv => TrackedHasDisk
    BY DEF FilesInv
  <1> QED
    BY InitPorts, <1>1, <1>2, <1>3, <1>4, PTL DEF Spec

-------------------------------------------------------------------------------
(* The listeners.  A free port has none because every listener is on the    *)
(* port of a tenant in the map, and stop knows its process: the entry has   *)
(* the process id, or the start that is about to record it has.  This needs *)
(* what LibvirtForwards assumes: no start of a tenant that has a listener,   *)
(* no kill that fails, and no restart, which forgets the listeners.          *)

Gentle == ~RestartRunning /\ "kill" \notin Faults /\ MaxCrashes = 0

OnPort(n) == {f \in forwards : Tracked(n) /\ f.port = tenants[n].port}

\* Steps of stop and remove after the kill.
Killed == {"destroy", "clear", "undefine", "forget"}

ListenersAt(step, k) ==
  /\ step = "record" => OnPort(k.name) = {[pid |-> k.pid, port |-> k.port, ip |-> k.ip]}
  /\ step \in Killed \/ (k.op = "start" /\ step # "record") => OnPort(k.name) = {}
  /\ step \in StartSteps => k.op = "start"
  /\ step = "idle" => k.op # "start"

Recording(n) == \E c \in Callers : pc[c] = "record" /\ call[c].name = n

ForwardInv ==
  /\ \A f \in forwards : \E n \in Names : f \in OnPort(n)
  /\ \A n \in Names : \A f \in OnPort(n) : tenants[n].pid = f.pid \/ Recording(n)
  /\ \A c \in Callers : ListenersAt(pc[c], call[c])
  /\ \A c, d \in Callers :
       call[c].op = "start" /\ call[d].op = "start" /\ call[c].name = call[d].name => c = d

LEMMA PortsApart ==
  ASSUME IInv, NEW m \in Names, NEW n \in Names, m # n, Tracked(m)
  PROVE  /\ LeaseOf(n) # tenants[m].port
         /\ Tracked(n) => tenants[n].port # tenants[m].port
         /\ tenants[m].port \in ports
  <1>1. LeaseOf(m) = tenants[m].port /\ tenants[m].port \in Ports
    BY DEF LeaseOf, IInv, TypeInv, TypeOK, Tracked, Tenant
  <1>2. tenants[m].port # None
    BY <1>1
  <1>3. LeaseOf(n) # LeaseOf(m)
    BY <1>1, <1>2 DEF IInv, PortsAccounted
  <1>4. Tracked(n) => LeaseOf(n) = tenants[n].port
    BY DEF LeaseOf
  <1>5. LeaseOf(m) \in ports
    BY <1>1, <1>2 DEF IInv, PortsAccounted
  <1> QED BY <1>1, <1>3, <1>4, <1>5

LEMMA ListenersOwned == IInv /\ ForwardInv => ForwardsOwned
  <1> SUFFICES ASSUME IInv, ForwardInv, NEW f \in forwards
               PROVE  f.port \in ports
    BY DEF ForwardsOwned
  <1>1. PICK n \in Names : Tracked(n) /\ f.port = tenants[n].port
    BY DEF ForwardInv, OnPort
  <1>2. LeaseOf(n) = f.port /\ f.port # None
    BY <1>1 DEF LeaseOf, IInv, TypeInv, TypeOK, Tracked, Tenant
  <1> QED BY <1>2 DEF IInv, PortsAccounted

\* A step that leaves the map and the listeners alone, and goes nowhere where
\* more must be known of them.
LEMMA QuietStep ==
  ASSUME IInv, ForwardInv, NEW c \in Callers, Step(c), UNCHANGED <<tenants, forwards>>,
         pc[c] # "record", pc'[c] # "record",
         pc'[c] \in Killed => pc[c] \in Killed,
         pc'[c] \in StartSteps => pc[c] \in StartSteps
  PROVE  ForwardInv'
  <1>1. \A n \in Names : OnPort(n)' = OnPort(n)
    BY DEF OnPort, Tracked
  <1>2. \A d \in Callers \ {c} : pc'[d] = pc[d] /\ call'[d] = call[d]
    BY StepMoves
  <1>3. \/ call'[c] = NoCall /\ pc'[c] = "idle"
        \/ pc'[c] # "idle" /\ call'[c].name = call[c].name /\ call'[c].op = call[c].op
    BY StepMoves
  <1>4. \A n \in Names : Recording(n)' <=> Recording(n)
    BY <1>2 DEF Recording
  <1>5. NoCall.op # "start"
    BY NoneIsNoOp DEF NoCall
  <1>6. \A d \in Callers \ {c} : ListenersAt(pc[d], call[d])'
    <2> SUFFICES ASSUME NEW d \in Callers \ {c} PROVE ListenersAt(pc[d], call[d])'
      OBVIOUS
    <2>1. OnPort(call[d].name)' = OnPort(call[d].name)
      BY <1>2 DEF OnPort, Tracked
    <2> QED BY <1>2, <2>1 DEF ForwardInv, ListenersAt
  <1>7. ListenersAt(pc[c], call[c])'
    <2>1. CASE call'[c] = NoCall /\ pc'[c] = "idle"
      BY <1>5, <2>1 DEF ListenersAt, Killed, StartSteps
    <2>2. CASE pc'[c] # "idle" /\ call'[c].name = call[c].name /\ call'[c].op = call[c].op
      <3>1. OnPort(call[c].name)' = OnPort(call[c].name)
        BY <2>2 DEF OnPort, Tracked
      <3> QED BY <2>2, <3>1 DEF ForwardInv, ListenersAt
    <2> QED BY <1>3, <2>1, <2>2
  <1>8. \A a, d \in Callers :
          call'[a].op = "start" /\ call'[d].op = "start" /\ call'[a].name = call'[d].name => a = d
    BY <1>2, <1>3, <1>5 DEF ForwardInv
  <1> QED BY <1>1, <1>4, <1>6, <1>7, <1>8 DEF ForwardInv

\* A step that ends the call, or leaves a stopped tenant without a listener.
LEMMA MapStep ==
  ASSUME IInv, ForwardInv, NEW c \in Callers, Step(c), pc[c] # "record",
         NEW n \in Names, n = call[c].name, forwards' \subseteq forwards,
         \A m \in Names \ {n} : tenants'[m] = tenants[m],
         OnPort(n)' = {},
         \A f \in forwards' : \E m \in Names : f \in OnPort(m) /\ m # n,
         pc'[c] \notin StartSteps
  PROVE  ForwardInv'
  <1>1. \A m \in Names \ {n} : /\ OnPort(m)' \subseteq OnPort(m)
                               /\ tenants'[m] = tenants[m] /\ (Tracked(m)' <=> Tracked(m))
    BY DEF OnPort, Tracked
  <1>2. \A d \in Callers \ {c} : pc'[d] = pc[d] /\ call'[d] = call[d] /\ pc'[d] \in {"idle", "lock"}
    BY StepMoves
  <1>3. \/ call'[c] = NoCall /\ pc'[c] = "idle"
        \/ pc'[c] # "idle" /\ call'[c].name = n /\ call'[c].op = call[c].op
    BY StepMoves
  <1>4. NoCall.op # "start" /\ OnPort(n)' = {}
    BY NoneIsNoOp DEF NoCall
  <1>5. \A m \in Names : ~Recording(m)
    <2>1. \A d \in Callers : pc[d] # "record"
      BY <1>2
    <2> QED BY <2>1 DEF Recording
  <1>6. \A d \in Callers \ {c} : call[d].op = "start" => call[d].name \in Names
    BY DEF ForwardInv, ListenersAt, IInv, TypeInv, CallKnown
  <1>7. \A d \in Callers \ {c} : ListenersAt(pc[d], call[d])'
    <2> SUFFICES ASSUME NEW d \in Callers \ {c} PROVE ListenersAt(pc[d], call[d])'
      OBVIOUS
    <2>1. call[d].op = "start" => OnPort(call[d].name)' = {}
      BY <1>1, <1>2, <1>4, <1>6 DEF ForwardInv, ListenersAt
    <2> QED BY <1>2, <2>1 DEF ForwardInv, ListenersAt, Killed, StartSteps
  <1>8. ListenersAt(pc[c], call[c])'
    <2>1. OnPort(call[c].name)' = {} \/ call'[c] = NoCall
      BY <1>3, <1>4 DEF OnPort, Tracked
    <2> QED BY <1>3, <1>4, <2>1 DEF ListenersAt, Killed, StartSteps
  <1>9. \A a, d \in Callers :
          call'[a].op = "start" /\ call'[d].op = "start" /\ call'[a].name = call'[d].name => a = d
    BY <1>2, <1>3, <1>4 DEF ForwardInv
  <1>10. \A f \in forwards' : \E m \in Names : f \in OnPort(m)'
    BY <1>1 DEF OnPort
  <1>11. \A m \in Names : \A f \in OnPort(m)' : tenants'[m].pid = f.pid
    BY <1>1, <1>4, <1>5 DEF ForwardInv
  <1> QED BY <1>7, <1>8, <1>9, <1>10, <1>11 DEF ForwardInv

LEMMA StepForwards ==
  ASSUME IInv, ForwardInv, Gentle, NEW c \in Callers, Step(c)
  PROVE  ForwardInv'
  <1>0. PICK n \in Names : n = call[c].name
    BY Holder
  <1> USE DEF StartSteps, Killed
  <1>1. /\ n \in Names /\ pc \in [Callers -> Steps \cup {"idle", "lock"}]
        /\ tenants \in [Names -> Tenant \cup {NoTenant}] /\ forwards \subseteq Forward
        /\ call[c].port \in Ports \cup {None} /\ spawned \in Nat
    BY Holder DEF IInv, TypeInv, TypeOK
  <1>2. ListenersAt(pc[c], call[c]) /\ StageAt(pc[c], call[c])
    BY DEF ForwardInv, IInv, Stage
  <1>3. CASE CreateCheck(c) \/ CreateAllocate(c) \/ CreateOverlay(c) \/ CreateSeed(c)
             \/ CreateSerialLog(c) \/ CreateInstall(c) \/ CreateUndo(c) \/ Discard(c)
    BY <1>0, <1>1, <1>3, QuietStep
    DEF CreateCheck, CreateAllocate, CreateOverlay, CreateSeed, CreateSerialLog,
        CreateInstall, CreateUndo, Discard, Goto, Return, memory
  <1>4. CASE StartDomain(c) \/ StartLease(c) \/ StartPort(c)
    BY <1>0, <1>1, <1>4, QuietStep DEF StartDomain, StartLease, StartPort, Goto, Return, memory
  <1>5. CASE StopDestroy(c) \/ RemoveUndefine(c)
    BY <1>0, <1>1, <1>5, QuietStep
    DEF StopDestroy, AfterStop, RemoveUndefine, Goto, Return, memory
  <1>6. CASE CreateCommit(c)
    <2>1. /\ ~Tracked(n) /\ LeaseOf(n) = call[c].port /\ call[c].port \in Ports
          /\ forwards' = forwards /\ pc[c] = "commit" /\ pc'[c] = "idle"
      BY <1>0, <1>1, <1>2, <1>6, LeaseView DEF CreateCommit, StageAt, Holding, Return
    <2>2. \A m \in Names \ {n} : tenants'[m] = tenants[m]
      BY <1>0, <1>1, <1>6 DEF CreateCommit
    <2>3. tenants'[n].port = call[c].port
      BY <1>0, <1>1, <1>6 DEF CreateCommit, NoTenant
    <2>4. \A f \in forwards : \E m \in Names : f \in OnPort(m) /\ m # n
      BY <2>1 DEF ForwardInv, OnPort
    <2>5. \A f \in forwards : f.port # call[c].port
      BY <1>0, <1>1, <2>1, <2>4, PortsApart DEF OnPort
    <2>6. OnPort(n)' = {}
      BY <2>1, <2>3, <2>5, StepMoves DEF OnPort
    <2> QED BY <1>0, <2>1, <2>2, <2>4, <2>6, MapStep
  <1>7. CASE StopKill(c)
    <2>1. /\ pc[c] = "kill" /\ pc'[c] = "destroy" /\ tenants' = tenants
          /\ forwards' = IF tenants[n].pid = None THEN forwards
                         ELSE {f \in forwards : f.pid # tenants[n].pid}
      BY <1>0, <1>1, <1>7 DEF StopKill, KillPid, Goto, Gentle, memory
    <2>2. call'[c] = call[c]
      BY <1>7 DEF StopKill
    <2>3. ~Recording(n)
      BY <2>1, Holder DEF Recording
    <2>4. \A f \in OnPort(n) : f.pid = tenants[n].pid /\ f.pid # None
      BY <1>0, <1>1, <2>3 DEF ForwardInv, OnPort, Forward
    <2>5. OnPort(n)' = {}
      BY <2>1, <2>2, <2>4 DEF OnPort, Tracked
    <2>6. \A f \in forwards' : \E m \in Names : f \in OnPort(m) /\ m # n
      <3> SUFFICES ASSUME NEW f \in forwards' PROVE \E m \in Names : f \in OnPort(m) /\ m # n
        OBVIOUS
      <3>1. PICK m \in Names : f \in OnPort(m)
        BY <2>1 DEF ForwardInv
      <3>2. f \notin OnPort(n)
        BY <2>1, <2>4
      <3> QED BY <3>1, <3>2
    <2> QED BY <2>1, <2>5, <2>6, MapStep, <1>0
  <1>8. CASE StopClear(c)
    <2>1. /\ pc[c] = "clear" /\ pc'[c] \in {"undefine", "idle"} /\ forwards' = forwards
          /\ OnPort(n) = {}
      BY <1>0, <1>1, <1>2, <1>8 DEF StopClear, AfterStop, Goto, Return, ListenersAt
    <2>2. \A m \in Names \ {n} : tenants'[m] = tenants[m]
      BY <1>0, <1>1, <1>8 DEF StopClear
    <2>3. /\ tenants'[n].port = tenants[n].port /\ (Tracked(n)' => Tracked(n))
      BY <1>0, <1>1, <1>8 DEF StopClear, Tracked
    <2>4. OnPort(n)' = {}
      BY <2>1, <2>3, StepMoves DEF OnPort
    <2>5. \A f \in forwards : \E m \in Names : f \in OnPort(m) /\ m # n
      BY <2>1 DEF ForwardInv
    <2> QED BY <2>1, <2>2, <2>4, <2>5, MapStep, <1>0
  <1>9. CASE RemoveForget(c)
    <2>1. /\ pc[c] = "forget" /\ pc'[c] \in {"discard", "idle"} /\ forwards' = forwards
          /\ OnPort(n) = {}
      BY <1>0, <1>1, <1>2, <1>9 DEF RemoveForget, Goto, Return, ListenersAt
    <2>2. /\ \A m \in Names \ {n} : tenants'[m] = tenants[m]
          /\ tenants'[n] = NoTenant
      BY <1>0, <1>1, <1>9 DEF RemoveForget
    <2>3. OnPort(n)' = {}
      BY <2>2, StepMoves DEF OnPort, Tracked
    <2>4. \A f \in forwards : \E m \in Names : f \in OnPort(m) /\ m # n
      BY <2>1 DEF ForwardInv
    <2> QED BY <2>1, <2>2, <2>3, <2>4, MapStep, <1>0
  <1>10. CASE StartForward(c)
    <2> DEFINE new == [pid |-> spawned + 1, port |-> call[c].port, ip |-> call[c].ip]
    <2>1. /\ pc[c] = "forward" /\ tenants' = tenants /\ Tracked(n) /\ OnPort(n) = {}
          /\ call[c].port = tenants[n].port /\ call[c].op = "start"
      BY <1>0, <1>2, <1>10 DEF StartForward, memory, StageAt, Publishing, ListenersAt
    <2>2. CASE Return(c) /\ UNCHANGED <<spawned, forwards>>
      BY <1>1, <2>1, <2>2, QuietStep DEF Return
    <2>3. CASE ~(Return(c) /\ UNCHANGED <<spawned, forwards>>)
      <3>1. /\ call' = [call EXCEPT ![c].pid = spawned + 1] /\ pc' = [pc EXCEPT ![c] = "record"]
            /\ forwards' = forwards \cup (IF Bound(call[c].port) THEN {} ELSE {new})
        BY <1>10, <2>3 DEF StartForward, Goto
      <3>2. ~Bound(call[c].port)
        BY <2>1 DEF Bound, OnPort
      <3>3. forwards' = forwards \cup {new}
        BY <3>1, <3>2
      <3>4. /\ pc'[c] = "record" /\ call'[c].name = n /\ call'[c].op = "start"
            /\ call'[c].pid = new.pid /\ call'[c].port = new.port /\ call'[c].ip = new.ip
            /\ \A d \in Callers \ {c} : pc'[d] = pc[d] /\ call'[d] = call[d]
                                        /\ pc'[d] \in {"idle", "lock"}
        BY <1>0, <1>1, <2>1, <3>1, StepMoves DEF IInv, TypeInv, TypeOK
      <3>5. \A m \in Names : Tracked(m)' <=> Tracked(m)
        BY <2>1 DEF Tracked
      <3>6. OnPort(n)' = {new}
        BY <2>1, <3>3, <3>5 DEF OnPort
      <3>7. \A m \in Names \ {n} : OnPort(m)' = OnPort(m)
        <4> SUFFICES ASSUME NEW m \in Names \ {n} PROVE OnPort(m)' = OnPort(m)
          OBVIOUS
        <4>1. Tracked(m) => tenants[m].port # new.port
          BY <2>1, PortsApart
        <4> QED BY <2>1, <3>3, <3>5, <4>1 DEF OnPort
      <3>8. \A f \in forwards' : \E m \in Names : f \in OnPort(m)'
        <4> SUFFICES ASSUME NEW f \in forwards' PROVE \E m \in Names : f \in OnPort(m)'
          OBVIOUS
        <4>1. CASE f = new
          BY <3>6, <4>1
        <4>2. CASE f \in forwards
          <5>1. PICK m \in Names : f \in OnPort(m)
            BY <4>2 DEF ForwardInv
          <5> QED BY <2>1, <3>7, <5>1
        <4> QED BY <3>3, <4>1, <4>2
      <3>9. \A m \in Names : \A f \in OnPort(m)' : tenants'[m].pid = f.pid \/ Recording(m)'
        <4>1. Recording(n)'
          BY <3>4 DEF Recording
        <4>2. \A m \in Names \ {n} : ~Recording(m)
          BY <2>1, Holder DEF Recording
        <4>3. \A m \in Names \ {n} : \A f \in OnPort(m)' : tenants'[m].pid = f.pid
          BY <2>1, <3>7, <4>2 DEF ForwardInv
        <4> QED BY <4>1, <4>3
      <3>10. ListenersAt(pc[c], call[c])'
        <4>1. OnPort(call[c].name)' = {new}
          BY <2>1, <3>3, <3>4, <3>5 DEF OnPort
        <4> QED BY <3>4, <4>1 DEF ListenersAt
      <3>11. \A d \in Callers \ {c} : ListenersAt(pc[d], call[d])'
        <4> SUFFICES ASSUME NEW d \in Callers \ {c} PROVE ListenersAt(pc[d], call[d])'
          OBVIOUS
        <4>1. ASSUME call[d].op = "start" PROVE OnPort(call[d].name)' = {}
          <5>1. call[d].name \in Names \ {n}
            BY <1>0, <2>1, <4>1 DEF ForwardInv, ListenersAt, IInv, TypeInv, CallKnown
          <5>2. OnPort(call[d].name) = {}
            BY <3>4, <4>1 DEF ForwardInv, ListenersAt
          <5>3. PICK m \in Names \ {n} : m = call[d].name
            BY <5>1
          <5>4. OnPort(call[d].name)' = OnPort(m)'
            BY <3>4, <5>3 DEF OnPort, Tracked
          <5> QED BY <3>7, <5>2, <5>3, <5>4
        <4> QED BY <3>4, <4>1 DEF ForwardInv, ListenersAt
      <3>12. \A a, d \in Callers :
              call'[a].op = "start" /\ call'[d].op = "start" /\ call'[a].name = call'[d].name
                => a = d
        BY <1>0, <2>1, <3>4 DEF ForwardInv
      <3> QED BY <3>8, <3>9, <3>10, <3>11, <3>12 DEF ForwardInv
    <2> QED BY <2>2, <2>3
  <1>11. CASE StartRecord(c)
    <2> DEFINE new == [pid |-> call[c].pid, port |-> call[c].port, ip |-> call[c].ip]
    <2>1. /\ pc[c] = "record" /\ Tracked(n) /\ OnPort(n) = {new}
          /\ forwards' = forwards /\ pc'[c] = "idle" /\ call'[c] = NoCall
      BY <1>0, <1>1, <1>2, <1>11, StepMoves
      DEF StartRecord, StageAt, Publishing, ListenersAt, Return
    <2>2. /\ tenants'[n].pid = call[c].pid /\ tenants'[n].port = tenants[n].port
          /\ Tracked(n)' /\ \A m \in Names \ {n} : tenants'[m] = tenants[m]
      <3>1. tenants' = [tenants EXCEPT ![n].pid = call[c].pid, ![n].ip = call[c].ip]
        BY <1>0, <1>11, <2>1 DEF StartRecord
      <3>2. tenants[n] \in Tenant
        BY <1>1, <2>1 DEF Tracked
      <3>3. tenants'[n].port = tenants[n].port /\ tenants'[n].pid = call[c].pid
        BY <1>1, <3>1, <3>2 DEF Tenant
      <3>4. tenants[n].port # NoTenant.port
        BY <3>2 DEF Tenant, NoTenant
      <3> QED BY <1>1, <3>1, <3>3, <3>4 DEF Tracked
    <2>3. \A m \in Names : OnPort(m)' = OnPort(m)
      BY <2>1, <2>2 DEF OnPort, Tracked
    <2>4. \A d \in Callers \ {c} : pc'[d] = pc[d] /\ call'[d] = call[d]
                                   /\ pc'[d] \in {"idle", "lock"}
      BY StepMoves
    <2>5. NoCall.op # "start"
      BY NoneIsNoOp DEF NoCall
    <2>6. \A m \in Names : \A f \in OnPort(m)' : tenants'[m].pid = f.pid
      <3>1. \A m \in Names \ {n} : ~Recording(m)
        BY <1>0, <2>4 DEF Recording
      <3>2. \A m \in Names \ {n} : \A f \in OnPort(m)' : tenants'[m].pid = f.pid
        BY <2>2, <2>3, <3>1 DEF ForwardInv
      <3>3. \A f \in OnPort(n)' : f.pid = call[c].pid
        BY <2>1, <2>3
      <3> QED BY <2>2, <3>2, <3>3
    <2>7. \A d \in Callers : ListenersAt(pc[d], call[d])'
      <3>1. ListenersAt(pc[c], call[c])'
        BY <2>1, <2>5 DEF ListenersAt
      <3>2. ASSUME NEW d \in Callers \ {c} PROVE ListenersAt(pc[d], call[d])'
        <4>1. ASSUME call[d].op = "start" PROVE OnPort(call[d].name)' = {}
          <5>1. PICK m \in Names : m = call[d].name
            BY <4>1 DEF ForwardInv, ListenersAt, IInv, TypeInv, CallKnown
          <5>2. OnPort(call[d].name)' = OnPort(m)'
            BY <2>4, <5>1 DEF OnPort, Tracked
          <5>3. OnPort(call[d].name) = {}
            BY <2>4, <4>1 DEF ForwardInv, ListenersAt
          <5> QED BY <2>3, <5>1, <5>2, <5>3
        <4> QED BY <2>4, <4>1 DEF ForwardInv, ListenersAt
      <3> QED BY <3>1, <3>2
    <2>8. \A a, d \in Callers :
            call'[a].op = "start" /\ call'[d].op = "start" /\ call'[a].name = call'[d].name
              => a = d
      BY <2>1, <2>4, <2>5 DEF ForwardInv
    <2>9. \A f \in forwards' : \E m \in Names : f \in OnPort(m)'
      BY <2>1, <2>3 DEF ForwardInv
    <2> QED BY <2>6, <2>7, <2>8, <2>9 DEF ForwardInv
  <1> QED BY <1>3, <1>4, <1>5, <1>6, <1>7, <1>8, <1>9, <1>10, <1>11 DEF Step

LEMMA NextForwards ==
  ASSUME IInv, ForwardInv, Gentle, [Next]_vars
  PROVE  ForwardInv'
  <1>1. CASE UNCHANGED <<pc, call, tenants, forwards>>
    BY <1>1 DEF ForwardInv, ListenersAt, Recording, OnPort, Tracked
  <1>2. ASSUME NEW c \in Callers, NEW op \in Ops, NEW n \in Names, Begin(c, op, n)
        PROVE  ForwardInv'
    <2>1. /\ pc[c] = "idle" /\ pc'[c] = "lock" /\ call'[c].op = op /\ call'[c].name = n
          /\ \A d \in Callers \ {c} : pc'[d] = pc[d] /\ call'[d] = call[d]
          /\ tenants' = tenants /\ forwards' = forwards
      BY <1>2 DEF Begin, IInv, TypeInv, TypeOK, NoCall, memory
    <2>2. op = "start" => OnPort(n) = {} /\ \A d \in Callers :
                            ~(call[d].op = "start" /\ call[d].name = n)
      BY <1>2 DEF Begin, MayCall, Gentle, HasForward, InStart, OnPort
    <2>3. \A m : OnPort(m)' = OnPort(m)
      BY <2>1 DEF OnPort, Tracked
    <2>4. \A m \in Names : Recording(m)' <=> Recording(m)
      BY <2>1 DEF Recording
    <2>5. ASSUME NEW d \in Callers PROVE ListenersAt(pc[d], call[d])'
      <3>1. CASE d = c
        <4>1. OnPort(call[d].name)' = OnPort(n)
          BY <2>1, <3>1 DEF OnPort, Tracked
        <4> QED BY <2>1, <2>2, <3>1, <4>1 DEF ListenersAt, Killed, StartSteps
      <3>2. CASE d # c
        <4>1. OnPort(call[d].name)' = OnPort(call[d].name)
          BY <2>1, <3>2 DEF OnPort, Tracked
        <4> QED BY <2>1, <3>2, <4>1 DEF ForwardInv, ListenersAt
      <3> QED BY <3>1, <3>2
    <2>6. \A a, d \in Callers :
            call'[a].op = "start" /\ call'[d].op = "start" /\ call'[a].name = call'[d].name
              => a = d
      BY <2>1, <2>2 DEF ForwardInv
    <2> QED BY <2>1, <2>3, <2>4, <2>5, <2>6 DEF ForwardInv
  <1>3. ASSUME NEW c \in Callers, Acquire(c)
        PROVE  ForwardInv'
    <2>1. /\ pc[c] = "lock" /\ call' = call /\ tenants' = tenants /\ forwards' = forwards
          /\ pc'[c] = FirstStep(call[c].op)
          /\ \A d \in Callers \ {c} : pc'[d] = pc[d]
      BY <1>3 DEF Acquire, IInv, TypeInv, TypeOK, memory
    <2>2. /\ call[c].op = "start" => pc'[c] = "start"
          /\ call[c].op # "start" => pc'[c] \in {"check", "kill"}
      BY <2>1 DEF FirstStep, IInv, TypeInv, CallKnown, Ops
    <2>3. \A m \in Names : Recording(m)' <=> Recording(m)
      BY <2>1, <2>2 DEF Recording
    <2>4. ASSUME NEW d \in Callers PROVE ListenersAt(pc[d], call[d])'
      <3>1. OnPort(call[d].name)' = OnPort(call[d].name)
        BY <2>1 DEF OnPort, Tracked
      <3> QED BY <2>1, <2>2, <3>1 DEF ForwardInv, ListenersAt, Killed, StartSteps
    <2>5. \A m \in Names : OnPort(m)' = OnPort(m)
      BY <2>1 DEF OnPort, Tracked
    <2> QED BY <2>1, <2>3, <2>4, <2>5 DEF ForwardInv
  <1>4. CASE LateCommand
    BY <1>1, <1>4 DEF LateCommand, memory
  <1>5. ~Crash
    BY DEF Crash, Gentle, IInv, TypeInv, TypeOK
  <1> QED BY <1>1, <1>2, <1>3, <1>4, <1>5, StepForwards DEF Next, vars, memory

LEMMA InitForwards == Init => ForwardInv
  <1> SUFFICES ASSUME Init PROVE ForwardInv
    OBVIOUS
  <1>1. \A c \in Callers : pc[c] = "idle" /\ call[c].op # "start"
    BY NoneIsNoOp DEF Init, NoCall
  <1>2. forwards = {} /\ \A n : OnPort(n) = {}
    BY DEF Init, OnPort
  <1> QED BY <1>1, <1>2 DEF ForwardInv, ListenersAt, Killed, StartSteps

\* A free port has no listener, for any number of callers, tenants and ports,
\* late commands and failures, when a tenant that has a forward is not started
\* again, kills work and the backend is not restarted.
THEOREM FreePortsSilent == ASSUME Gentle PROVE Spec => []ForwardsOwned
  <1>1. IInv /\ [Next]_vars => IInv'
    BY NextPorts
  <1>2. IInv /\ ForwardInv /\ [Next]_vars => ForwardInv'
    BY NextForwards
  <1> QED
    BY InitPorts, InitForwards, <1>1, <1>2, ListenersOwned, PTL DEF Spec

\* Only the last step of a start gives a tenant a process id, and the listener
\* it stands for is then the only one on the tenant's port.
LEMMA PidPublished ==
  ASSUME IInv, ForwardInv, Gentle, [Next]_vars,
         NEW n \in Names, tenants'[n].pid \notin {None, tenants[n].pid}
  PROVE  \E f \in forwards' : f.pid = tenants'[n].pid /\ f.port = tenants'[n].port
  <1>1. tenants' # tenants
    OBVIOUS
  <1>2. ~Crash
    BY DEF Crash, Gentle, IInv, TypeInv, TypeOK
  <1>3. PICK c \in Callers : Step(c)
    BY <1>1, <1>2 DEF Next, vars, memory, Begin, Acquire, LateCommand
  <1>4. tenants \in [Names -> Tenant \cup {NoTenant}] /\ call[c].name \in Names
    BY <1>3, Holder
  <1>5. ~CreateCommit(c)
    BY <1>4 DEF CreateCommit, NoTenant
  <1>6. ~StopClear(c)
    <2> SUFFICES ASSUME StopClear(c) PROVE FALSE
      OBVIOUS
    <2>1. tenants' = [tenants EXCEPT ![call[c].name].pid = None, ![call[c].name].ip = None]
      BY <1>1 DEF StopClear
    <2>2. Tracked(call[c].name)
      BY <1>1 DEF StopClear
    <2>3. tenants[call[c].name] \in Tenant
      BY <1>4, <2>2 DEF Tracked
    <2>4. tenants'[call[c].name].pid = None
      BY <1>4, <2>1, <2>3 DEF Tenant
    <2> QED BY <1>4, <2>1, <2>4
  <1>7. ~RemoveForget(c)
    BY <1>4 DEF RemoveForget, NoTenant
  <1>8. StartRecord(c)
    BY <1>1, <1>3, <1>5, <1>6, <1>7
    DEF Step, CreateCheck, CreateAllocate, CreateOverlay, CreateSeed, CreateSerialLog,
        CreateInstall, CreateUndo, Discard, StartDomain, StartLease, StartPort, StartForward,
        StopKill, StopDestroy, RemoveUndefine, memory
  <1>9. Tracked(call[c].name) /\ call[c].port = tenants[call[c].name].port
        /\ OnPort(call[c].name) = {[pid |-> call[c].pid, port |-> call[c].port, ip |-> call[c].ip]}
    BY <1>8 DEF StartRecord, IInv, Stage, StageAt, Publishing, ForwardInv, ListenersAt
  <1>10. tenants' = [tenants EXCEPT ![call[c].name].pid = call[c].pid,
                                    ![call[c].name].ip  = call[c].ip]
         /\ forwards' = forwards
    BY <1>8, <1>9 DEF StartRecord
  <1>11. tenants[call[c].name] \in Tenant
    BY <1>4, <1>9 DEF Tracked
  <1>12. n = call[c].name
    BY <1>4, <1>10
  <1>13. tenants'[n].pid = call[c].pid /\ tenants'[n].port = call[c].port
    BY <1>4, <1>9, <1>10, <1>11, <1>12 DEF Tenant
  <1>14. [pid |-> call[c].pid, port |-> call[c].port, ip |-> call[c].ip] \in forwards
    BY <1>9 DEF OnPort
  <1> QED BY <1>10, <1>13, <1>14

\* Under the same conditions, the process id that start_container publishes is
\* the live listener on the tenant's own port.
THEOREM PublishedForwardsLive == ASSUME Gentle PROVE Spec => StartPublishesLiveForward
  <1> DEFINE Published ==
        \A n \in Names : tenants'[n].pid \notin {None, tenants[n].pid} =>
          \E f \in forwards' : f.pid = tenants'[n].pid /\ f.port = tenants'[n].port
  <1>1. IInv /\ [Next]_vars => IInv'
    BY NextPorts
  <1>2. IInv /\ ForwardInv /\ [Next]_vars => ForwardInv'
    BY NextForwards
  <1>3. IInv /\ ForwardInv /\ [Next]_vars => [Published]_vars
    BY PidPublished
  <1> HIDE DEF Published
  <1>4. Spec => [][Published]_vars
    BY InitPorts, InitForwards, <1>1, <1>2, <1>3, PTL DEF Spec
  <1> QED BY <1>4 DEF Published, StartPublishesLiveForward
-------------------------------------------------------------------------------
(* Where a public port leads.  The address a start forwards to is one whose *)
(* lease row contains the name of its tenant; it is the tenant's own when no *)
(* row contains another's.  That the listener is the start's, and not one    *)
(* left over from the tenant before, is ForwardInv.                          *)

NamesApart == \A m, n \in Names : <<m, n>> \in Mentions => m = n

Found == \A c \in Callers : pc[c] \in {"port", "forward"} => call[c].ip = call[c].name

LEMMA StepFound ==
  ASSUME IInv, Found, NamesApart, NEW c \in Callers, Step(c)
  PROVE  Found'
  <1>1. /\ DOMAIN call = Callers /\ DOMAIN pc = Callers
        /\ call[c] \in [op   : Ops \cup {None},   name : Names \cup {None},
                        port : Ports \cup {None}, ip   : Names \cup {None},
                        pid  : Nat \cup {None}]
        /\ call[c].name \in Names /\ leases \subseteq Names
    BY Holder DEF IInv, TypeInv, TypeOK
  <1>2. \A d \in Callers \ {c} : pc'[d] \notin {"port", "forward"}
    BY StepMoves
  <1>3. CASE StartLease(c)
    <2>1. CASE Return(c)
      BY <1>1, <1>2, <2>1 DEF Return, Found
    <2>2. ASSUME NEW m \in leases, <<m, call[c].name>> \in Mentions,
                 call' = [call EXCEPT ![c].ip = m]
          PROVE  Found'
      <3>1. m = call[c].name
        BY <1>1, <2>2 DEF NamesApart
      <3>2. call'[c].ip = m /\ call'[c].name = call[c].name
        BY <1>1, <2>2
      <3> QED BY <1>2, <3>1, <3>2 DEF Found
    <2> QED BY <1>3, <2>1, <2>2 DEF StartLease
  <1>4. CASE StartPort(c)
    <2>1. call[c].ip = call[c].name
      BY <1>4 DEF StartPort, Found
    <2> QED BY <1>1, <1>2, <1>4, <2>1 DEF StartPort, Found, Goto, Return
  <1>5. CASE ~StartLease(c) /\ ~StartPort(c)
    <2>1. pc'[c] \notin {"port", "forward"}
      BY <1>1, <1>5
      DEF Step, CreateCheck, CreateAllocate, CreateOverlay, CreateSeed, CreateSerialLog,
          CreateInstall, CreateUndo, CreateCommit, Discard, StartDomain, StartForward,
          StartRecord, StopKill, StopDestroy, StopClear, RemoveUndefine, RemoveForget,
          AfterStop, Goto, Return
    <2> QED BY <1>2, <2>1 DEF Found
  <1> QED BY <1>3, <1>4, <1>5

LEMMA NextFound ==
  ASSUME IInv, Found, NamesApart, [Next]_vars
  PROVE  Found'
  <1>1. CASE UNCHANGED vars \/ LateCommand
    BY <1>1 DEF LateCommand, vars, Found
  <1>2. ASSUME NEW c \in Callers, Acquire(c)
        PROVE  Found'
    <2>1. /\ pc' = [pc EXCEPT ![c] = FirstStep(call[c].op)] /\ call' = call
          /\ DOMAIN pc = Callers /\ pc[c] = "lock"
      BY <1>2 DEF Acquire, IInv, TypeInv, TypeOK
    <2>2. FirstStep(call[c].op) \notin {"port", "forward"}
      BY <2>1 DEF FirstStep, IInv, TypeInv, CallKnown, Ops
    <2> QED BY <2>1, <2>2 DEF Found
  <1>3. ASSUME NEW c \in Callers, NEW op \in Ops, NEW n \in Names, Begin(c, op, n)
        PROVE  Found'
    <2>1. /\ pc' = [pc EXCEPT ![c] = "lock"] /\ DOMAIN pc = Callers
          /\ \A d \in Callers \ {c} : call'[d] = call[d]
      BY <1>3 DEF Begin, IInv, TypeInv, TypeOK
    <2> QED BY <2>1 DEF Found
  <1>4. CASE Crash
    BY <1>4 DEF Crash, Found
  <1> QED BY <1>1, <1>2, <1>3, <1>4, StepFound DEF Next

\* The port of a tenant in the map was its own before the step too, in the map
\* or in the hands of the create that now commits it.
LEMMA PortsStay ==
  ASSUME IInv, [Next]_vars, NEW n \in Names, Tracked(n)'
  PROVE  LeaseOf(n) = tenants'[n].port
  <1>1. CASE UNCHANGED tenants
    BY <1>1 DEF LeaseOf, Tracked
  <1>2. ~Crash
    BY DEF Crash, Tracked
  <1>3. CASE ~UNCHANGED tenants
    <2>1. PICK c \in Callers : Step(c)
      BY <1>2, <1>3 DEF Next, vars, memory, Begin, Acquire, LateCommand
    <2>2. tenants \in [Names -> Tenant \cup {NoTenant}] /\ call[c].name \in Names
      BY <2>1, Holder
    <2>3. LeaseOf(n) = IF Tracked(n) THEN tenants[n].port
                       ELSE IF call[c].name = n THEN call[c].port ELSE None
      BY <2>1, LeaseView
    <2>4. StageAt(pc[c], call[c])
      BY DEF IInv, Stage
    <2>5. CASE CreateCommit(c)
      BY <2>2, <2>3, <2>4, <2>5 DEF CreateCommit, StageAt, Holding, Tracked, NoTenant
    <2>6. ASSUME StartRecord(c) \/ StopClear(c), Tracked(call[c].name)
          PROVE  LeaseOf(n) = tenants'[n].port
      <3>1. tenants[call[c].name] \in Tenant
        BY <2>2, <2>6 DEF Tracked
      <3>2. \E pid, ip : tenants' = [tenants EXCEPT ![call[c].name].pid = pid,
                                                   ![call[c].name].ip  = ip]
        BY <2>6 DEF StartRecord, StopClear
      <3>3. tenants'[n].port = tenants[n].port /\ (n # call[c].name => tenants'[n] = tenants[n])
        BY <2>2, <3>1, <3>2 DEF Tenant
      <3> QED BY <2>3, <2>6, <3>3 DEF Tracked
    <2>7. CASE RemoveForget(c)
      BY <2>2, <2>3, <2>7 DEF RemoveForget, Tracked
    <2>8. StartRecord(c) \/ StopClear(c) => Tracked(call[c].name)
      BY <1>3 DEF StartRecord, StopClear
    <2> QED
      BY <1>3, <2>1, <2>5, <2>6, <2>7, <2>8
      DEF Step, CreateCheck, CreateAllocate, CreateOverlay, CreateSeed, CreateSerialLog,
          CreateInstall, CreateUndo, Discard, StartDomain, StartLease, StartPort, StartForward,
          StopKill, StopDestroy, RemoveUndefine, memory
  <1> QED BY <1>1, <1>3

LEMMA NextReached ==
  ASSUME IInv, ForwardInv, Found, Gentle, [Next]_vars, ForwardReachesOwnTenant
  PROVE  ForwardReachesOwnTenant'
  <1> SUFFICES ASSUME NEW n \in Names, NEW f \in forwards',
                      Tracked(n)', f.port = tenants'[n].port
               PROVE  f.ip = n
    BY DEF ForwardReachesOwnTenant
  <1>1. LeaseOf(n) = f.port
    BY PortsStay
  <1>2. \A m \in Names : Tracked(m) /\ tenants[m].port = f.port => m = n
    BY <1>1, PortsApart
  <1>3. CASE f \in forwards
    <2>1. PICK m \in Names : Tracked(m) /\ f.port = tenants[m].port
      BY <1>3 DEF ForwardInv, OnPort
    <2> QED BY <1>2, <1>3, <2>1 DEF ForwardReachesOwnTenant
  <1>4. CASE f \notin forwards
    <2>1. PICK c \in Callers : StartForward(c)
      <3>1. ~Crash
        BY DEF Crash, Tracked
      <3> QED
        BY <1>4, <3>1
        DEF Next, Step, vars, memory, Begin, Acquire, LateCommand, CreateCheck, CreateAllocate,
            CreateOverlay, CreateSeed, CreateSerialLog, CreateInstall, CreateUndo,
            CreateCommit, Discard, StartDomain, StartLease, StartPort, StartRecord, KillPid,
            StopKill, StopDestroy, StopClear, RemoveUndefine, RemoveForget
    <2>2. f.port = call[c].port /\ f.ip = call[c].ip /\ pc[c] = "forward"
      BY <1>4, <2>1 DEF StartForward
    <2>3. Tracked(call[c].name) /\ call[c].port = tenants[call[c].name].port
      BY <2>2 DEF IInv, Stage, StageAt, Publishing
    <2>4. call[c].name \in Names
      BY <2>1, Holder DEF Step
    <2> QED BY <1>2, <2>2, <2>3, <2>4 DEF Found
  <1> QED BY <1>3, <1>4

\* Whatever listens on a tenant's public port leads to that tenant, for any
\* callers, tenants and ports, late commands and failures, as long as no tenant's
\* name is part of another's lease row, which libvirt_prefix shows to be needed,
\* and no listener is left over: no tenant with a forward is started again,
\* kills work and the backend is not restarted.
THEOREM OwnTenantReached ==
  ASSUME NamesApart, Gentle
  PROVE  Spec => []ForwardReachesOwnTenant
  <1>1. Init => Found /\ ForwardReachesOwnTenant
    BY DEF Init, Found, ForwardReachesOwnTenant
  <1>2. IInv /\ [Next]_vars => IInv'
    BY NextPorts
  <1>3. IInv /\ ForwardInv /\ [Next]_vars => ForwardInv'
    BY NextForwards
  <1>4. IInv /\ Found /\ [Next]_vars => Found'
    BY NextFound
  <1>5. IInv /\ ForwardInv /\ Found /\ ForwardReachesOwnTenant /\ [Next]_vars
          => ForwardReachesOwnTenant'
    BY NextReached
  <1> QED
    BY InitPorts, InitForwards, <1>1, <1>2, <1>3, <1>4, <1>5, PTL DEF Spec
-------------------------------------------------------------------------------
(* Calls come to an end *)

\* Steps an operation may still take once it has the lock.
StepsLeft(c) ==
  CASE pc[c] = "check"    -> 9
    [] pc[c] = "allocate" -> 8
    [] pc[c] = "overlay"  -> 7
    [] pc[c] \in {"seed", "kill"} -> 6
    [] pc[c] \in {"serial", "start", "destroy"} -> 5
    [] pc[c] \in {"install", "lease", "clear"} -> 4
    [] pc[c] \in {"undo", "port", "undefine"} -> 3
    [] pc[c] \in {"forward", "forget"} -> 2
    [] pc[c] \in {"commit", "discard", "record"} -> 1
    [] pc[c] \in {"idle", "lock"} -> 0

\* An operation under way comes closer to its end with each step of its own;
\* only a restart of the backend moves it otherwise, and ends it. Nobody else
\* takes or frees the lock that it holds.
WindsDown ==
  \A c \in Callers : pc[c] \in Steps =>
    /\ lock = c
    /\ \/ Step(c) /\ StepsLeft(c)' < StepsLeft(c)
       \/ pc'[c] = pc[c] /\ lock' = lock
       \/ Crash /\ pc'[c] = "idle"

LEMMA OwnStep ==
  ASSUME TypeInv, NEW c \in Callers, Step(c)
  PROVE  StepsLeft(c)' < StepsLeft(c)
  <1>1. /\ pc \in [Callers -> Steps \cup {"idle", "lock"}]
        /\ \A step : Goto(c, step) => pc'[c] = step
        /\ Return(c) => pc'[c] = "idle"
        /\ AfterStop(c) => pc'[c] \in {"idle", "undefine"}
    BY DEF TypeInv, TypeOK, Goto, Return, AfterStop
  <1>2. CASE CreateCheck(c) \/ CreateAllocate(c) \/ CreateOverlay(c) \/ CreateSeed(c)
    BY <1>1, <1>2 DEF CreateCheck, CreateAllocate, CreateOverlay, CreateSeed, StepsLeft
  <1>3. CASE CreateSerialLog(c) \/ CreateInstall(c) \/ CreateUndo(c)
    BY <1>1, <1>3 DEF CreateSerialLog, CreateInstall, CreateUndo, StepsLeft
  <1>4. CASE CreateCommit(c) \/ Discard(c)
    <2>1. pc[c] \in {"commit", "discard"} /\ pc'[c] = "idle"
      BY <1>1, <1>4 DEF CreateCommit, Discard
    <2> QED BY <2>1 DEF StepsLeft
  <1>5. CASE StartDomain(c)
    <2>1. pc[c] = "start" /\ pc'[c] \in {"lease", "idle"}
      BY <1>1, <1>5 DEF StartDomain
    <2> QED BY <2>1 DEF StepsLeft
  <1>6. CASE StartLease(c)
    <2>1. pc[c] = "lease" /\ pc'[c] \in {"port", "idle"}
      BY <1>1, <1>6 DEF StartLease
    <2> QED BY <2>1 DEF StepsLeft
  <1>7. CASE StartPort(c) \/ StartForward(c) \/ StartRecord(c)
    BY <1>1, <1>7 DEF StartPort, StartForward, StartRecord, StepsLeft
  <1>8. CASE StopKill(c) \/ StopDestroy(c) \/ StopClear(c)
    BY <1>1, <1>8 DEF StopKill, StopDestroy, StopClear, StepsLeft
  <1>9. CASE RemoveUndefine(c) \/ RemoveForget(c)
    BY <1>1, <1>9 DEF RemoveUndefine, RemoveForget, StepsLeft
  <1> QED BY <1>2, <1>3, <1>4, <1>5, <1>6, <1>7, <1>8, <1>9 DEF Step

LEMMA HolderMoves ==
  ASSUME IInv, [Next]_vars, NEW c \in Callers, pc[c] \in Steps
  PROVE  \/ Step(c)
         \/ pc'[c] = pc[c] /\ lock' = lock
         \/ Crash /\ pc'[c] = "idle"
  <1>0. lock = c /\ pc \in [Callers -> Steps \cup {"idle", "lock"}] /\ c # None
    BY DEF IInv, LockHeld, Steps, CreateSteps, StartSteps, StopSteps, RemoveSteps,
           TypeInv, TypeOK
  <1>1. CASE LateCommand \/ UNCHANGED vars
    BY <1>1 DEF LateCommand, vars
  <1>2. CASE Crash
    BY <1>2 DEF Crash
  <1>3. ASSUME NEW d \in Callers, Step(d), d # c
        PROVE  FALSE
    <2>1. pc[d] \notin {"idle", "lock"}
      BY <1>3 DEF Step, CreateCheck, CreateAllocate, CreateOverlay, CreateSeed, CreateSerialLog,
          CreateInstall, CreateUndo, CreateCommit, Discard, StartDomain, StartLease, StartPort,
          StartForward, StartRecord, StopKill, StopDestroy, StopClear, RemoveUndefine,
          RemoveForget
    <2> QED BY <1>0, <1>3, <2>1 DEF IInv, LockHeld
  <1>4. ASSUME NEW d \in Callers, Acquire(d)
        PROVE  FALSE
    BY <1>0, <1>4 DEF Acquire
  <1>5. ASSUME NEW d \in Callers, NEW op \in Ops, NEW n \in Names, Begin(d, op, n)
        PROVE  pc'[c] = pc[c] /\ lock' = lock
    <2>1. d # c
      BY <1>0, <1>5 DEF Begin, Steps, CreateSteps, StartSteps, StopSteps, RemoveSteps
    <2> QED BY <1>0, <1>5, <2>1 DEF Begin
  <1> QED BY <1>1, <1>2, <1>3, <1>4, <1>5 DEF Next

\* An operation holds the lock for at most nine steps, whichever of its commands
\* fail or time out, and then gives it back: no path loops or waits for the lock
\* it holds.
THEOREM OperationsEnd ==
  Spec => [](\A c \in Callers : StepsLeft(c) \in 0 .. 9) /\ [][WindsDown]_vars
  <1>1. IInv => \A c \in Callers : StepsLeft(c) \in 0 .. 9
    BY DEF IInv, TypeInv, TypeOK, Steps, CreateSteps, StartSteps, StopSteps, RemoveSteps,
           StepsLeft
  <1>2. ASSUME IInv, [Next]_vars
        PROVE  [WindsDown]_vars
    <2>1. ASSUME NEW c \in Callers, pc[c] \in Steps
          PROVE  lock = c
      BY <1>2, <2>1 DEF IInv, LockHeld, Steps, CreateSteps, StartSteps, StopSteps, RemoveSteps
    <2> QED BY <1>2, <2>1, OwnStep, HolderMoves DEF WindsDown, IInv
  <1> QED
    BY InitPorts, NextPorts, <1>1, <1>2, PTL DEF Spec
===============================================================================
