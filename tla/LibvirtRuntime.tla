---------------------------- MODULE LibvirtRuntime ----------------------------
(***************************************************************************)
(* LibvirtQemuRuntime (cross-node-rental/src/workspace/libvirt_provider.rs) *)
(* as its callers, libvirtd, the socat children and the host file system   *)
(* see it.  create, start, stop and remove are sequences of awaits under   *)
(* one lifecycle mutex; each await is a step here, so that a timeout, a    *)
(* child that outlives its timeout and a crash of the backend can fall     *)
(* between any two of them.                                                *)
(***************************************************************************)
EXTENDS Naturals, FiniteSets

CONSTANTS
  Callers,         \* tasks that call the runtime concurrently
  Names,           \* tenant names (already accepted by is_valid_tenant_name)
  Ports,           \* V6_PORT_BASE .. V6_PORT_BASE + V6_PORT_RANGE - 1
  None,            \* Option::None
  Mentions,        \* <<m, n>>: the lease row of tenant m contains the text n
  Faults,          \* which of "fail", "timeout", "kill" may happen
  RestartRunning,  \* may start be called on a tenant that has a forward?
  MaxSpawns,       \* bound: socat processes spawned in a behaviour
  MaxLate,         \* bound: commands running past their timeout at once
  MaxCrashes       \* bound: restarts of the backend in a behaviour

ASSUME PortsAreNumbers == Ports \subseteq Nat
ASSUME NoneIsFresh     == None \notin Ports \cup Names \cup Callers \cup Nat
ASSUME NoneIsNoOp      == None \notin {"create", "start", "stop", "remove"}
ASSUME KnownFaults     == Faults \subseteq {"fail", "timeout", "kill"}
ASSUME SwitchIsBoolean == RestartRunning \in BOOLEAN

VARIABLES
  lock,      \* lifecycle_lock: the caller that holds it, or None
  pc,        \* the step each caller is about to take
  call,      \* each caller's locals: operation, name, host_port, ip, pid
  tenants,   \* the tenants map: name to TenantState, or NoTenant
  ports,     \* allocated_ports
  defined,   \* libvirt: domains with a persistent definition
  active,    \* libvirt: domains with a QEMU process
  leases,    \* libvirt network: domains whose DHCP lease is listed
  overlays,  \* files in overlay_dir
  seeds,     \* files in seed_dir
  forwards,  \* live socat listeners: process id, port, target address
  late,      \* commands whose caller gave up while the child still runs
  spawned,   \* socat processes spawned so far; also the last process id
  crashes

libvirtd == <<defined, active, leases>>
files    == <<overlays, seeds>>
memory   == <<tenants, ports>>
vars == <<lock, pc, call, memory, libvirtd, files, forwards, late, spawned, crashes>>

CreateSteps == {"check", "allocate", "overlay", "seed", "serial", "install",
                "undo", "commit"}
StartSteps  == {"start", "lease", "port", "forward", "record"}
StopSteps   == {"kill", "destroy", "clear"}
RemoveSteps == {"undefine", "forget"}
Steps == CreateSteps \cup StartSteps \cup StopSteps \cup RemoveSteps \cup {"discard"}

Ops      == {"create", "start", "stop", "remove"}
Commands == [cmd : {"install", "start", "destroy", "undefine"}, name : Names]
NoTenant == [port |-> None, pid |-> None, ip |-> None]
NoCall   == [op |-> None, name |-> None, port |-> None, ip |-> None, pid |-> None]

Tenant   == [port : Ports, pid : Nat \cup {None}, ip : Names \cup {None}]
Forward  == [pid : Nat, port : Ports \cup {None}, ip : Names \cup {None}]

TypeOK ==
  /\ lock \in Callers \cup {None}
  /\ pc \in [Callers -> Steps \cup {"idle", "lock"}]
  /\ call \in [Callers -> [op   : Ops \cup {None},   name : Names \cup {None},
                           port : Ports \cup {None}, ip   : Names \cup {None},
                           pid  : Nat \cup {None}]]
  /\ tenants \in [Names -> Tenant \cup {NoTenant}]
  /\ ports \subseteq Ports
  /\ defined \subseteq Names /\ active \subseteq Names /\ leases \subseteq Names
  /\ overlays \subseteq Names /\ seeds \subseteq Names
  /\ forwards \subseteq Forward
  /\ late \subseteq Commands
  /\ spawned \in Nat /\ crashes \in Nat

Init ==
  /\ lock = None
  /\ pc = [c \in Callers |-> "idle"]
  /\ call = [c \in Callers |-> NoCall]
  /\ tenants = [n \in Names |-> NoTenant]
  /\ ports = {}
  /\ defined = {} /\ active = {} /\ leases = {}
  /\ overlays = {} /\ seeds = {}
  /\ forwards = {} /\ late = {}
  /\ spawned = 0 /\ crashes = 0

Tracked(n) == tenants[n] # NoTenant

Goto(c, step) == pc' = [pc EXCEPT ![c] = step] /\ UNCHANGED lock

\* The guard of the lifecycle mutex is dropped when the operation returns.
Return(c) ==
  /\ pc'   = [pc EXCEPT ![c] = "idle"]
  /\ call' = [call EXCEPT ![c] = NoCall]
  /\ lock' = None

-------------------------------------------------------------------------------
(* Commands sent to libvirtd *)

Applies(cmd, n) ==
  CASE cmd = "install"  -> n \notin defined \cup active
    [] cmd = "start"    -> n \in defined \ active
    [] cmd = "destroy"  -> n \in active
    [] cmd = "undefine" -> n \in defined

\* virt-install both defines and boots the domain; a domain that loses its
\* definition while it runs lives on as a transient one.
Effect(cmd, n) ==
  /\ defined' = CASE cmd = "install"  -> defined \cup {n}
                  [] cmd = "undefine" -> defined \ {n}
                  [] OTHER            -> defined
  /\ active'  = CASE cmd \in {"install", "start"} -> active \cup {n}
                  [] cmd = "destroy"              -> active \ {n}
                  [] OTHER                        -> active
  /\ leases'  = IF cmd \in {"install", "start"} THEN leases \cup {n} ELSE leases

\* run_cmd_with_timeout: the command works, finds nothing to do, fails, or is
\* still running when the timeout drops its future without killing the child.
\* A virt-install that fails may have registered the domain already.
RunCommand(cmd, n, result) ==
  \/ result = "ok"   /\ Applies(cmd, n)  /\ Effect(cmd, n) /\ UNCHANGED late
  \/ result = "noop" /\ ~Applies(cmd, n) /\ UNCHANGED <<libvirtd, late>>
  \/ /\ result = "fail" /\ "fail" \in Faults
     /\ defined' \in {defined} \cup
          (IF cmd = "install" /\ Applies(cmd, n) THEN {defined \cup {n}} ELSE {})
     /\ UNCHANGED <<active, leases, late>>
  \/ /\ result = "timeout" /\ "timeout" \in Faults
     /\ Cardinality(late) < MaxLate
     /\ late' = late \cup {[cmd |-> cmd, name |-> n]}
     /\ UNCHANGED libvirtd

Results == {"ok", "noop", "fail", "timeout"}

\* A child nobody waits for any more reaches libvirtd, or dies without effect.
LateCommand ==
  \E l \in late :
    /\ late' = late \ {l}
    /\ \/ Applies(l.cmd, l.name) /\ Effect(l.cmd, l.name)
       \/ UNCHANGED libvirtd
    /\ UNCHANGED <<lock, pc, call, memory, files, forwards, spawned, crashes>>

-------------------------------------------------------------------------------
(* Calling an operation, and the lifecycle mutex *)

InStart(n) == \E d \in Callers : call[d].op = "start" /\ call[d].name = n
HasForward(n) == \E f \in forwards : Tracked(n) /\ f.port = tenants[n].port
StartsUnderWay == {d \in Callers : call[d].op = "start"}

MayCall(op, n) ==
  op = "start" => /\ spawned + Cardinality(StartsUnderWay) < MaxSpawns
                  /\ RestartRunning \/ ~(InStart(n) \/ HasForward(n))

Begin(c, op, n) ==
  /\ pc[c] = "idle"
  /\ MayCall(op, n)
  /\ pc'   = [pc EXCEPT ![c] = "lock"]
  /\ call' = [call EXCEPT ![c] = [NoCall EXCEPT !.op = op, !.name = n]]
  /\ UNCHANGED <<lock, memory, libvirtd, files, forwards, late, spawned, crashes>>

\* Fault for testing: remove skips the stop and leaves the forward behind.
FirstStep_RemoveSkipsStop(op) ==
  CASE op = "create" -> "check"
    [] op = "start"  -> "start"
    [] op = "stop"   -> "kill"
    [] op = "remove" -> "undefine"

FirstStep(op) ==
  CASE op = "create" -> "check"
    [] op = "start"  -> "start"
    [] op \in {"stop", "remove"} -> "kill"

\* Fault for testing: remove_container does not take the lifecycle lock.
Acquire_RemoveUnlocked(c) ==
  /\ pc[c] = "lock"
  /\ lock = None \/ call[c].op = "remove"
  /\ lock' = IF call[c].op = "remove" THEN lock ELSE c
  /\ pc' = [pc EXCEPT ![c] = FirstStep(call[c].op)]
  /\ UNCHANGED <<call, memory, libvirtd, files, forwards, late, spawned, crashes>>

Acquire(c) ==
  /\ pc[c] = "lock"
  /\ lock = None
  /\ lock' = c
  /\ pc' = [pc EXCEPT ![c] = FirstStep(call[c].op)]
  /\ UNCHANGED <<call, memory, libvirtd, files, forwards, late, spawned, crashes>>

-------------------------------------------------------------------------------
(* create_container *)

CreateCheck(c) ==
  /\ pc[c] = "check"
  /\ IF Tracked(call[c].name)
       THEN Return(c)
       ELSE Goto(c, "allocate") /\ UNCHANGED call
  /\ UNCHANGED <<memory, libvirtd, files, forwards, late, spawned, crashes>>

FirstFree(p) == p \in Ports \ ports /\ \A q \in Ports \ ports : p <= q

\* Fault for testing: the port is picked but not inserted in the set.
CreateAllocate_NoInsert(c) ==
  /\ pc[c] = "allocate"
  /\ \E p \in Ports : FirstFree(p) /\ call' = [call EXCEPT ![c].port = p]
  /\ Goto(c, "overlay")
  /\ UNCHANGED <<memory, libvirtd, files, forwards, late, spawned, crashes>>

\* allocate_port: the first free port of the range, or an error when none is.
CreateAllocate(c) ==
  /\ pc[c] = "allocate"
  /\ \/ /\ \E p \in Ports :
             /\ FirstFree(p)
             /\ ports' = ports \cup {p}
             /\ call' = [call EXCEPT ![c].port = p]
        /\ Goto(c, "overlay")
     \/ /\ Ports \subseteq ports
        /\ Return(c)
        /\ UNCHANGED ports
  /\ UNCHANGED <<tenants, libvirtd, files, forwards, late, spawned, crashes>>

\* A failed qemu-img or cloud-localds may leave its output file behind.
CreateOverlay(c) ==
  /\ pc[c] = "overlay"
  /\ \/ /\ overlays' = overlays \cup {call[c].name}
        /\ Goto(c, "seed")
        /\ UNCHANGED <<call, ports>>
     \/ /\ "fail" \in Faults
        /\ overlays' \in {overlays, overlays \cup {call[c].name}}
        /\ ports' = ports \ {call[c].port}
        /\ Return(c)
  /\ UNCHANGED <<tenants, libvirtd, seeds, forwards, late, spawned, crashes>>

\* Fault for testing: a failed seed removes the overlay but keeps the port.
CreateSeed_KeepsPort(c) ==
  /\ pc[c] = "seed"
  /\ \/ /\ seeds' = seeds \cup {call[c].name}
        /\ Goto(c, "serial")
        /\ UNCHANGED <<call, overlays>>
     \/ /\ "fail" \in Faults
        /\ overlays' = overlays \ {call[c].name}
        /\ Return(c) /\ UNCHANGED seeds
  /\ UNCHANGED <<memory, libvirtd, forwards, late, spawned, crashes>>

CreateSeed(c) ==
  /\ pc[c] = "seed"
  /\ \/ /\ seeds' = seeds \cup {call[c].name}
        /\ Goto(c, "serial")
        /\ UNCHANGED <<call, ports, overlays>>
     \/ /\ "fail" \in Faults
        /\ seeds' \in {seeds, seeds \cup {call[c].name}}
        /\ overlays' = overlays \ {call[c].name}
        /\ ports' = ports \ {call[c].port}
        /\ Return(c)
  /\ UNCHANGED <<tenants, libvirtd, forwards, late, spawned, crashes>>

CreateSerialLog(c) ==
  /\ pc[c] = "serial"
  /\ \/ /\ Goto(c, "install")
        /\ UNCHANGED <<call, ports, files>>
     \/ /\ "fail" \in Faults
        /\ overlays' = overlays \ {call[c].name}
        /\ seeds' = seeds \ {call[c].name}
        /\ ports' = ports \ {call[c].port}
        /\ Return(c)
  /\ UNCHANGED <<tenants, libvirtd, forwards, late, spawned, crashes>>

CreateInstall(c) ==
  /\ pc[c] = "install"
  /\ \E r \in Results :
       /\ RunCommand("install", call[c].name, r)
       /\ Goto(c, IF r = "ok" THEN "commit" ELSE "undo")
  /\ UNCHANGED <<call, memory, files, forwards, spawned, crashes>>

\* The rollback's undefine is best effort, then everything else is given up.
CreateUndo(c) ==
  /\ pc[c] = "undo"
  /\ \E r \in Results : RunCommand("undefine", call[c].name, r)
  /\ Goto(c, "discard")
  /\ UNCHANGED <<call, memory, files, forwards, spawned, crashes>>

CreateCommit(c) ==
  /\ pc[c] = "commit"
  /\ tenants' = [tenants EXCEPT ![call[c].name] = [NoTenant EXCEPT !.port = call[c].port]]
  /\ Return(c)
  /\ UNCHANGED <<ports, libvirtd, files, forwards, late, spawned, crashes>>

\* The end of a failed create and of a remove: delete the files, free the port.
Discard(c) ==
  /\ pc[c] = "discard"
  /\ overlays' = overlays \ {call[c].name}
  /\ seeds' = seeds \ {call[c].name}
  /\ ports' = ports \ {call[c].port}
  /\ Return(c)
  /\ UNCHANGED <<tenants, libvirtd, forwards, late, spawned, crashes>>

-------------------------------------------------------------------------------
(* start_container *)

StartDomain(c) ==
  /\ pc[c] = "start"
  /\ \E r \in Results :
       /\ RunCommand("start", call[c].name, r)
       /\ IF r = "ok" \/ (r = "noop" /\ call[c].name \in active)
            THEN Goto(c, "lease") /\ UNCHANGED call
            ELSE Return(c)
  /\ UNCHANGED <<memory, files, forwards, spawned, crashes>>

\* wait_for_dhcp_lease takes the first row whose text contains the name, and
\* gives up at its deadline.
StartLease(c) ==
  /\ pc[c] = "lease"
  /\ \/ \E m \in leases :
          /\ <<m, call[c].name>> \in Mentions
          /\ call' = [call EXCEPT ![c].ip = m]
          /\ Goto(c, "port")
     \/ Return(c)
  /\ UNCHANGED <<memory, libvirtd, files, forwards, late, spawned, crashes>>

StartPort(c) ==
  /\ pc[c] = "port"
  /\ IF Tracked(call[c].name)
       THEN /\ call' = [call EXCEPT ![c].port = tenants[call[c].name].port]
            /\ Goto(c, "forward")
       ELSE Return(c)
  /\ UNCHANGED <<memory, libvirtd, files, forwards, late, spawned, crashes>>

Bound(p) == \E f \in forwards : f.port = p

\* start_socat_forward: the spawn succeeds whether or not socat can then bind
\* the port; a socat that cannot exits at once.
StartForward(c) ==
  /\ pc[c] = "forward"
  /\ \/ /\ spawned' = spawned + 1
        /\ call' = [call EXCEPT ![c].pid = spawned']
        /\ forwards' = forwards \cup
             (IF Bound(call[c].port) THEN {}
              ELSE {[pid |-> spawned', port |-> call[c].port, ip |-> call[c].ip]})
        /\ Goto(c, "record")
     \/ "fail" \in Faults /\ Return(c) /\ UNCHANGED <<spawned, forwards>>
  /\ UNCHANGED <<memory, libvirtd, files, late, crashes>>

KillPid(pid) ==
  \/ forwards' = {f \in forwards : f.pid # pid}
  \/ "kill" \in Faults /\ UNCHANGED forwards

\* Fault for testing: a VNC port that cannot be read fails the start before
\* the process id is recorded.
StartRecord_VncError(c) ==
  /\ pc[c] = "record"
  /\ Return(c)
  /\ UNCHANGED <<memory, libvirtd, files, forwards, late, spawned, crashes>>

\* Commit under the tenants lock; race_detected is the second branch.
StartRecord(c) ==
  /\ pc[c] = "record"
  /\ IF Tracked(call[c].name)
       THEN /\ tenants' = [tenants EXCEPT ![call[c].name].pid = call[c].pid,
                                          ![call[c].name].ip  = call[c].ip]
            /\ UNCHANGED <<forwards, ports>>
       ELSE /\ KillPid(call[c].pid)
            /\ ports' = ports \ {call[c].port}
            /\ UNCHANGED tenants
  /\ Return(c)
  /\ UNCHANGED <<libvirtd, files, late, spawned, crashes>>

-------------------------------------------------------------------------------
(* stop_container, and the stop_locked that remove_container shares with it *)

AfterStop(c) ==
  IF call[c].op = "remove" THEN Goto(c, "undefine") /\ UNCHANGED call ELSE Return(c)

StopKill(c) ==
  /\ pc[c] = "kill"
  /\ IF tenants[call[c].name].pid = None
       THEN UNCHANGED forwards
       ELSE KillPid(tenants[call[c].name].pid)
  /\ Goto(c, "destroy")
  /\ UNCHANGED <<call, memory, libvirtd, files, late, spawned, crashes>>

\* Fault for testing: a destroy that does not succeed is tried again for ever.
StopDestroy_Retries(c) ==
  /\ pc[c] = "destroy"
  /\ \E r \in Results :
       /\ RunCommand("destroy", call[c].name, r)
       /\ Goto(c, IF r \in {"ok", "noop"} THEN "clear" ELSE "destroy")
  /\ UNCHANGED <<call, memory, files, forwards, spawned, crashes>>

StopDestroy(c) ==
  /\ pc[c] = "destroy"
  /\ \E r \in Results :
       /\ RunCommand("destroy", call[c].name, r)
       /\ IF r \in {"ok", "noop"} THEN Goto(c, "clear") /\ UNCHANGED call ELSE AfterStop(c)
  /\ UNCHANGED <<memory, files, forwards, spawned, crashes>>

StopClear(c) ==
  /\ pc[c] = "clear"
  /\ tenants' = IF Tracked(call[c].name)
                  THEN [tenants EXCEPT ![call[c].name].pid = None,
                                       ![call[c].name].ip  = None]
                  ELSE tenants
  /\ AfterStop(c)
  /\ UNCHANGED <<ports, libvirtd, files, forwards, late, spawned, crashes>>

-------------------------------------------------------------------------------
(* remove_container, after its stop_locked, whose result it ignores *)

RemoveUndefine(c) ==
  /\ pc[c] = "undefine"
  /\ \E r \in Results :
       /\ RunCommand("undefine", call[c].name, r)
       /\ IF r \in {"ok", "noop"} THEN Goto(c, "forget") /\ UNCHANGED call ELSE Return(c)
  /\ UNCHANGED <<memory, files, forwards, spawned, crashes>>

\* Fault for testing: the entry is blanked in part instead of removed.
RemoveForget_KeepsPid(c) ==
  /\ pc[c] = "forget"
  /\ tenants' = [tenants EXCEPT ![call[c].name].port = None]
  /\ call' = [call EXCEPT ![c].port = tenants[call[c].name].port]
  /\ Goto(c, "discard")
  /\ UNCHANGED <<ports, libvirtd, files, forwards, late, spawned, crashes>>

\* Fault for testing: the entry is looked up instead of taken out.
RemoveForget_Reads(c) ==
  /\ pc[c] = "forget"
  /\ IF Tracked(call[c].name)
       THEN /\ call' = [call EXCEPT ![c].port = tenants[call[c].name].port]
            /\ Goto(c, "discard")
       ELSE Return(c)
  /\ UNCHANGED <<memory, libvirtd, files, forwards, late, spawned, crashes>>

RemoveForget(c) ==
  /\ pc[c] = "forget"
  /\ tenants' = [tenants EXCEPT ![call[c].name] = NoTenant]
  /\ IF Tracked(call[c].name)
       THEN /\ call' = [call EXCEPT ![c].port = tenants[call[c].name].port]
            /\ Goto(c, "discard")
       ELSE Return(c)
  /\ UNCHANGED <<ports, libvirtd, files, forwards, late, spawned, crashes>>

-------------------------------------------------------------------------------
(* The backend dies and from_env builds an empty runtime: memory is lost,  *)
(* domains and files stay, the command in flight may go on, and the socat  *)
(* children live on unless the service manager kills the whole group.      *)

InFlight ==
  {[cmd |-> (CASE pc[c] = "install" -> "install"
               [] pc[c] = "start"   -> "start"
               [] pc[c] = "destroy" -> "destroy"
               [] OTHER             -> "undefine"),
    name |-> call[c].name] :
   c \in {d \in Callers : pc[d] \in {"install", "start", "destroy", "undefine", "undo"}}}

Crash ==
  /\ crashes < MaxCrashes
  /\ crashes' = crashes + 1
  /\ lock' = None
  /\ pc' = [c \in Callers |-> "idle"]
  /\ call' = [c \in Callers |-> NoCall]
  /\ tenants' = [n \in Names |-> NoTenant]
  /\ ports' = {}
  /\ late' \in {late} \cup (IF Cardinality(late) < MaxLate THEN {late \cup InFlight} ELSE {})
  /\ forwards' \in {forwards, {}}
  /\ UNCHANGED <<libvirtd, files, spawned>>

Step(c) ==
  \/ CreateCheck(c)   \/ CreateAllocate(c) \/ CreateOverlay(c)
  \/ CreateSeed(c)    \/ CreateSerialLog(c) \/ CreateInstall(c)
  \/ CreateUndo(c)    \/ CreateCommit(c)   \/ Discard(c)
  \/ StartDomain(c)   \/ StartLease(c)     \/ StartPort(c)
  \/ StartForward(c)  \/ StartRecord(c)
  \/ StopKill(c)      \/ StopDestroy(c)    \/ StopClear(c)
  \/ RemoveUndefine(c) \/ RemoveForget(c)

Next ==
  \/ \E c \in Callers : \/ \E op \in Ops, n \in Names : Begin(c, op, n)
                        \/ Acquire(c)
                        \/ Step(c)
  \/ LateCommand
  \/ Crash

Spec == Init /\ [][Next]_vars

\* Every await ends (it is a timed command, a spawn or a file operation) and
\* the tokio mutex hands the lock over in the order it was asked for.
Fairness == \A c \in Callers : WF_vars(Step(c)) /\ SF_vars(Acquire(c))
FairSpec == Spec /\ Fairness

-------------------------------------------------------------------------------
(* Properties *)

\* The port that name n holds: its entry's, or the one the operation under way
\* on n holds for it (a create before its commit, a remove before its release).
LeaseOf(n) ==
  IF Tracked(n) THEN tenants[n].port
  ELSE IF lock # None /\ call[lock].name = n THEN call[lock].port ELSE None

Lease == INSTANCE PortLease WITH lease <- [n \in Names |-> LeaseOf(n)]

\* Every step of the runtime, on every error path and across a restart, grants,
\* returns or keeps leases: no port is double-used or changes hands directly.
LeaseSpec == Lease!Spec

\* allocated_ports holds exactly the leased ports, so the pool neither drifts
\* towards exhaustion nor hands out a port that a tenant still has, whichever
\* step of create or remove fails.
PortsAccounted ==
  /\ ports = {LeaseOf(n) : n \in Names} \ {None}
  /\ \A m, n \in Names : m # n /\ LeaseOf(m) = LeaseOf(n) => LeaseOf(m) = None

\* A tenant in the map has the disk and the seed its domain boots from: no
\* rollback of another create, no remove and no restart deletes them under it.
TrackedHasDisk == \A n \in Names : Tracked(n) => n \in overlays \cap seeds

\* start_container never meets its race_detected branch, which would give back
\* a port that its new owner is using: the lifecycle lock keeps the entry.
NoRemovalMidStart ==
  \A c \in Callers :
    pc[c] \in {"forward", "record"} =>
      Tracked(call[c].name) /\ tenants[call[c].name].port = call[c].port

\* A port in the free pool has no listener left on it, so the next tenant that
\* gets it is not reached through an earlier tenant's forward.
ForwardsOwned == \A f \in forwards : f.port \in ports

\* When start_container publishes a process id, that process is the listener
\* on the tenant's own port.
StartPublishesLiveForward ==
  [][\A n \in Names :
       tenants'[n].pid \notin {None, tenants[n].pid} =>
         \E f \in forwards' : f.pid = tenants'[n].pid /\ f.port = tenants'[n].port]_vars

\* The public port of a tenant leads to it: what listens there, whoever started
\* it and whatever the entry says, forwards to the tenant's own address.
ForwardReachesOwnTenant ==
  \A n \in Names, f \in forwards : Tracked(n) /\ f.port = tenants[n].port => f.ip = n

\* Every call returns: no step waits for a lock its own caller holds, and no
\* timeout or failure path leaves the lock taken.
EveryCallReturns == \A c \in Callers : (pc[c] # "idle") ~> (pc[c] = "idle")
===============================================================================
