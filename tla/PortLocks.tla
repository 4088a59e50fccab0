------------------------------ MODULE PortLocks ------------------------------
(***************************************************************************)
(* How workers agree on ports: PortLock (runtime/utils/port_lock.py) and   *)
(* its use by DockerRuntime.  A lock is an flock on the file whose name is *)
(* the port's; the file is removed by name when the lock is released, so   *)
(* that the name may stand for another file than the one that is locked.   *)
(***************************************************************************)
EXTENDS Naturals, Sequences

CONSTANTS
    Workers,      \* Docker runtimes, of one process or of several
    Ports,        \* the range ports are allocated from
    LastPort,     \* port_range[1]
    MaxAttempts,  \* max_attempts
    MaxFiles,     \* bound: lock files ever created
    MaxKills      \* bound: processes killed

ASSUME PortAssumption ==
    /\ {"nobody", "container"} \cap Workers = {}
    /\ {MaxAttempts, MaxFiles, MaxKills} \subseteq Nat

VARIABLES
    entry,   \* the directory: the file that bears the port's name, or 0
    owner,   \* for each file ever created, who has it flocked
    worker,  \* [pc, port, file: the file opened (0: none), left: attempts of the
             \*  search, budget: attempts of the search after it, closing]
    bound,   \* who listens on the port
    torn,    \* ports whose name was removed from a file that others had open
    kills

portVars == <<entry, owner, worker, bound, torn, kills>>

IdleWorker == [pc |-> "idle", port |-> "none", file |-> 0, left |-> 0, budget |-> 0,
               closing |-> FALSE]

-----------------------------------------------------------------------------
(* PortLock.acquire and find_available_port_with_lock                      *)

(* init_container *)
BeginFind(w) ==
    /\ worker[w] = IdleWorker
    /\ worker' = [worker EXCEPT ![w].pc = "find", ![w].left = MaxAttempts,
                                ![w].budget = MaxAttempts]
    /\ UNCHANGED <<entry, owner, bound, torn, kills>>

(* The next port is random, or the successor of the one before; its lock   *)
(* file is opened, and created if there is none.                           *)
OpenLockFile(w, p) ==
    /\ worker[w].pc = "find" /\ worker[w].left > 0
    /\ \/ entry[p] # 0 /\ UNCHANGED <<entry, owner>>
       \/ /\ entry[p] = 0 /\ Len(owner) < MaxFiles
          /\ owner' = Append(owner, "nobody")
          /\ entry' = [entry EXCEPT ![p] = Len(owner) + 1]
    /\ worker' = [worker EXCEPT ![w].pc = "lock", ![w].port = p, ![w].file = entry'[p]]
    /\ UNCHANGED <<bound, torn, kills>>

(* flock with LOCK_NB, in a loop. *)
Flock(w) ==
    /\ worker[w].pc = "lock" /\ owner[worker[w].file] = "nobody"
    /\ owner' = [owner EXCEPT ![worker[w].file] = w]
    /\ worker' = [worker EXCEPT ![w].pc = "check"]
    /\ UNCHANGED <<entry, bound, torn, kills>>

(* Faulty variant: acquire returns True when the time is up. *)
LockTimesOutLocked(w) ==
    /\ worker[w].pc = "lock"
    /\ worker' = [worker EXCEPT ![w].pc = "check"]
    /\ UNCHANGED <<entry, owner, bound, torn, kills>>

LockTimesOut(w) ==
    /\ worker[w].pc = "lock"
    /\ worker' = [worker EXCEPT ![w].pc = "find", ![w].file = 0, ![w].left = @ - 1]
    /\ UNCHANGED <<entry, owner, bound, torn, kills>>

(* _check_port_available binds the port and closes the socket again; it    *)
(* fails also when another program has the port.                           *)
CheckPort(w) ==
    /\ worker[w].pc = "check"
    /\ \/ /\ bound[worker[w].port] = "nobody"
          /\ worker' = [worker EXCEPT ![w].pc = "docker"]
       \/ worker' = [worker EXCEPT ![w].pc = "unlock", ![w].left = @ - 1]
    /\ UNCHANGED <<entry, owner, bound, torn, kills>>

(* _is_port_in_use_docker looks for the digits in the list of containers,  *)
(* so it may also say so of a port that is free; then the search starts    *)
(* over with one attempt less.                                             *)
CheckDocker(w) ==
    /\ worker[w].pc = "docker"
    /\ \/ /\ bound[worker[w].port] = "nobody"
          /\ worker' = [worker EXCEPT ![w].pc = "allocated"]
       \/ worker' = [worker EXCEPT ![w].pc = "unlock", ![w].left = worker[w].budget - 1,
                                   ![w].budget = @ - 1]
    /\ UNCHANGED <<entry, owner, bound, torn, kills>>

(* No lock in any attempt: a port that is free is taken without one, or,   *)
(* when no attempt is left at all, the last one of the range unseen.       *)
FallBack(w, p) ==
    /\ worker[w].pc = "find" /\ worker[w].left = 0
    /\ IF worker[w].budget = 0 THEN p = LastPort ELSE bound[p] = "nobody"
    /\ worker' = [worker EXCEPT ![w].pc = "allocated", ![w].port = p]
    /\ UNCHANGED <<entry, owner, bound, torn, kills>>

(* find_available_tcp_port finds none and returns -1; Docker raises.       *)
NoneAvailable(w) ==
    /\ worker[w].pc = "find" /\ worker[w].left = 0 /\ worker[w].budget > 0
    /\ worker' = [worker EXCEPT ![w] = IdleWorker]
    /\ UNCHANGED <<entry, owner, bound, torn, kills>>

-----------------------------------------------------------------------------
(* PortLock.release: the lock goes first, then the name.                   *)
HasOpen(w, f) == worker[w].file = f

Unlock(w) ==
    /\ worker[w].pc = "unlock"
    /\ owner' = [owner EXCEPT ![worker[w].file] = "nobody"]
    /\ worker' = [worker EXCEPT ![w].pc = "unlink", ![w].file = 0]
    /\ UNCHANGED <<entry, bound, torn, kills>>

(* The name is removed whatever file bears it by now. *)
Unlink(w) ==
    /\ worker[w].pc = "unlink"
    /\ LET p == worker[w].port
       IN  /\ entry' = [entry EXCEPT ![p] = 0]
           /\ torn' = IF entry[p] # 0 /\ \E v \in Workers : HasOpen(v, entry[p])
                      THEN torn \cup {p} ELSE torn
    /\ worker' = [worker EXCEPT ![w] =
          IF @.closing THEN IdleWorker ELSE [@ EXCEPT !.pc = "find", !.port = "none"]]
    /\ UNCHANGED <<owner, bound, kills>>

-----------------------------------------------------------------------------
(* DockerRuntime                                                           *)

(* _release_port_locks *)
Release(w) ==
    worker' = [worker EXCEPT ![w] =
        IF @.file = 0 THEN IdleWorker ELSE [@ EXCEPT !.pc = "unlock", !.closing = TRUE]]

(* The container is run; Docker raises when the port is taken, or for      *)
(* another reason, and the runtime is closed (the locks stay when          *)
(* keep_runtime_alive is set: close returns before it releases them).      *)
RunContainer(w) ==
    /\ worker[w].pc = "allocated"
    /\ LET p == worker[w].port
       IN \/ /\ bound[p] = "nobody"
             /\ bound' = [bound EXCEPT ![p] = w]
             /\ worker' = [worker EXCEPT ![w].pc = "running"]
          \/ Release(w) /\ UNCHANGED bound
          \/ worker' = [worker EXCEPT ![w].pc = "kept"] /\ UNCHANGED bound
    /\ UNCHANGED <<entry, owner, torn, kills>>

(* close stops the runtime's container, or with rm_all_containers those of *)
(* all runtimes, and releases the lock.                                    *)
CloseRuntime(w) ==
    /\ worker[w].pc = "running"
    /\ \E stopped \in {{w}, Workers \cup {"container"}} :
          bound' = [p \in Ports |-> IF bound[p] \in stopped THEN "nobody" ELSE bound[p]]
    /\ Release(w)
    /\ UNCHANGED <<entry, owner, torn, kills>>

(* keep_runtime_alive: container and locks stay. *)
CloseKeeping(w) ==
    /\ worker[w].pc = "running"
    /\ worker' = [worker EXCEPT ![w].pc = "kept"]
    /\ UNCHANGED <<entry, owner, bound, torn, kills>>

(* The process is killed: its flocks are gone, its container goes on.      *)
Killed(w) ==
    /\ worker[w] # IdleWorker /\ kills < MaxKills
    /\ kills' = kills + 1
    /\ owner' = [f \in DOMAIN owner |-> IF owner[f] = w THEN "nobody" ELSE owner[f]]
    /\ bound' = [p \in Ports |-> IF bound[p] = w THEN "container" ELSE bound[p]]
    /\ worker' = [worker EXCEPT ![w] = IdleWorker]
    /\ UNCHANGED <<entry, torn>>

-----------------------------------------------------------------------------
PortInit ==
    /\ entry = [p \in Ports |-> 0]
    /\ owner = << >>
    /\ worker = [w \in Workers |-> IdleWorker]
    /\ bound = [p \in Ports |-> "nobody"]
    /\ torn = {}
    /\ kills = 0

PortNext ==
    \E w \in Workers :
       \/ BeginFind(w) \/ Flock(w) \/ LockTimesOut(w) \/ NoneAvailable(w) \/ CheckPort(w) \/ CheckDocker(w)
       \/ Unlock(w) \/ Unlink(w) \/ RunContainer(w) \/ CloseRuntime(w) \/ CloseKeeping(w)
       \/ Killed(w)
       \/ \E p \in Ports : OpenLockFile(w, p) \/ FallBack(w, p)

PortSpec == PortInit /\ [][PortNext]_portVars

WorkerType ==
    [pc : {"idle", "find", "lock", "check", "docker", "allocated", "unlock", "unlink", "running",
           "kept"},
     port : Ports \cup {"none"}, file : 0 .. Len(owner), left : 0 .. MaxAttempts,
     budget : 0 .. MaxAttempts, closing : BOOLEAN]

(* Files, owners and ports are what they should be.                        *)
PortTypeOK ==
    /\ entry \in [Ports -> 0 .. Len(owner)]
    /\ owner \in Seq(Workers \cup {"nobody"}) /\ Len(owner) <= MaxFiles
    /\ worker \in [Workers -> WorkerType]
    /\ bound \in [Ports -> Workers \cup {"nobody", "container"}]
    /\ torn \subseteq Ports
    /\ kills \in 0 .. MaxKills

LockHolders(p) ==
    {w \in Workers : worker[w].port = p /\ worker[w].file # 0
                     /\ worker[w].pc \in {"check", "docker", "allocated", "running", "kept"}}

(* A port is locked by one runtime at a time, through time-outs, kills and *)
(* releases, as long as no release removed the name of a file that another *)
(* runtime had opened (acquire opens the file first and locks it later).   *)
LockIsExclusive ==
    \A p \in Ports \ torn : \A v, w \in LockHolders(p) : v = w

(* "prevent multiple workers from allocating the same port simultaneously" *)
(* (DockerRuntime._find_available_port_with_lock): of the runtimes that    *)
(* were given a port and its lock, no two have the same port.              *)
NoPortAllocatedTwice ==
    \A p \in Ports : \A v, w \in LockHolders(p) :
        worker[v].pc = "allocated" /\ worker[w].pc = "allocated" => v = w
=============================================================================
