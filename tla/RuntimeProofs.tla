--------------------------- MODULE RuntimeProofs ----------------------------
(***************************************************************************)
(* Proofs about what surrounds an agent at work, for any number of         *)
(* workers, ports, lock files, paths, writers, calls, events and sizes:    *)
(* LockIsExclusive (port locks), UpdatesArrive (the batched web hook),     *)
(* CondensationSettles and NothingNeededForgotten (the condensers and the  *)
(* view) and ReportsAreOwn (the bash session), with the types.             *)
(*                                                                         *)
(* A worker that holds a lock has the flock of the file it opened; that    *)
(* two workers which lock the same port have opened the same file is so    *)
(* only as long as the file that was opened keeps its name.  For the web   *)
(* hook the invariant follows the last update of a path: it is with a      *)
(* writer, in the batch, in the one batch that is under way, or applied.   *)
(*                                                                         *)
(* For the condensers it bounds what a planned condensation will leave, by *)
(* the cardinality of what is kept.  For the bash session it joins what    *)
(* was reported to what the pane still holds: together they are all the    *)
(* output there was, as long as the pane is whole, no poll came before the *)
(* shell had read what was typed, and the shell read no input.             *)
(***************************************************************************)
EXTENDS PortLocks, WebHooks, Condensing, BashSession, FiniteSetTheorems,
        SequenceTheorems, TLAPS

-----------------------------------------------------------------------------
(* Port locks: one runtime for each port.                                  *)

(* A worker that has its flock, or is about to give it back. *)
Holding == {"check", "docker", "allocated", "running", "kept", "unlock"}

(* What a worker's own fields say of each other. *)
WorkerFits(x) ==
    /\ x.left <= x.budget
    /\ x.pc \in {"lock", "check", "docker"} => x.left > 0
    /\ x.pc \in {"idle", "find", "unlink"} => x.file = 0
    /\ x.pc \in {"lock", "check", "docker", "unlock"} => x.file # 0
    /\ x.pc \notin {"idle", "find"} => x.port \in Ports

WorkersFit == \A w \in Workers : WorkerFits(worker[w])

(* The flock is the holder's. *)
HoldersOwn ==
    \A w \in Workers : worker[w].pc \in Holding /\ worker[w].file # 0 => owner[worker[w].file] = w

(* As long as no name was torn off, an open file still has its name. *)
OpenIsNamed ==
    \A p \in Ports \ torn : \A w \in Workers :
        worker[w].port = p /\ worker[w].file # 0 => worker[w].file = entry[p]

PortInv == PortTypeOK /\ WorkersFit /\ HoldersOwn /\ OpenIsNamed

(* A step of one worker that locks no file, opens none and tears none. *)
LEMMA WorkerMoves ==
    ASSUME PortInv, NEW w \in Workers, NEW x \in WorkerType, WorkerFits(x),
           worker' = [worker EXCEPT ![w] = x], UNCHANGED <<entry, owner, torn, kills>>,
           bound' \in [Ports -> Workers \cup {"nobody", "container"}],
           \/ x.file = 0
           \/ /\ x.file = worker[w].file /\ x.port = worker[w].port
              /\ x.pc \in Holding => worker[w].pc \in Holding
    PROVE  PortInv'
  <1>1. \A v \in Workers : worker'[v] = IF v = w THEN x ELSE worker[v]
    BY DEF PortInv, PortTypeOK
  <1>2. PortTypeOK'
    BY DEF PortInv, PortTypeOK, WorkerType
  <1>3. WorkersFit'
    BY <1>1 DEF PortInv, WorkersFit, WorkerFits
  <1>4. HoldersOwn'
    BY <1>1 DEF PortInv, HoldersOwn
  <1>5. OpenIsNamed'
    BY <1>1 DEF PortInv, OpenIsNamed
  <1> QED
    BY <1>2, <1>3, <1>4, <1>5 DEF PortInv

LEMMA PortInvStep ==
    ASSUME PortInv, [PortNext]_portVars
    PROVE  PortInv'
  <1>a. /\ entry \in [Ports -> 0 .. Len(owner)]
        /\ owner \in Seq(Workers \cup {"nobody"}) /\ Len(owner) <= MaxFiles
        /\ worker \in [Workers -> WorkerType]
        /\ bound \in [Ports -> Workers \cup {"nobody", "container"}]
        /\ torn \subseteq Ports
        /\ kills \in 0 .. MaxKills
    BY DEF PortInv, PortTypeOK
  <1>b. /\ Len(owner) \in Nat /\ DOMAIN owner = 1 .. Len(owner)
        /\ owner \in [1 .. Len(owner) -> Workers \cup {"nobody"}]
        /\ MaxAttempts \in Nat /\ MaxFiles \in Nat /\ MaxKills \in Nat
    BY <1>a, LenProperties, PortAssumption
  <1>c. "nobody" \notin Workers
    BY PortAssumption
  <1>d. \A w \in Workers : WorkerFits(worker[w])
    BY DEF PortInv, WorkersFit
  <1>e. IdleWorker \in WorkerType /\ WorkerFits(IdleWorker) /\ IdleWorker.file = 0
    BY <1>b DEF IdleWorker, WorkerType, WorkerFits
  <1>1. ASSUME NEW w \in Workers, BeginFind(w) PROVE PortInv'
    <2>1. PICK x \in WorkerType : WorkerFits(x) /\ x.file = 0 /\ worker' = [worker EXCEPT ![w] = x]
      <3> DEFINE x == [worker[w] EXCEPT !.pc = "find", !.left = MaxAttempts, !.budget = MaxAttempts]
      <3>a. worker[w].file = 0
        BY <1>1 DEF BeginFind, IdleWorker
      <3>b. worker[w] \in WorkerType /\ MaxAttempts \in 0 .. MaxAttempts
        BY <1>a, <1>b
      <3>c. x \in WorkerType /\ x.file = 0
        BY <3>a, <3>b DEF WorkerType
      <3>1. x \in WorkerType /\ WorkerFits(x) /\ x.file = 0
        BY <1>b, <3>c DEF WorkerFits
      <3>2. worker' = [worker EXCEPT ![w] = x]
        BY <1>1, <1>a DEF BeginFind
      <3> HIDE DEF x
      <3> QED
        BY <3>1, <3>2
    <2> QED
      BY <1>1, <1>a, <2>1, WorkerMoves DEF BeginFind
  <1>2. ASSUME NEW w \in Workers, LockTimesOut(w) PROVE PortInv'
    <2>1. PICK x \in WorkerType : WorkerFits(x) /\ x.file = 0 /\ worker' = [worker EXCEPT ![w] = x]
      <3> DEFINE x == [worker[w] EXCEPT !.pc = "find", !.file = 0, !.left = @ - 1]
      <3>1. x \in WorkerType /\ WorkerFits(x) /\ x.file = 0
        BY <1>2, <1>a, <1>b, <1>d DEF LockTimesOut, WorkerType, WorkerFits
      <3>2. worker' = [worker EXCEPT ![w] = x]
        BY <1>2, <1>a DEF LockTimesOut
      <3> HIDE DEF x
      <3> QED
        BY <3>1, <3>2
    <2> QED
      BY <1>2, <1>a, <2>1, WorkerMoves DEF LockTimesOut
  <1>3. ASSUME NEW w \in Workers, NoneAvailable(w) PROVE PortInv'
    BY <1>3, <1>a, <1>e, WorkerMoves DEF NoneAvailable
  <1>4. ASSUME NEW w \in Workers, CheckPort(w) PROVE PortInv'
    <2>1. PICK x \in WorkerType :
             /\ WorkerFits(x) /\ worker' = [worker EXCEPT ![w] = x]
             /\ x.file = worker[w].file /\ x.port = worker[w].port
      <3> DEFINE x == [worker[w] EXCEPT !.pc = "docker"]
                 y == [worker[w] EXCEPT !.pc = "unlock", !.left = @ - 1]
      <3>1. x \in WorkerType /\ WorkerFits(x) /\ x.file = worker[w].file /\ x.port = worker[w].port
        <4>1. x \in WorkerType /\ x.file = worker[w].file /\ x.port = worker[w].port
          BY <1>4, <1>a, <1>b, <1>d, ZenonT(60) DEF CheckPort, WorkerType, WorkerFits
        <4>2. WorkerFits(x)
          BY <1>4, <1>a, <1>b, <1>d, ZenonT(60) DEF CheckPort, WorkerType, WorkerFits
        <4> QED
          BY <4>1, <4>2
      <3>2. y \in WorkerType /\ WorkerFits(y) /\ y.file = worker[w].file /\ y.port = worker[w].port
        <4>a. worker[w] \in WorkerType /\ worker[w].left - 1 \in 0 .. MaxAttempts
          BY <1>4, <1>a, <1>b, <1>d DEF CheckPort, WorkerType, WorkerFits
        <4>1. y \in WorkerType /\ y.file = worker[w].file /\ y.port = worker[w].port
          BY <4>a DEF WorkerType
        <4>2. WorkerFits(y)
          BY <1>4, <1>a, <1>b, <1>d DEF CheckPort, WorkerType, WorkerFits
        <4> QED
          BY <4>1, <4>2
      <3>3. worker' = [worker EXCEPT ![w] = x] \/ worker' = [worker EXCEPT ![w] = y]
        BY <1>4, <1>a DEF CheckPort
      <3> HIDE DEF x, y
      <3> QED
        BY <3>1, <3>2, <3>3
    <2> QED
      BY <1>4, <1>a, <2>1, WorkerMoves DEF CheckPort, Holding
  <1>5. ASSUME NEW w \in Workers, CheckDocker(w) PROVE PortInv'
    <2>1. PICK x \in WorkerType :
             /\ WorkerFits(x) /\ worker' = [worker EXCEPT ![w] = x]
             /\ x.file = worker[w].file /\ x.port = worker[w].port
      <3> DEFINE x == [worker[w] EXCEPT !.pc = "allocated"]
                 y == [worker[w] EXCEPT !.pc = "unlock", !.left = worker[w].budget - 1, !.budget = @ - 1]
      <3>1. x \in WorkerType /\ WorkerFits(x) /\ x.file = worker[w].file /\ x.port = worker[w].port
        <4>1. x \in WorkerType /\ x.file = worker[w].file /\ x.port = worker[w].port
          BY <1>5, <1>a, <1>b, <1>d, ZenonT(60) DEF CheckDocker, WorkerType, WorkerFits
        <4>2. WorkerFits(x)
          BY <1>5, <1>a, <1>b, <1>d, ZenonT(60) DEF CheckDocker, WorkerType, WorkerFits
        <4> QED
          BY <4>1, <4>2
      <3>2. y \in WorkerType /\ WorkerFits(y) /\ y.file = worker[w].file /\ y.port = worker[w].port
        <4>a. worker[w] \in WorkerType /\ worker[w].budget - 1 \in 0 .. MaxAttempts
          BY <1>5, <1>a, <1>b, <1>d DEF CheckDocker, WorkerType, WorkerFits
        <4>1. y \in WorkerType /\ y.file = worker[w].file /\ y.port = worker[w].port
          BY <4>a DEF WorkerType
        <4>2. WorkerFits(y)
          BY <1>5, <1>a, <1>b, <1>d DEF CheckDocker, WorkerType, WorkerFits
        <4> QED
          BY <4>1, <4>2
      <3>3. worker' = [worker EXCEPT ![w] = x] \/ worker' = [worker EXCEPT ![w] = y]
        BY <1>5, <1>a DEF CheckDocker
      <3> HIDE DEF x, y
      <3> QED
        BY <3>1, <3>2, <3>3
    <2> QED
      BY <1>5, <1>a, <2>1, WorkerMoves DEF CheckDocker, Holding
  <1>6. ASSUME NEW w \in Workers, NEW p \in Ports, FallBack(w, p) PROVE PortInv'
    <2>1. PICK x \in WorkerType : WorkerFits(x) /\ x.file = 0 /\ worker' = [worker EXCEPT ![w] = x]
      <3> DEFINE x == [worker[w] EXCEPT !.pc = "allocated", !.port = p]
      <3>1. x \in WorkerType /\ WorkerFits(x) /\ x.file = 0
        BY <1>6, <1>a, <1>b, <1>d, ZenonT(60) DEF FallBack, WorkerType, WorkerFits
      <3>2. worker' = [worker EXCEPT ![w] = x]
        BY <1>6, <1>a DEF FallBack
      <3> HIDE DEF x
      <3> QED
        BY <3>1, <3>2
    <2> QED
      BY <1>6, <1>a, <2>1, WorkerMoves DEF FallBack
  (* a worker that was given a port goes on, keeps its lock or starts to release it *)
  <1>7. ASSUME NEW w \in Workers, worker[w].pc \in {"allocated", "running"},
               \/ Release(w)
               \/ \E s \in {"running", "kept"} : worker' = [worker EXCEPT ![w].pc = s],
               UNCHANGED <<entry, owner, torn, kills>>,
               bound' \in [Ports -> Workers \cup {"nobody", "container"}]
        PROVE  PortInv'
    <2>1. PICK x \in WorkerType :
             /\ WorkerFits(x) /\ worker' = [worker EXCEPT ![w] = x]
             /\ x.file = 0 \/ (x.file = worker[w].file /\ x.port = worker[w].port)
      <3>1. ASSUME NEW s \in {"running", "kept"}, worker' = [worker EXCEPT ![w].pc = s]
            PROVE  \E x \in WorkerType :
                      /\ WorkerFits(x) /\ worker' = [worker EXCEPT ![w] = x]
                      /\ x.file = 0 \/ (x.file = worker[w].file /\ x.port = worker[w].port)
        <4> DEFINE x == [worker[w] EXCEPT !.pc = s]
        <4>1. x \in WorkerType /\ WorkerFits(x) /\ x.file = worker[w].file /\ x.port = worker[w].port
          BY <1>7, <1>a, <1>d, ZenonT(60) DEF WorkerType, WorkerFits
        <4>2. worker' = [worker EXCEPT ![w] = x]
          BY <3>1, <1>a
        <4> HIDE DEF x
        <4> QED
          BY <4>1, <4>2
      <3>2. ASSUME Release(w)
            PROVE  \E x \in WorkerType :
                      /\ WorkerFits(x) /\ worker' = [worker EXCEPT ![w] = x]
                      /\ x.file = 0 \/ (x.file = worker[w].file /\ x.port = worker[w].port)
        <4> DEFINE x == [worker[w] EXCEPT !.pc = "unlock", !.closing = TRUE]
        <4>1. worker[w].file # 0 =>
                x \in WorkerType /\ WorkerFits(x) /\ x.file = worker[w].file /\ x.port = worker[w].port
          BY <1>7, <1>a, <1>d, ZenonT(60) DEF WorkerType, WorkerFits
        <4>2. worker' = [worker EXCEPT ![w] = IF worker[w].file = 0 THEN IdleWorker ELSE x]
          BY <3>2, <1>a DEF Release
        <4> HIDE DEF x
        <4>3. CASE worker[w].file = 0
          <5>1. worker' = [worker EXCEPT ![w] = IdleWorker]
            BY <4>2, <4>3
          <5> QED
            BY <5>1, <1>e
        <4>4. CASE worker[w].file # 0
          BY <4>1, <4>2, <4>4
        <4> QED
          BY <4>3, <4>4
      <3> QED
        BY <1>7, <3>1, <3>2
    <2> QED
      BY <1>7, <1>a, <2>1, WorkerMoves DEF Holding
  <1>8. ASSUME NEW w \in Workers, RunContainer(w) PROVE PortInv'
    <2>1. bound' \in [Ports -> Workers \cup {"nobody", "container"}]
      BY <1>8, <1>a DEF RunContainer
    <2>2. Release(w) \/ \E s \in {"running", "kept"} : worker' = [worker EXCEPT ![w].pc = s]
      BY <1>8 DEF RunContainer
    <2> QED
      BY <1>7, <1>8, <2>1, <2>2 DEF RunContainer
  <1>9. ASSUME NEW w \in Workers, CloseRuntime(w) PROVE PortInv'
    <2>1. bound' \in [Ports -> Workers \cup {"nobody", "container"}]
      BY <1>9, <1>a DEF CloseRuntime
    <2> QED
      BY <1>7, <1>9, <2>1 DEF CloseRuntime
  <1>10. ASSUME NEW w \in Workers, CloseKeeping(w) PROVE PortInv'
    BY <1>7, <1>10, <1>a DEF CloseKeeping
  <1>11. ASSUME NEW w \in Workers, NEW p \in Ports, OpenLockFile(w, p) PROVE PortInv'
    <2>1. UNCHANGED <<bound, torn, kills>>
      BY <1>11 DEF OpenLockFile
    <2>2. /\ owner' \in Seq(Workers \cup {"nobody"}) /\ Len(owner') <= MaxFiles
          /\ Len(owner') \in Nat /\ Len(owner) <= Len(owner')
          /\ entry' \in [Ports -> 0 .. Len(owner')] /\ entry'[p] # 0
          /\ \A q \in Ports : q # p \/ entry[p] # 0 => entry'[q] = entry[q]
          /\ \A f \in 1 .. Len(owner) : owner'[f] = owner[f]
      <3>1. CASE entry[p] # 0 /\ UNCHANGED <<entry, owner>>
        BY <1>a, <1>b, <3>1
      <3>2. CASE /\ entry[p] = 0 /\ Len(owner) < MaxFiles
                 /\ owner' = Append(owner, "nobody")
                 /\ entry' = [entry EXCEPT ![p] = Len(owner) + 1]
        <4>1. /\ owner' \in Seq(Workers \cup {"nobody"}) /\ Len(owner') = Len(owner) + 1
              /\ \A f \in 1 .. Len(owner) : owner'[f] = owner[f]
          BY <1>a, <3>2, AppendProperties
        <4> QED
          BY <1>a, <1>b, <3>2, <4>1
      <3> QED
        BY <1>11, <3>1, <3>2 DEF OpenLockFile
    <2>3. PICK x : /\ x = [worker[w] EXCEPT !.pc = "lock", !.port = p, !.file = entry'[p]]
                   /\ worker' = [worker EXCEPT ![w] = x]
      BY <1>11, <1>a DEF OpenLockFile
    <2>4. x \in WorkerType' /\ WorkerFits(x) /\ x.pc = "lock" /\ x.port = p /\ x.file = entry'[p]
      BY <1>11, <1>a, <1>b, <1>d, <2>2, <2>3 DEF OpenLockFile, WorkerType, WorkerFits
    <2>5. \A v \in Workers : worker'[v] = IF v = w THEN x ELSE worker[v]
      BY <1>a, <2>3
    <2>6. \A v \in Workers : worker[v] \in WorkerType'
      BY <1>a, <1>b, <2>2 DEF WorkerType
    <2>7. PortTypeOK'
      <3>1. worker' \in [Workers -> WorkerType']
        BY <1>a, <2>3, <2>4, <2>6
      <3> QED
        BY <1>a, <2>1, <2>2, <3>1 DEF PortTypeOK
    <2>8. WorkersFit'
      BY <1>d, <2>4, <2>5 DEF WorkersFit, WorkerFits
    <2>9. HoldersOwn'
      <3>1. \A v \in Workers : worker[v].file \in 0 .. Len(owner)
        BY <1>a DEF WorkerType
      <3> QED
        BY <1>b, <2>2, <2>4, <2>5, <3>1 DEF PortInv, HoldersOwn, Holding
    <2>10. OpenIsNamed'
      BY <2>1, <2>2, <2>4, <2>5 DEF PortInv, OpenIsNamed
    <2> QED
      BY <2>7, <2>8, <2>9, <2>10 DEF PortInv
  <1>f. \A w \in Workers : worker[w].file \in 0 .. Len(owner)
    BY <1>a DEF WorkerType
  (* a change of flocks keeps the files *)
  <1>g. ASSUME NEW o \in [1 .. Len(owner) -> Workers \cup {"nobody"}], owner' = o
        PROVE  /\ owner' \in Seq(Workers \cup {"nobody"}) /\ Len(owner') = Len(owner)
               /\ WorkerType' = WorkerType
    <2>1. owner' \in Seq(Workers \cup {"nobody"})
      BY <1>g, <1>b, IsASeq
    <2>2. Len(owner') = Len(owner)
      BY <1>g, <1>b, <2>1, LenProperties
    <2> QED
      BY <2>1, <2>2 DEF WorkerType
  <1>12. ASSUME NEW w \in Workers, Flock(w) PROVE PortInv'
    <2>1. PICK x : x = [worker[w] EXCEPT !.pc = "check"] /\ worker' = [worker EXCEPT ![w] = x]
      BY <1>12, <1>a DEF Flock
    <2>2. /\ x \in WorkerType /\ WorkerFits(x) /\ x.file = worker[w].file /\ x.port = worker[w].port
          /\ worker[w].file \in 1 .. Len(owner)
      <3>1. x \in WorkerType /\ x.file = worker[w].file /\ x.port = worker[w].port
        BY <1>a, <1>b, <2>1 DEF WorkerType
      <3>2. WorkerFits(x)
        BY <1>12, <1>a, <1>b, <1>d, <2>1 DEF Flock, WorkerType, WorkerFits
      <3>3. worker[w].file \in 1 .. Len(owner)
        BY <1>12, <1>a, <1>b, <1>d DEF Flock, WorkerType, WorkerFits
      <3> QED
        BY <3>1, <3>2, <3>3
    <2>3. \A v \in Workers : worker'[v] = IF v = w THEN x ELSE worker[v]
      BY <1>a, <2>1
    <2>4. /\ owner' = [owner EXCEPT ![worker[w].file] = w] /\ owner[worker[w].file] = "nobody"
          /\ UNCHANGED <<entry, bound, torn, kills>>
      BY <1>12 DEF Flock
    <2>5. /\ owner' \in [1 .. Len(owner) -> Workers \cup {"nobody"}]
          /\ \A f \in 1 .. Len(owner) : owner'[f] = IF f = worker[w].file THEN w ELSE owner[f]
      BY <1>b, <2>2, <2>4
    <2>6. PortTypeOK'
      BY <1>a, <1>g, <2>1, <2>2, <2>4, <2>5 DEF PortTypeOK
    <2>7. WorkersFit'
      BY <1>d, <2>2, <2>3 DEF WorkersFit, WorkerFits
    <2>8. HoldersOwn'
      BY <1>b, <1>c, <1>f, <2>2, <2>3, <2>4, <2>5 DEF PortInv, HoldersOwn
    <2>9. OpenIsNamed'
      BY <2>2, <2>3, <2>4 DEF PortInv, OpenIsNamed
    <2> QED
      BY <2>6, <2>7, <2>8, <2>9 DEF PortInv
  <1>13. ASSUME NEW w \in Workers, Unlock(w) PROVE PortInv'
    <2>1. PICK x : x = [worker[w] EXCEPT !.pc = "unlink", !.file = 0] /\ worker' = [worker EXCEPT ![w] = x]
      BY <1>13, <1>a DEF Unlock
    <2>2. /\ x \in WorkerType /\ WorkerFits(x) /\ x.file = 0
          /\ worker[w].file \in 1 .. Len(owner) /\ owner[worker[w].file] = w
      <3>1. worker[w].file # 0 /\ worker[w].pc = "unlock"
        BY <1>13, <1>d DEF Unlock, WorkerFits
      <3>2. worker[w].file \in 1 .. Len(owner)
        BY <1>b, <1>f, <3>1
      <3>3. owner[worker[w].file] = w
        BY <3>1 DEF PortInv, HoldersOwn, Holding
      <3>4. x \in WorkerType /\ WorkerFits(x) /\ x.file = 0
        BY <1>13, <1>a, <1>b, <1>d, <2>1 DEF Unlock, WorkerType, WorkerFits
      <3> QED
        BY <3>2, <3>3, <3>4
    <2>3. \A v \in Workers : worker'[v] = IF v = w THEN x ELSE worker[v]
      BY <1>a, <2>1
    <2>4. owner' = [owner EXCEPT ![worker[w].file] = "nobody"] /\ UNCHANGED <<entry, bound, torn, kills>>
      BY <1>13 DEF Unlock
    <2>5. /\ owner' \in [1 .. Len(owner) -> Workers \cup {"nobody"}]
          /\ \A f \in 1 .. Len(owner) : owner[f] # w => owner'[f] = owner[f]
      BY <1>b, <2>2, <2>4
    <2>6. PortTypeOK'
      BY <1>a, <1>g, <2>1, <2>2, <2>4, <2>5 DEF PortTypeOK
    <2>7. WorkersFit'
      BY <1>d, <2>2, <2>3 DEF WorkersFit, WorkerFits
    <2>8. HoldersOwn'
      BY <1>b, <1>f, <2>2, <2>3, <2>5 DEF PortInv, HoldersOwn
    <2>9. OpenIsNamed'
      BY <2>2, <2>3, <2>4 DEF PortInv, OpenIsNamed
    <2> QED
      BY <2>6, <2>7, <2>8, <2>9 DEF PortInv
  <1>14. ASSUME NEW w \in Workers, Unlink(w) PROVE PortInv'
    <2>1. PICK x : /\ x = IF worker[w].closing THEN IdleWorker
                          ELSE [worker[w] EXCEPT !.pc = "find", !.port = "none"]
                   /\ worker' = [worker EXCEPT ![w] = x]
      BY <1>14, <1>a DEF Unlink
    <2>2. x \in WorkerType /\ WorkerFits(x) /\ x.file = 0
      <3>1. CASE worker[w].closing
        BY <1>e, <2>1, <3>1
      <3>2. CASE ~worker[w].closing
        <4>1. x = [worker[w] EXCEPT !.pc = "find", !.port = "none"]
          BY <2>1, <3>2
        <4>2. x \in WorkerType
          BY <1>a, <4>1 DEF WorkerType
        <4>3. WorkerFits(x) /\ x.file = 0
          BY <1>14, <1>a, <1>b, <1>d, <4>1 DEF Unlink, WorkerType, WorkerFits
        <4> QED
          BY <4>2, <4>3
      <3> QED
        BY <3>1, <3>2
    <2>3. \A v \in Workers : worker'[v] = IF v = w THEN x ELSE worker[v]
      BY <1>a, <2>1
    <2>4. PICK p : /\ p = worker[w].port /\ entry' = [entry EXCEPT ![p] = 0]
                   /\ torn' = IF entry[p] # 0 /\ \E v \in Workers : worker[v].file = entry[p]
                              THEN torn \cup {p} ELSE torn
      BY <1>14 DEF Unlink, HasOpen
    <2>5. UNCHANGED <<owner, bound, kills>>
      BY <1>14 DEF Unlink
    <2>6. PortTypeOK'
      <3>1. entry' \in [Ports -> 0 .. Len(owner)]
        <4>1. 0 \in 0 .. Len(owner)
          BY <1>b
        <4> QED
          BY <1>a, <2>4, <4>1
      <3>2. torn' \subseteq Ports
        BY <1>14, <1>a, <1>d, <2>4 DEF Unlink, WorkerFits
      <3> QED
        BY <1>a, <2>1, <2>2, <2>5, <3>1, <3>2 DEF PortTypeOK, WorkerType
    <2>7. WorkersFit'
      BY <1>d, <2>2, <2>3 DEF WorkersFit, WorkerFits
    <2>8. HoldersOwn'
      BY <2>2, <2>3, <2>5 DEF PortInv, HoldersOwn
    <2>9. OpenIsNamed'
      <3>1. ASSUME NEW q \in Ports \ torn', NEW v \in Workers, worker'[v].port = q, worker'[v].file # 0
            PROVE  worker'[v].file = entry'[q]
        <4>1. v # w /\ worker'[v] = worker[v] /\ q \notin torn
          BY <2>2, <2>3, <2>4, <3>1
        <4>2. worker[v].file = entry[q]
          BY <3>1, <4>1 DEF PortInv, OpenIsNamed
        <4>3. q # p
          BY <2>4, <3>1, <4>1, <4>2
        <4> QED
          BY <1>a, <2>4, <4>1, <4>2, <4>3
      <3> QED
        BY <3>1 DEF OpenIsNamed
    <2> QED
      BY <2>6, <2>7, <2>8, <2>9 DEF PortInv
  <1>15. ASSUME NEW w \in Workers, Killed(w) PROVE PortInv'
    <2>1. \A v \in Workers : worker'[v] = IF v = w THEN IdleWorker ELSE worker[v]
      BY <1>15, <1>a DEF Killed
    <2>2. /\ owner' \in [1 .. Len(owner) -> Workers \cup {"nobody"}]
          /\ \A f \in 1 .. Len(owner) : owner[f] # w => owner'[f] = owner[f]
      BY <1>15, <1>b DEF Killed
    <2>3. UNCHANGED <<entry, torn>>
      BY <1>15 DEF Killed
    <2>4. PortTypeOK'
      <3>1. kills' \in 0 .. MaxKills
        BY <1>15, <1>a, <1>b DEF Killed
      <3>2. bound' \in [Ports -> Workers \cup {"nobody", "container"}]
        BY <1>15, <1>a DEF Killed
      <3>3. worker' \in [Workers -> WorkerType]
        BY <1>15, <1>a, <1>e DEF Killed
      <3> QED
        BY <1>a, <1>g, <2>2, <2>3, <3>1, <3>2, <3>3 DEF PortTypeOK
    <2>5. WorkersFit'
      BY <1>d, <1>e, <2>1 DEF WorkersFit
    <2>6. HoldersOwn'
      BY <1>b, <1>e, <1>f, <2>1, <2>2 DEF PortInv, HoldersOwn
    <2>7. OpenIsNamed'
      BY <1>e, <2>1, <2>3 DEF PortInv, OpenIsNamed
    <2> QED
      BY <2>4, <2>5, <2>6, <2>7 DEF PortInv
  <1>16. CASE UNCHANGED portVars
    BY <1>16 DEF portVars, PortInv, PortTypeOK, WorkerType, WorkersFit, WorkerFits, HoldersOwn, OpenIsNamed
  <1> QED
    BY <1>1, <1>2, <1>3, <1>4, <1>5, <1>6, <1>8, <1>9, <1>10, <1>11, <1>12, <1>13, <1>14, <1>15, <1>16
    DEF PortNext

(* Whatever number of workers search, time out, run, close and are killed: *)
(* as long as no release (os.unlink in PortLock.release) took the name off *)
(* a file that was open elsewhere, a port is locked by one of them.        *)
THEOREM PortsCorrect == PortSpec => []PortTypeOK /\ []LockIsExclusive
  <1>1. PortInit => PortInv
    <2> SUFFICES ASSUME PortInit PROVE PortInv
      OBVIOUS
    <2>1. owner \in Seq(Workers \cup {"nobody"}) /\ Len(owner) = 0
      BY DEF PortInit
    <2>2. PortTypeOK
      BY <2>1, PortAssumption DEF PortInit, PortTypeOK, WorkerType, IdleWorker
    <2>3. WorkersFit /\ HoldersOwn /\ OpenIsNamed
      BY DEF PortInit, WorkersFit, WorkerFits, HoldersOwn, OpenIsNamed, IdleWorker
    <2> QED
      BY <2>2, <2>3 DEF PortInv
  <1>2. PortInv /\ [PortNext]_portVars => PortInv'
    BY PortInvStep
  <1>3. PortInv => PortTypeOK /\ LockIsExclusive
    BY DEF PortInv, LockIsExclusive, LockHolders, HoldersOwn, OpenIsNamed, Holding
  <1> QED
    BY <1>1, <1>2, <1>3, PTL DEF PortSpec

-----------------------------------------------------------------------------
(* The batched web hook: the last update of a file arrives.                *)

(* The writers, of those in W, that have yet to queue an update of p. *)
UpdatersOf(W, p) == {w \in Writers : W[w] # IdleWriter /\ W[w].path = p}

(* An update that says what the store has. *)
Fits(u, p) == (u.op = "write" /\ u.id = local[p]) \/ (u.op = "delete" /\ local[p] = 0)

(* The last update of an undisturbed path is with the one writer that has  *)
(* one, else in the batch, else in all batches under way that have the     *)
(* path, else applied.                                                     *)
TracedIn(W, b, p) ==
    /\ \A v, w \in UpdatersOf(W, p) : v = w
    /\ \A w \in UpdatersOf(W, p) : Fits(W[w].update, p)
    /\ UpdatersOf(W, p) = {} /\ p \in DOMAIN b => Fits(b[p], p)
    /\ UpdatersOf(W, p) = {} /\ p \notin DOMAIN b =>
          \A x \in UnderWay : p \in DOMAIN x.updates => Fits(x.updates[p], p)
    /\ UpdatersOf(W, p) = {} /\ p \notin DOMAIN b /\ (\A x \in UnderWay : p \notin DOMAIN x.updates) =>
          local[p] = 0 \/ mirror[p] = local[p]

LatestTraced == \A p \in Paths \ disturbed : TracedIn(writer, batch, p)

(* At most one batch is being sent by flush. *)
OneFlush == \A f, g \in flights : f.sync /\ g.sync => f = g

(* A timer was armed by an update that was queued. *)
Waiting == {w \in Writers : writer[w] # IdleWriter}
TimersPaidFor == due + (IF timer = "armed" THEN 1 ELSE 0) + Cardinality(Waiting) <= writes

WebHookInv ==
    WebHookTypeOK /\ BatchHasTimer /\ LatestTraced /\ OneFlush /\ TimersPaidFor

Flights == [updates : Batches, tries : 0 .. MaxTries - 1, sync : BOOLEAN]
Tasks == [updates : Batches, attempt : 0 .. MaxTries - 1]

LEMMA BatchShape ==
    /\ \A b \in Batches : /\ DOMAIN b \in SUBSET Paths /\ b \in [DOMAIN b -> Updates]
                          /\ b = Empty <=> DOMAIN b = {}
    /\ Empty \in Batches /\ DOMAIN Empty = {}
    /\ \A P \in SUBSET Paths : [P -> Updates] \subseteq Batches
  <1>1. \A P \in SUBSET Paths : [P -> Updates] \subseteq Batches
    BY DEF Batches
  <1>2. DOMAIN Empty = {} /\ Empty \in [{} -> Updates]
    BY DEF Empty
  <1>3. \A b \in Batches : DOMAIN b \in SUBSET Paths /\ b \in [DOMAIN b -> Updates]
    BY DEF Batches
  <1>4. ASSUME NEW b \in Batches, DOMAIN b = {} PROVE b = Empty
    BY <1>3, <1>4 DEF Empty
  <1> QED
    BY <1>1, <1>2, <1>3, <1>4

LEMMA SizeOfEmpty == SizeOf(Empty) = 0
  <1>1. {p \in DOMAIN Empty : Empty[p].op = "write"} = {}
    BY BatchShape
  <1> QED
    BY <1>1, FS_EmptySet DEF SizeOf

(* The batch with one more update, and its size. *)
LEMMA WithShape ==
    ASSUME WebHookTypeOK, NEW p \in Paths, NEW u \in Updates
    PROVE  /\ With(p, u) \in Batches /\ DOMAIN With(p, u) = DOMAIN batch \cup {p}
           /\ With(p, u)[p] = u /\ \A q \in DOMAIN batch : q # p => With(p, u)[q] = batch[q]
           /\ SizeOf(With(p, u)) = SizeWith(p, u) /\ SizeWith(p, u) \in Nat
  <1>1. batch \in Batches /\ size = SizeOf(batch)
    BY DEF WebHookTypeOK
  <1>2. DOMAIN batch \in SUBSET Paths /\ batch \in [DOMAIN batch -> Updates]
    BY <1>1, BatchShape
  <1>3. /\ DOMAIN With(p, u) = DOMAIN batch \cup {p} /\ With(p, u) \in [DOMAIN batch \cup {p} -> Updates]
        /\ With(p, u)[p] = u /\ \A q \in DOMAIN batch : q # p => With(p, u)[q] = batch[q]
    BY <1>2 DEF With
  <1>4. With(p, u) \in Batches
    BY <1>2, <1>3, BatchShape
  <1> DEFINE S == {q \in DOMAIN batch : batch[q].op = "write"}
             T == {q \in DOMAIN With(p, u) : With(p, u)[q].op = "write"}
  <1>5. IsFiniteSet(S) /\ Cardinality(S) \in Nat /\ size = Cardinality(S)
    <2>1. S \in SUBSET Paths
      BY <1>2
    <2>2. IsFiniteSet(S)
      BY <2>1, WebHookAssumption, FS_Subset
    <2> QED
      BY <1>1, <2>2, FS_CardinalityType DEF SizeOf
  <1>6. T = IF u.op = "write" THEN S \cup {p} ELSE S \ {p}
    BY <1>2, <1>3
  <1>7. p \in S <=> p \in DOMAIN batch /\ batch[p].op = "write"
    OBVIOUS
  <1>8. SizeOf(With(p, u)) = Cardinality(T)
    BY DEF SizeOf
  <1>9. /\ Cardinality(S \cup {p}) = IF p \in S THEN Cardinality(S) ELSE Cardinality(S) + 1
        /\ Cardinality(S \ {p}) = IF p \in S THEN Cardinality(S) - 1 ELSE Cardinality(S)
        /\ Cardinality(S \ {p}) \in Nat
    BY <1>5, FS_AddElement, FS_RemoveElement, FS_CardinalityType
  <1>10. SizeWith(p, u) = Cardinality(S) - (IF p \in S THEN 1 ELSE 0) + (IF u.op = "write" THEN 1 ELSE 0)
    BY <1>5, <1>7 DEF SizeWith
  <1> HIDE DEF S, T
  <1>11. Cardinality(T) = SizeWith(p, u) /\ SizeWith(p, u) \in Nat
    <2>1. CASE u.op = "write"
      BY <1>5, <1>6, <1>9, <1>10, <2>1
    <2>2. CASE u.op # "write"
      BY <1>5, <1>6, <1>9, <1>10, <2>2
    <2> QED
      BY <2>1, <2>2
  <1> QED
    BY <1>3, <1>4, <1>8, <1>11

(* A batch is handed to the sender. *)
LEMMA EnqueueStep ==
    ASSUME WebHookInv, NEW b \in Batches, NEW sync \in BOOLEAN, NEW W,
           EnqueueBatch(b, sync), UNCHANGED <<local, mirror>>, writer' = W,
           \A p \in Paths \ disturbed : TracedIn(W, b, p),
           sync => ~flushing
    PROVE  /\ LatestTraced' /\ OneFlush' /\ flights' \subseteq Flights
           /\ batch' = Empty /\ size' = 0 /\ timer' = "none" /\ tasks' = tasks
           /\ disturbed' \subseteq Paths
           /\ (\E f \in flights' : f.sync) <=> (\E f \in flights : f.sync) \/ (sync /\ b # Empty)
  <1> DEFINE x == [updates |-> b, tries |-> 0, sync |-> sync]
  <1>1. /\ flights' = IF b = Empty THEN flights ELSE flights \cup {x}
        /\ disturbed' = disturbed \cup {p \in DOMAIN b : \E y \in UnderWay : p \in DOMAIN y.updates}
        /\ batch' = Empty /\ size' = 0 /\ timer' = "none" /\ tasks' = tasks
    BY DEF EnqueueBatch
  <1>2. x \in Flights /\ x.updates = b /\ x.sync = sync
    BY WebHookAssumption DEF Flights
  <1> HIDE DEF x
  <1>3. flights \subseteq Flights /\ (flushing <=> \E f \in flights : f.sync)
    BY DEF WebHookInv, WebHookTypeOK, Flights
  <1>4. flights' \subseteq Flights
    BY <1>1, <1>2, <1>3
  <1>5. OneFlush'
    BY <1>1, <1>2, <1>3 DEF WebHookInv, OneFlush
  <1>6. disturbed' \subseteq Paths
    BY <1>1, BatchShape DEF WebHookInv, WebHookTypeOK
  <1>7. (\E f \in flights' : f.sync) <=> (\E f \in flights : f.sync) \/ (sync /\ b # Empty)
    BY <1>1, <1>2
  <1>8. LatestTraced'
    <2> SUFFICES ASSUME NEW p \in Paths, p \notin disturbed' PROVE TracedIn(writer, batch, p)'
      BY DEF LatestTraced
    <2>1. TracedIn(W, b, p)
      BY <1>1
    <2>2. p \in DOMAIN b => \A y \in UnderWay : p \notin DOMAIN y.updates
      BY <1>1
    <2>3. p \notin DOMAIN batch'
      BY <1>1, BatchShape
    <2>4. UpdatersOf(writer', p) = UpdatersOf(W, p)
      OBVIOUS
    <2>5. p \in DOMAIN b => b # Empty
      BY BatchShape
    <2>6. \A y \in UnderWay' : p \in DOMAIN y.updates =>
             IF p \in DOMAIN b THEN y.updates = b ELSE y \in UnderWay
      BY <1>1, <1>2, <2>2 DEF UnderWay
    <2>8. \A w \in UpdatersOf(W, p) : Fits(W[w].update, p)'
      BY <2>1 DEF TracedIn, Fits
    <2>9. UpdatersOf(W, p) = {} => \A y \in UnderWay' : p \in DOMAIN y.updates => Fits(y.updates[p], p)'
      BY <2>1, <2>6 DEF TracedIn, Fits
    <2>10. UpdatersOf(W, p) = {} /\ (\A y \in UnderWay' : p \notin DOMAIN y.updates) =>
              local[p] = 0 \/ mirror[p] = local[p]
      BY <1>1, <1>2, <2>1, <2>5 DEF TracedIn, UnderWay
    <2> QED
      BY <2>1, <2>3, <2>4, <2>8, <2>9, <2>10 DEF TracedIn, UpdatersOf, Fits
  <1> QED
    BY <1>1, <1>4, <1>5, <1>6, <1>7, <1>8

LEMMA WebHookInvStep ==
    ASSUME WebHookInv, [WebHookNext]_webHookVars
    PROVE  WebHookInv'
  <1>a. WebHookTypeOK
    BY DEF WebHookInv
  <1>b. /\ local \in [Paths -> 0 .. writes] /\ mirror \in [Paths -> 0 .. MaxWrites]
        /\ writer \in [Writers -> WriterType] /\ writes \in 0 .. MaxWrites
        /\ batch \in Batches
        /\ size = SizeOf(batch) /\ size < SizeLimit
        /\ timer \in {"none", "armed", "fired"} /\ due \in 0 .. MaxWrites
        /\ flights \subseteq Flights /\ tasks \subseteq Tasks
        /\ flushing <=> \E f \in flights : f.sync
        /\ disturbed \subseteq Paths
    BY <1>a DEF WebHookTypeOK, Flights, Tasks
  <1>c. MaxWrites \in Nat /\ writes \in Nat /\ due \in Nat /\ MaxTries \in Nat /\ MaxTries > 0
        /\ SizeLimit \in Nat /\ SizeLimit > 0
    BY <1>b, WebHookAssumption
  <1>d. IsFiniteSet(Waiting) /\ Cardinality(Waiting) \in Nat
    <2>1. Waiting \in SUBSET Writers
      BY DEF Waiting
    <2> QED
      BY <2>1, WebHookAssumption, FS_Subset, FS_CardinalityType
  <1>e. due + (IF timer = "armed" THEN 1 ELSE 0) + Cardinality(Waiting) <= writes
    BY DEF WebHookInv, TimersPaidFor
  <1>1. ASSUME NEW w \in Writers, NEW p \in Paths, NEW op \in {"write", "delete"}, Update(w, p, op)
        PROVE  WebHookInv'
    <2>1. PICK x : x = [pc |-> "queue", path |-> p, update |-> [op |-> op, id |-> writes + 1]]
      OBVIOUS
    <2>2. /\ writer[w] = IdleWriter /\ writes < MaxWrites /\ writes' = writes + 1
          /\ local' = [local EXCEPT ![p] = IF op = "write" THEN writes + 1 ELSE 0]
          /\ writer' = [writer EXCEPT ![w] = x]
          /\ disturbed' = IF UpdatersOf(writer, p) # {} THEN disturbed \cup {p} ELSE disturbed
          /\ UNCHANGED <<mirror, batch, size, timer, due, flights, tasks, flushing>>
      BY <1>1, <2>1 DEF Update, UpdatersOf
    <2>3. /\ x \in WriterType /\ x # IdleWriter /\ x.path = p
          /\ x.update.op = op /\ x.update.id = writes + 1
      BY <1>c, <2>1, <2>2 DEF WriterType, IdleWriter, Updates
    <2>4. \A v \in Writers : writer'[v] = IF v = w THEN x ELSE writer[v]
      BY <1>b, <2>2
    <2>5. \A q \in Paths : q # p => local'[q] = local[q]
      BY <1>b, <2>2
    <2>6. local'[p] = IF op = "write" THEN writes + 1 ELSE 0
      BY <1>b, <2>2
    <2>7. WebHookTypeOK'
      <3>1. local' \in [Paths -> 0 .. writes'] /\ mirror' \in [Paths -> 0 .. MaxWrites]
        BY <1>b, <1>c, <2>2
      <3>2. writer' \in [Writers -> WriterType]
        BY <1>b, <2>2, <2>3
      <3>3. writes' \in 0 .. MaxWrites
        BY <1>c, <2>2
      <3>4. disturbed' \subseteq Paths
        BY <1>b, <2>2
      <3> QED
        BY <1>a, <2>2, <3>1, <3>2, <3>3, <3>4 DEF WebHookTypeOK
    <2>8. (BatchHasTimer /\ OneFlush)'
      BY <2>2 DEF WebHookInv, BatchHasTimer, OneFlush
    <2>9. LatestTraced'
      <3> SUFFICES ASSUME NEW q \in Paths, q \notin disturbed' PROVE TracedIn(writer, batch, q)'
        BY DEF LatestTraced
      <3>1. q \notin disturbed /\ TracedIn(writer, batch, q)
        BY <2>2 DEF WebHookInv, LatestTraced
      <3>2. CASE q # p
        <4>1. UpdatersOf(writer', q) = UpdatersOf(writer, q) /\ w \notin UpdatersOf(writer, q)
          BY <2>2, <2>3, <2>4, <3>2 DEF UpdatersOf
        <4>2. \A v \in UpdatersOf(writer, q) : writer'[v] = writer[v]
          BY <2>4, <4>1 DEF UpdatersOf
        <4> QED
          BY <2>2, <2>5, <3>1, <3>2, <4>1, <4>2 DEF TracedIn, Fits, UpdatersOf, UnderWay
      <3>3. CASE q = p
        <4>1. UpdatersOf(writer, p) = {}
          BY <2>2, <3>3
        <4>2. UpdatersOf(writer', p) = {w}
          BY <2>3, <2>4, <4>1 DEF UpdatersOf
        <4>3. Fits(writer[w].update, p)'
          BY <2>3, <2>4, <2>6 DEF Fits
        <4>5. UpdatersOf(writer, p)' = {w}
          BY <2>2, <4>2 DEF UpdatersOf
        <4> QED
          BY <3>3, <4>3, <4>5 DEF TracedIn
      <3> QED
        BY <3>2, <3>3
    <2>10. TimersPaidFor'
      <3>1. Waiting' = Waiting \cup {w} /\ w \notin Waiting
        BY <2>2, <2>3, <2>4 DEF Waiting
      <3>2. Cardinality(Waiting') = Cardinality(Waiting) + 1
        BY <1>d, <3>1, FS_AddElement
      <3> QED
        BY <1>c, <1>d, <1>e, <2>2, <3>2 DEF TimersPaidFor
    <2> QED
      BY <2>7, <2>8, <2>9, <2>10 DEF WebHookInv
  <1>2. ASSUME NEW w \in Writers, QueueUpdate(w) PROVE WebHookInv'
    <2>1. PICK p, u : p = writer[w].path /\ u = writer[w].update
      OBVIOUS
    <2>2. /\ writer[w] # IdleWriter /\ p \in Paths /\ u \in Updates
      BY <1>2, <1>b, <2>1 DEF QueueUpdate, WriterType, IdleWriter
    <2>3. /\ writer' = [writer EXCEPT ![w] = IdleWriter]
          /\ UNCHANGED <<local, mirror, due, flushing, writes>>
          /\ \/ /\ SizeWith(p, u) >= SizeLimit
                /\ EnqueueBatch(With(p, u), FALSE)
             \/ /\ SizeWith(p, u) < SizeLimit
                /\ batch' = With(p, u)
                /\ size' = SizeWith(p, u)
                /\ timer' = "armed"
                /\ UNCHANGED <<flights, tasks, disturbed>>
      BY <1>2, <2>1 DEF QueueUpdate
    <2>4. PICK b : b = With(p, u)
      OBVIOUS
    <2>5. /\ b \in Batches /\ DOMAIN b = DOMAIN batch \cup {p}
          /\ b[p] = u /\ \A q \in DOMAIN batch : q # p => b[q] = batch[q]
          /\ SizeOf(b) = SizeWith(p, u) /\ SizeWith(p, u) \in Nat
      BY <1>a, <2>2, <2>4, WithShape
    <2>6. \A v \in Writers : writer'[v] = IF v = w THEN IdleWriter ELSE writer[v]
      BY <1>b, <2>3
    <2>7. writer' \in [Writers -> WriterType]
      BY <1>b, <2>3 DEF WriterType
    <2>8. Waiting' = Waiting \ {w} /\ w \in Waiting /\ Cardinality(Waiting') = Cardinality(Waiting) - 1
      <3>1. Waiting' = Waiting \ {w} /\ w \in Waiting
        BY <2>2, <2>6 DEF Waiting
      <3> QED
        BY <1>d, <3>1, FS_RemoveElement
    <2>9. TimersPaidFor'
      <3>1. due' + (IF timer' = "armed" THEN 1 ELSE 0) + Cardinality(Waiting') <= writes'
        <4>1. CASE timer' = "armed"
          BY <1>c, <1>d, <1>e, <2>3, <2>8, <4>1
        <4>2. CASE timer' # "armed"
          BY <1>c, <1>d, <1>e, <2>3, <2>8, <4>2
        <4> QED
          BY <4>1, <4>2
      <3> QED
        BY <3>1 DEF TimersPaidFor
    <2>10. ASSUME NEW q \in Paths \ disturbed PROVE TracedIn(writer', b, q)
      <3>1. TracedIn(writer, batch, q)
        BY DEF WebHookInv, LatestTraced
      <3>2. CASE q = p
        <4>1. w \in UpdatersOf(writer, q)
          BY <2>1, <2>2, <3>2 DEF UpdatersOf
        <4>2. UpdatersOf(writer, q) = {w}
          BY <3>1, <4>1 DEF TracedIn
        <4>3. UpdatersOf(writer', q) = {}
          BY <2>6, <4>2 DEF UpdatersOf
        <4>4. Fits(u, q)
          BY <2>1, <3>1, <4>1 DEF TracedIn
        <4> QED
          BY <2>5, <3>1, <3>2, <4>3, <4>4 DEF TracedIn
      <3>3. CASE q # p
        <4>1. UpdatersOf(writer', q) = UpdatersOf(writer, q) /\ w \notin UpdatersOf(writer, q)
          BY <2>1, <2>6, <3>3 DEF UpdatersOf
        <4>2. \A v \in UpdatersOf(writer, q) : writer'[v] = writer[v]
          BY <2>6, <4>1 DEF UpdatersOf
        <4>3. q \in DOMAIN b <=> q \in DOMAIN batch
          BY <2>5, <3>3
        <4>4. q \in DOMAIN batch => b[q] = batch[q]
          BY <2>5, <3>3
        <4> QED
          BY <3>1, <4>1, <4>2, <4>3, <4>4 DEF TracedIn
      <3> QED
        BY <3>2, <3>3
    <2>11. CASE EnqueueBatch(b, FALSE)
      <3>1. /\ LatestTraced' /\ OneFlush' /\ flights' \subseteq Flights
            /\ batch' = Empty /\ size' = 0 /\ timer' = "none" /\ tasks' = tasks
            /\ disturbed' \subseteq Paths
            /\ (\E f \in flights' : f.sync) <=> (\E f \in flights : f.sync)
        BY <2>3, <2>5, <2>10, <2>11, EnqueueStep
      <3>2. WebHookTypeOK'
        BY <1>b, <1>c, <2>3, <2>7, <3>1, SizeOfEmpty, BatchShape DEF WebHookTypeOK, Flights, Tasks
      <3>3. BatchHasTimer'
        BY <3>1 DEF BatchHasTimer
      <3> QED
        BY <2>9, <3>1, <3>2, <3>3 DEF WebHookInv
    <2>12. CASE /\ SizeWith(p, u) < SizeLimit
                /\ batch' = b /\ size' = SizeWith(p, u) /\ timer' = "armed"
                /\ UNCHANGED <<flights, tasks, disturbed>>
      <3>1. WebHookTypeOK'
        BY <1>b, <1>c, <2>3, <2>5, <2>7, <2>12 DEF WebHookTypeOK, Flights, Tasks
      <3>2. BatchHasTimer' /\ OneFlush'
        BY <2>12 DEF WebHookInv, BatchHasTimer, OneFlush
      <3>3. LatestTraced'
        <4>1. \A q \in Paths \ disturbed : TracedIn(writer, batch, q)' <=> TracedIn(writer', b, q)
          BY <2>3, <2>12 DEF TracedIn, UpdatersOf, Fits, UnderWay
        <4> QED
          BY <2>10, <2>12, <4>1 DEF LatestTraced
      <3> QED
        BY <2>9, <3>1, <3>2, <3>3 DEF WebHookInv
    <2> QED
      BY <2>3, <2>4, <2>11, <2>12
  <1>3. CASE TimerFires
    <2>1. /\ timer = "armed" /\ timer' = "fired" /\ due' = due + 1
          /\ UNCHANGED <<local, mirror, writer, batch, size, flights, tasks, flushing, writes, disturbed>>
      BY <1>3 DEF TimerFires
    <2>2. Waiting' = Waiting
      BY <2>1 DEF Waiting
    <2>3. TimersPaidFor' /\ due' \in 0 .. MaxWrites
      BY <1>b, <1>c, <1>d, <1>e, <2>1, <2>2 DEF TimersPaidFor
    <2>4. WebHookTypeOK'
      BY <1>a, <2>1, <2>3 DEF WebHookTypeOK
    <2>5. BatchHasTimer' /\ OneFlush'
      BY <1>c, <2>1 DEF WebHookInv, BatchHasTimer, OneFlush
    <2>6. LatestTraced'
      BY <2>1 DEF WebHookInv, LatestTraced, TracedIn, UpdatersOf, Fits, UnderWay
    <2> QED
      BY <2>3, <2>4, <2>5, <2>6 DEF WebHookInv
  (* The batch is sent as it is. *)
  <1>f. ASSUME NEW sync \in BOOLEAN, EnqueueBatch(batch, sync), sync => ~flushing,
               UNCHANGED <<local, mirror, writer, writes>>, due' \in Nat, due' <= due,
               flushing' <=> flushing \/ (sync /\ batch # Empty)
        PROVE  WebHookInv'
    <2>1. \A p \in Paths \ disturbed : TracedIn(writer, batch, p)
      BY DEF WebHookInv, LatestTraced
    <2>2. /\ LatestTraced' /\ OneFlush' /\ flights' \subseteq Flights
          /\ batch' = Empty /\ size' = 0 /\ timer' = "none" /\ tasks' = tasks
          /\ disturbed' \subseteq Paths
          /\ (\E f \in flights' : f.sync) <=> (\E f \in flights : f.sync) \/ (sync /\ batch # Empty)
      BY <1>b, <1>f, <2>1, EnqueueStep
    <2>3. flushing' <=> \E f \in flights' : f.sync
      BY <1>b, <1>f, <2>2
    <2>4. WebHookTypeOK'
      BY <1>b, <1>c, <1>f, <2>2, <2>3, SizeOfEmpty, BatchShape, SMTT(60) DEF WebHookTypeOK, Flights, Tasks
    <2>5. BatchHasTimer'
      BY <2>2 DEF BatchHasTimer
    <2>6. Waiting' = Waiting
      BY <1>f DEF Waiting
    <2>7. TimersPaidFor'
      BY <1>c, <1>d, <1>e, <1>f, <2>2, <2>6 DEF TimersPaidFor
    <2> QED
      BY <2>2, <2>4, <2>5, <2>7 DEF WebHookInv
  <1>4. CASE TimerRuns
    <2>1. /\ EnqueueBatch(batch, FALSE) /\ UNCHANGED <<local, mirror, writer, flushing, writes>>
          /\ due > 0 /\ due' = due - 1
      BY <1>4 DEF TimerRuns
    <2>2. due' \in Nat /\ due' <= due
      BY <1>c, <2>1
    <2> QED
      BY <1>f, <2>1, <2>2
  <1>5. CASE Flush
    <2>1. /\ EnqueueBatch(batch, TRUE) /\ UNCHANGED <<local, mirror, writer, due, writes>>
          /\ ~flushing /\ flushing' = (batch # Empty)
      BY <1>5 DEF Flush
    <2>2. due' \in Nat /\ due' <= due
      BY <1>c, <2>1
    <2> QED
      BY <1>f, <2>1, <2>2
  (* An attempt to send f ends, having reached the receiver or not; then it  *)
  (* is over, received or given up, or is made again as g.                   *)
  <1>g. ASSUME NEW f \in flights, tasks' \in {tasks, tasks \cup {TaskOf(f)}},
               UNCHANGED <<local, mirror, writer, batch, size, timer, due, writes>>,
               disturbed \subseteq disturbed', disturbed' \subseteq Paths,
               \/ /\ flights' = flights \ {f} /\ (flushing' <=> flushing /\ ~f.sync)
                  /\ tasks' = tasks \cup {TaskOf(f)} \/ DOMAIN f.updates \subseteq disturbed'
               \/ \E g \in Flights : /\ flights' = (flights \ {f}) \cup {g} /\ (flushing' <=> flushing)
                                     /\ g.updates = f.updates /\ g.sync = f.sync
        PROVE  WebHookInv'
    <2>1. TaskOf(f) \in Tasks /\ TaskOf(f).updates = f.updates
      BY <1>b DEF Flights, Tasks, TaskOf
    <2>2. tasks' \subseteq Tasks
      BY <1>b, <1>g, <2>1
    <2>3. flights' \subseteq Flights /\ (flushing' <=> \E h \in flights' : h.sync) /\ OneFlush'
      <3>1. CASE flights' = flights \ {f} /\ (flushing' <=> flushing /\ ~f.sync)
        BY <1>b, <3>1 DEF WebHookInv, OneFlush
      <3>2. CASE \E g \in Flights : /\ flights' = (flights \ {f}) \cup {g} /\ (flushing' <=> flushing)
                                     /\ g.updates = f.updates /\ g.sync = f.sync
        <4>1. PICK g \in Flights : /\ flights' = (flights \ {f}) \cup {g} /\ (flushing' <=> flushing)
                                   /\ g.updates = f.updates /\ g.sync = f.sync
          BY <3>2
        <4> QED
          BY <1>b, <4>1 DEF WebHookInv, OneFlush
      <3> QED
        BY <1>g, <3>1, <3>2
    (* What is under way then was under way before; only what is given up ends. *)
    <2>4. \A h \in UnderWay' : \E k \in UnderWay : k.updates = h.updates
      BY <1>g, <2>1 DEF UnderWay
    <2>5. \A k \in UnderWay : (\E h \in UnderWay' : h.updates = k.updates)
                             \/ DOMAIN k.updates \subseteq disturbed'
      BY <1>g, <2>1 DEF UnderWay
    <2>6. LatestTraced'
      <3> SUFFICES ASSUME NEW p \in Paths, p \notin disturbed' PROVE TracedIn(writer, batch, p)'
        BY DEF LatestTraced
      <3>1. TracedIn(writer, batch, p)
        BY <1>g DEF WebHookInv, LatestTraced
      <3>2. /\ UpdatersOf(writer, p)' = UpdatersOf(writer, p)
            /\ local' = local /\ batch' = batch /\ mirror' = mirror /\ writer' = writer
        BY <1>g DEF UpdatersOf
      <3>3. UpdatersOf(writer, p) = {} /\ p \notin DOMAIN batch =>
               \A h \in UnderWay' : p \in DOMAIN h.updates => Fits(h.updates[p], p)
        BY <2>4, <3>1 DEF TracedIn
      <3>4. (\A h \in UnderWay' : p \notin DOMAIN h.updates) => \A k \in UnderWay : p \notin DOMAIN k.updates
        BY <2>5
      <3> QED
        BY <3>1, <3>2, <3>3, <3>4 DEF TracedIn, Fits
    <2>7. WebHookTypeOK'
      BY <1>a, <1>g, <2>2, <2>3 DEF WebHookTypeOK, Flights, Tasks
    <2>8. BatchHasTimer'
      BY <1>g DEF WebHookInv, BatchHasTimer
    <2>9. TimersPaidFor'
      BY <1>g DEF WebHookInv, TimersPaidFor, Waiting
    <2> QED
      BY <2>3, <2>6, <2>7, <2>8, <2>9 DEF WebHookInv
  <1>6. ASSUME NEW f \in flights, Sent(f) PROVE WebHookInv'
    BY <1>6, <1>b, <1>g DEF Sent
  <1>7. ASSUME NEW f \in flights, SendFails(f) PROVE WebHookInv'
    <2>1. /\ tasks' \in {tasks, tasks \cup {TaskOf(f)}}
          /\ UNCHANGED <<local, mirror, writer, batch, size, timer, due, writes>>
      BY <1>7 DEF SendFails
    <2>2. f \in Flights /\ DOMAIN f.updates \subseteq Paths
      BY <1>b, BatchShape DEF Flights
    <2>3. CASE /\ f.tries + 1 < MaxTries
               /\ flights' = (flights \ {f}) \cup {[f EXCEPT !.tries = @ + 1]}
               /\ UNCHANGED <<flushing, disturbed>>
      <3>1. f.tries + 1 \in 0 .. MaxTries - 1
        BY <1>c, <2>2, <2>3 DEF Flights
      <3>2. PICK g : g = [f EXCEPT !.tries = @ + 1]
        OBVIOUS
      <3>3. g \in Flights /\ g.updates = f.updates /\ g.sync = f.sync
        BY <2>2, <3>1, <3>2 DEF Flights
      <3> QED
        BY <1>b, <1>g, <2>1, <2>3, <3>2, <3>3
    <2>4. CASE /\ flights' = flights \ {f}
               /\ flushing' = (flushing /\ ~f.sync)
               /\ disturbed' = disturbed \cup DOMAIN f.updates
      BY <1>b, <1>g, <2>1, <2>2, <2>4
    <2> QED
      BY <1>7, <2>3, <2>4 DEF SendFails
  (* The receiver works on the operation of task t that is about path p. *)
  <1>h. ASSUME NEW t \in tasks, NEW p \in DOMAIN t.updates, Process(t, p) \/ Skip(t, p)
        PROVE  WebHookInv'
    <2>1. t \in Tasks /\ p \in Paths /\ DOMAIN t.updates \subseteq Paths
          /\ t.updates \in [DOMAIN t.updates -> Updates] /\ t.updates[p] \in Updates
      <3>1. t \in Tasks /\ t.updates \in Batches
        BY <1>b DEF Tasks
      <3> QED
        BY <3>1, BatchShape
    <2>2. /\ tasks' = DoneWith(t, p)
          /\ UNCHANGED <<local, writer, batch, size, timer, due, flights, flushing, writes>>
          /\ \/ /\ disturbed' = disturbed
                /\ mirror' = IF t.updates[p].op = "write" THEN [mirror EXCEPT ![p] = t.updates[p].id]
                             ELSE mirror
             \/ disturbed' = disturbed \cup {p} /\ mirror' = mirror
      BY <1>h DEF Process, Skip
    <2>3. PICK z : z = [t EXCEPT !.updates = Without(t.updates, p)]
      OBVIOUS
    <2>4. /\ z \in Tasks /\ DOMAIN z.updates = DOMAIN t.updates \ {p}
          /\ \A q \in DOMAIN z.updates : z.updates[q] = t.updates[q]
      <3>1. Without(t.updates, p) \in [DOMAIN t.updates \ {p} -> Updates]
        BY <2>1 DEF Without
      <3>2. Without(t.updates, p) \in Batches
        BY <2>1, <3>1, BatchShape
      <3> QED
        BY <2>1, <2>3, <3>1, <3>2 DEF Tasks, Without
    <2>5. tasks' = (tasks \ {t}) \cup (IF DOMAIN t.updates = {p} THEN {} ELSE {z})
      BY <2>2, <2>3 DEF DoneWith
    <2>6. tasks' \subseteq Tasks
      BY <1>b, <2>4, <2>5
    <2>7. mirror' \in [Paths -> 0 .. MaxWrites] /\ disturbed' \subseteq Paths
          /\ \A q \in Paths : q # p => mirror'[q] = mirror[q]
      BY <1>b, <1>c, <2>1, <2>2 DEF Updates
    <2>8. WebHookTypeOK' /\ OneFlush'
      <3>1. WebHookTypeOK'
        BY <1>a, <2>2, <2>6, <2>7 DEF WebHookTypeOK, Tasks
      <3> QED
        BY <2>2, <3>1 DEF WebHookInv, OneFlush
    <2>9. BatchHasTimer' /\ TimersPaidFor'
      BY <2>2 DEF WebHookInv, BatchHasTimer, TimersPaidFor, Waiting
    <2>10. \A q \in Paths : \A h \in UnderWay' : q \in DOMAIN h.updates =>
              \E k \in UnderWay : q \in DOMAIN k.updates /\ k.updates[q] = h.updates[q]
      BY <2>2, <2>4, <2>5 DEF UnderWay
    <2>11. \A q \in Paths : q # p => \A k \in UnderWay : q \in DOMAIN k.updates =>
              \E h \in UnderWay' : q \in DOMAIN h.updates
      BY <2>2, <2>4, <2>5 DEF UnderWay
    <2>12. LatestTraced'
      <3> SUFFICES ASSUME NEW q \in Paths, q \notin disturbed' PROVE TracedIn(writer, batch, q)'
        BY DEF LatestTraced
      <3>1. TracedIn(writer, batch, q)
        BY <2>2 DEF WebHookInv, LatestTraced
      <3>2. /\ UpdatersOf(writer, q)' = UpdatersOf(writer, q)
            /\ local' = local /\ batch' = batch /\ writer' = writer
        BY <2>2 DEF UpdatersOf
      <3>3. UpdatersOf(writer, q) = {} /\ q \notin DOMAIN batch =>
               \A h \in UnderWay' : q \in DOMAIN h.updates => Fits(h.updates[q], q)
        BY <2>10, <3>1 DEF TracedIn
      <3>4. ASSUME UpdatersOf(writer, q) = {}, q \notin DOMAIN batch,
                   \A h \in UnderWay' : q \notin DOMAIN h.updates
            PROVE  local[q] = 0 \/ mirror'[q] = local[q]
        <4>1. CASE q # p
          BY <2>7, <2>11, <3>1, <3>4, <4>1 DEF TracedIn
        <4>2. CASE q = p
          <5>1. Fits(t.updates[p], p)
            BY <3>1, <3>4, <4>2 DEF TracedIn, UnderWay
          <5>2. mirror' = IF t.updates[p].op = "write" THEN [mirror EXCEPT ![p] = t.updates[p].id]
                          ELSE mirror
            BY <2>2, <4>2
          <5> QED
            BY <1>b, <2>1, <4>2, <5>1, <5>2 DEF Fits
        <4> QED
          BY <4>1, <4>2
      <3> QED
        BY <3>1, <3>2, <3>3, <3>4 DEF TracedIn, Fits
    <2> QED
      BY <2>8, <2>9, <2>12 DEF WebHookInv
  <1>8. CASE UNCHANGED webHookVars
    BY <1>8 DEF webHookVars, WebHookInv, WebHookTypeOK, BatchHasTimer, LatestTraced, TracedIn, UpdatersOf, Fits,
                OneFlush, TimersPaidFor, Waiting, UnderWay
  <1> QED
    BY <1>1, <1>2, <1>3, <1>4, <1>5, <1>6, <1>7, <1>h, <1>8 DEF WebHookNext

(* Whatever number of threads write and delete files while timers fire,    *)
(* batches fill, flush holds the lock, sending fails and the receiver's    *)
(* tasks interleave: no update stays in the batch without a timer, and the *)
(* last content of a path is applied in the end, unless two batches with   *)
(* the path were under way at once, one was given up after its last        *)
(* attempt or the receiver skipped an update of it (batched_web_hook.py,   *)
(* event_webhook.py).                                                      *)
THEOREM WebHooksCorrect == WebHookSpec => []WebHookTypeOK /\ []UpdatesArrive
  <1>1. WebHookInit => WebHookInv
    <2> SUFFICES ASSUME WebHookInit PROVE WebHookInv
      OBVIOUS
    <2>1. WebHookTypeOK
      <3>1. local \in [Paths -> 0 .. writes] /\ mirror \in [Paths -> 0 .. MaxWrites] /\ writes \in 0 .. MaxWrites
            /\ due \in 0 .. MaxWrites
        BY WebHookAssumption DEF WebHookInit
      <3>2. size = SizeOf(batch) /\ size < SizeLimit /\ batch \in Batches
        BY SizeOfEmpty, BatchShape, WebHookAssumption DEF WebHookInit
      <3>3. writer \in [Writers -> WriterType]
        BY DEF WebHookInit, WriterType
      <3>4. flushing <=> \E f \in flights : f.sync
        BY DEF WebHookInit
      <3> QED
        BY <3>1, <3>2, <3>3, <3>4 DEF WebHookInit, WebHookTypeOK
    <2>2. BatchHasTimer /\ OneFlush
      BY DEF WebHookInit, BatchHasTimer, OneFlush
    <2>3. LatestTraced
      <3>1. \A p : UpdatersOf(writer, p) = {}
        BY DEF WebHookInit, UpdatersOf
      <3> QED
        BY <3>1, BatchShape DEF WebHookInit, LatestTraced, TracedIn, UnderWay
    <2>4. TimersPaidFor
      <3>1. Waiting = {} /\ Cardinality(Waiting) = 0
        <4>1. Waiting = {}
          BY DEF WebHookInit, Waiting
        <4> QED
          BY <4>1, FS_EmptySet
      <3> QED
        BY <3>1 DEF WebHookInit, TimersPaidFor
    <2> QED
      BY <2>1, <2>2, <2>3, <2>4 DEF WebHookInv
  <1>2. WebHookInv /\ [WebHookNext]_webHookVars => WebHookInv'
    BY WebHookInvStep
  <1>3. WebHookInv => WebHookTypeOK /\ UpdatesArrive
    BY DEF WebHookInv, UpdatesArrive, MirrorConverges, LatestTraced, TracedIn, UpdatersOf
  <1> QED
    BY <1>1, <1>2, <1>3, PTL DEF WebHookSpec

-----------------------------------------------------------------------------
(* Selections in order.                                                   *)

(* The rank in a finite set counts its members one after another. *)
LEMMA RankGrows ==
    ASSUME NEW K, K \subseteq Nat, IsFiniteSet(K)
    PROVE  /\ Cardinality(K) \in Nat
           /\ \A i \in K : Rank(K, i) \in 1 .. Cardinality(K)
           /\ \A i, j \in K : i < j => Rank(K, i) < Rank(K, j)
  <1> DEFINE B(i) == {j \in K : j <= i}
  <1>1. \A i \in K : B(i) \in SUBSET K /\ i \in B(i)
    OBVIOUS
  <1>2. \A i \in K : IsFiniteSet(B(i)) /\ Cardinality(B(i)) <= Cardinality(K)
    BY <1>1, FS_Subset
  <1>3. \A i \in K : Cardinality(B(i)) \in Nat /\ Cardinality(B(i)) # 0
    BY <1>1, <1>2, FS_CardinalityType, FS_EmptySet
  <1>4. Cardinality(K) \in Nat
    BY FS_CardinalityType
  <1>5. ASSUME NEW i \in K, NEW j \in K, i < j
        PROVE  Cardinality(B(i)) < Cardinality(B(j))
    <2>a. i \in Nat /\ j \in Nat /\ \A k \in K : k \in Nat
      OBVIOUS
    <2>b. j \in B(j) /\ j \notin B(i)
      BY <1>5, <2>a
    <2>c. \A k \in B(i) : k \in B(j)
      BY <1>5, <2>a
    <2>1. B(i) \in SUBSET B(j) /\ B(i) # B(j)
      BY <2>b, <2>c
    <2>2. Cardinality(B(i)) <= Cardinality(B(j)) /\ Cardinality(B(i)) # Cardinality(B(j))
      BY <1>2, <2>1, FS_Subset
    <2> QED
      BY <1>3, <2>2
  <1> QED
    BY <1>2, <1>3, <1>4, <1>5 DEF Rank

LEMMA EveryRank ==
    ASSUME NEW K, K \subseteq Nat, IsFiniteSet(K), NEW n \in 1 .. Cardinality(K)
    PROVE  \E i \in K : Rank(K, i) = n
  <1> DEFINE f == [i \in K |-> Rank(K, i)]
             N == 1 .. Cardinality(K)
  <1>1. /\ Cardinality(K) \in Nat
        /\ \A i \in K : Rank(K, i) \in N
        /\ \A i, j \in K : i < j => Rank(K, i) < Rank(K, j)
    BY RankGrows
  <1>2. f \in [K -> N]
    BY <1>1
  <1>3. ASSUME NEW i \in K, NEW j \in K, f[i] = f[j]
        PROVE  i = j
    BY <1>1, <1>3
  <1>4. f \in Injection(K, N)
    BY <1>2, <1>3 DEF Injection, IsInjective
  <1>5. IsFiniteSet(N) /\ Cardinality(N) = Cardinality(K)
    BY <1>1, FS_Interval
  <1>6. f \in Surjection(K, N)
    BY <1>4, <1>5, FS_Injection
  <1>7. \E i \in K : f[i] = n
    BY <1>6 DEF Surjection
  <1> QED
    BY <1>7

(* A finite set of places in order: increasing, and all of them. *)
LEMMA OrderOf ==
    ASSUME NEW K, K \subseteq Nat, IsFiniteSet(K)
    PROVE  /\ InOrder(K) \in Seq(K) /\ Len(InOrder(K)) = Cardinality(K)
           /\ \A m, n \in 1 .. Cardinality(K) : m < n => InOrder(K)[m] < InOrder(K)[n]
           /\ \A i \in K : \E n \in 1 .. Cardinality(K) : InOrder(K)[n] = i
  <1> DEFINE s == InOrder(K)
             N == 1 .. Cardinality(K)
  <1>1. /\ Cardinality(K) \in Nat
        /\ \A i \in K : Rank(K, i) \in N
        /\ \A i, j \in K : i < j => Rank(K, i) < Rank(K, j)
    BY RankGrows
  <1>2. \A n \in N : s[n] = CHOOSE i \in K : Rank(K, i) = n
    BY DEF InOrder
  <1>3. \A n \in N : s[n] \in K /\ Rank(K, s[n]) = n
    <2> TAKE n \in N
    <2>1. \E i \in K : Rank(K, i) = n
      BY EveryRank
    <2> QED
      BY <1>2, <2>1
  <1>4. s \in [N -> K]
    BY <1>3 DEF InOrder
  <1>5. s \in Seq(K)
    BY <1>1, <1>4, SeqDef
  <1>6. Len(s) = Cardinality(K)
    BY <1>1, <1>4, <1>5, LenProperties
  <1> HIDE DEF s
  <1>7. ASSUME NEW m \in N, NEW n \in N, m < n
        PROVE  s[m] < s[n]
    <2>1. s[m] \in K /\ s[n] \in K /\ Rank(K, s[m]) = m /\ Rank(K, s[n]) = n
      BY <1>3
    <2>2. ~(s[n] < s[m]) /\ s[n] # s[m]
      <3>1. s[n] < s[m] => n < m
        BY <1>1, <2>1
      <3> QED
        BY <1>7, <2>1, <3>1
    <2>3. s[m] \in Nat /\ s[n] \in Nat
      BY <2>1
    <2> QED
      BY <2>2, <2>3
  <1>8. ASSUME NEW i \in K
        PROVE  \E n \in N : s[n] = i
    <2> DEFINE n == Rank(K, i)
    <2>1. n \in N
      BY <1>1
    <2>2. s[n] \in K /\ Rank(K, s[n]) = n /\ s[n] \in Nat /\ i \in Nat
      BY <1>3, <2>1
    <2>3. (s[n] < i => Rank(K, s[n]) < Rank(K, i)) /\ (i < s[n] => Rank(K, i) < Rank(K, s[n]))
      BY <1>1, <2>2
    <2>a. Rank(K, i) = n /\ n \in Nat
      BY <2>1
    <2> HIDE DEF n
    <2>4. s[n] = i
      BY <2>2, <2>3, <2>a
    <2> QED
      BY <2>1, <2>4
  <1> QED
    BY <1>5, <1>6, <1>7, <1>8 DEF s

(* A finite set of numbers has a least and a greatest member. *)
LEMMA MinMax ==
    ASSUME NEW K, K \subseteq Nat, IsFiniteSet(K), K # {}
    PROVE  /\ Min(K) \in K /\ \A j \in K : Min(K) <= j
           /\ Max(K) \in K /\ \A j \in K : j <= Max(K)
  <1> DEFINE s == InOrder(K)
             c == Cardinality(K)
  <1>1. /\ s \in Seq(K) /\ Len(s) = c
        /\ \A m, n \in 1 .. c : m < n => s[m] < s[n]
        /\ \A i \in K : \E n \in 1 .. c : s[n] = i
    BY OrderOf
  <1>2. c \in Nat /\ c # 0
    BY FS_CardinalityType, FS_EmptySet
  <1>3. \A n \in 1 .. c : s[n] \in K /\ s[n] \in Nat
    BY <1>1, ElementOfSeq
  <1>4. \A j \in K : s[1] <= j /\ j <= s[c]
    <2> TAKE j \in K
    <2>1. PICK n \in 1 .. c : s[n] = j
      BY <1>1
    <2>2. 1 \in 1 .. c /\ c \in 1 .. c /\ (1 < n \/ 1 = n) /\ (n < c \/ n = c)
      BY <1>2
    <2>3. (1 < n => s[1] < s[n]) /\ (n < c => s[n] < s[c])
      BY <1>1, <2>2
    <2>4. s[1] \in Nat /\ s[n] \in Nat /\ s[c] \in Nat
      BY <1>3, <2>2
    <2> QED
      BY <2>1, <2>2, <2>3, <2>4
  <1>5. s[1] \in K /\ s[c] \in K
    BY <1>2, <1>3
  <1> HIDE DEF s, c
  <1>6. \E x \in K : \A y \in K : x =< y
    BY <1>4, <1>5
  <1>7. \E x \in K : \A y \in K : x >= y
    <2>1. \A y \in K : s[c] >= y
      BY <1>4, <1>5
    <2> QED
      BY <1>5, <2>1
  <1>8. Min(K) \in K /\ \A j \in K : Min(K) =< j
    BY <1>6 DEF Min
  <1>9. Max(K) \in K /\ \A j \in K : Max(K) >= j
    BY <1>7 DEF Max
  <1>10. \A j \in K : j <= Max(K)
    BY <1>9
  <1> QED
    BY <1>8, <1>9, <1>10

(* Every place is at its rank. *)
LEMMA AtRank ==
    ASSUME NEW K, K \subseteq Nat, IsFiniteSet(K), NEW i \in K
    PROVE  InOrder(K)[Rank(K, i)] = i
  <1> DEFINE n == Rank(K, i)
             x == CHOOSE j \in K : Rank(K, j) = n
  <1>1. /\ n \in 1 .. Cardinality(K)
        /\ \A j \in K : j < i => Rank(K, j) < n
        /\ \A j \in K : i < j => n < Rank(K, j)
    BY RankGrows
  <1>2. x \in K /\ Rank(K, x) = n
    OBVIOUS
  <1>3. InOrder(K)[n] = x
    BY <1>1 DEF InOrder
  <1>4. n \in Int /\ x \in Nat /\ i \in Nat
    <2>1. Cardinality(K) \in Nat
      BY FS_CardinalityType
    <2> HIDE DEF n, x
    <2> QED
      BY <1>1, <1>2, <2>1
  <1> HIDE DEF n, x
  <1>5. x = i
    BY <1>1, <1>2, <1>4
  <1> QED
    BY <1>3, <1>5 DEF n

(* One place more, behind all the others, comes last. *)
LEMMA OrderExtended ==
    ASSUME NEW n \in Nat, NEW K, K \subseteq 1 .. n
    PROVE  /\ Cardinality(K) \in Nat /\ Cardinality(K \cup {n + 1}) = Cardinality(K) + 1
           /\ \A m \in 1 .. Cardinality(K) : InOrder(K \cup {n + 1})[m] = InOrder(K)[m]
           /\ InOrder(K \cup {n + 1})[Cardinality(K) + 1] = n + 1
  <1> DEFINE L == K \cup {n + 1}
             c == Cardinality(K)
  <1>1. /\ K \in SUBSET (1 .. n) /\ K \subseteq Nat /\ IsFiniteSet(1 .. n)
        /\ L \subseteq Nat /\ n + 1 \notin K
        /\ \A i \in K : i <= n /\ i \in Nat /\ i <= n + 1 /\ ~(n + 1 <= i)
    <2>1. \A i \in K : i \in 1 .. n
      OBVIOUS
    <2>2. \A i \in K : i <= n /\ i \in Nat /\ i <= n + 1 /\ ~(n + 1 <= i)
      BY <2>1
    <2>3. n + 1 \in Nat /\ n + 1 \notin K
      BY <2>2
    <2>4. IsFiniteSet(1 .. n)
      BY FS_Interval
    <2> QED
      BY <2>2, <2>3, <2>4
  <1>2. IsFiniteSet(K) /\ c \in Nat
    BY <1>1, FS_Subset, FS_CardinalityType
  <1>3. IsFiniteSet(L) /\ Cardinality(L) = c + 1
    BY <1>1, <1>2, FS_AddElement
  <1>4. ASSUME NEW i \in K PROVE Rank(L, i) = Rank(K, i)
    <2>1. {j \in L : j <= i} = {j \in K : j <= i}
      BY <1>1
    <2> QED
      BY <2>1 DEF Rank
  <1>5. Rank(L, n + 1) = c + 1
    <2>1. \A j \in L : j <= n + 1
      BY <1>1
    <2>2. {j \in L : j <= n + 1} = L
      BY <2>1
    <2> QED
      BY <1>3, <2>2 DEF Rank
  <1>6. \A i \in L : InOrder(L)[Rank(L, i)] = i
    BY <1>1, <1>3, AtRank
  <1>7. ASSUME NEW m \in 1 .. c PROVE InOrder(L)[m] = InOrder(K)[m]
    <2>1. PICK i \in K : Rank(K, i) = m
      BY <1>1, <1>2, EveryRank
    <2>2. InOrder(K)[m] = i
      BY <1>1, <1>2, <2>1, AtRank
    <2>3. InOrder(L)[m] = i
      BY <1>4, <1>6, <2>1
    <2> QED
      BY <2>2, <2>3
  <1>8. InOrder(L)[c + 1] = n + 1
    BY <1>5, <1>6
  <1> QED
    BY <1>2, <1>3, <1>7, <1>8

(* What is picked from a list, and from one with an element more. *)
LEMMA Picked ==
    ASSUME NEW S, NEW s \in Seq(S), NEW K, K \subseteq 1 .. Len(s)
    PROVE  Pick(s, K) \in Seq(S) /\ Len(Pick(s, K)) = Cardinality(K)
  <1>1. Len(s) \in Nat /\ \A i \in 1 .. Len(s) : s[i] \in S
    BY ElementOfSeq
  <1>2. K \in SUBSET (1 .. Len(s)) /\ K \subseteq Nat /\ IsFiniteSet(1 .. Len(s))
    BY <1>1, FS_Interval
  <1>3. IsFiniteSet(K) /\ Cardinality(K) \in Nat
    BY <1>2, FS_Subset, FS_CardinalityType
  <1>4. InOrder(K) \in Seq(K) /\ Len(InOrder(K)) = Cardinality(K)
    BY <1>2, <1>3, OrderOf
  <1>5. \A m \in 1 .. Cardinality(K) : InOrder(K)[m] \in K
    BY <1>4, ElementOfSeq
  <1>6. \A m \in 1 .. Cardinality(K) : s[InOrder(K)[m]] \in S
    BY <1>1, <1>5
  <1>7. Pick(s, K) \in [1 .. Cardinality(K) -> S]
    BY <1>6 DEF Pick
  <1>8. Pick(s, K) \in Seq(S)
    BY <1>3, <1>7, SeqDef
  <1> QED
    BY <1>3, <1>7, <1>8, LenProperties

LEMMA PickedFromMore ==
    ASSUME NEW S, NEW s \in Seq(S), NEW x \in S, NEW K, K \subseteq 1 .. Len(s)
    PROVE  /\ Pick(Append(s, x), K) = Pick(s, K)
           /\ Pick(Append(s, x), K \cup {Len(s) + 1}) = Append(Pick(s, K), x)
  <1> DEFINE n == Len(s)
             t == Append(s, x)
             L == K \cup {n + 1}
             c == Cardinality(K)
  <1>1. /\ n \in Nat /\ t \in Seq(S) /\ Len(t) = n + 1
        /\ \A i \in 1 .. n : t[i] = s[i]
        /\ t[n + 1] = x
    BY AppendProperties
  <1>2. /\ c \in Nat /\ Cardinality(L) = c + 1
        /\ \A m \in 1 .. c : InOrder(L)[m] = InOrder(K)[m]
        /\ InOrder(L)[c + 1] = n + 1
    BY <1>1, OrderExtended
  <1>3. K \subseteq 1 .. Len(t) /\ L \subseteq 1 .. Len(t)
    <2>1. 1 .. n \subseteq 1 .. n + 1 /\ n + 1 \in 1 .. n + 1
      BY <1>1
    <2>2. K \subseteq 1 .. n + 1 /\ L \subseteq 1 .. n + 1
      BY <2>1
    <2> QED
      BY <1>1, <2>2
  <1>4. /\ Pick(s, K) \in Seq(S) /\ Len(Pick(s, K)) = c
        /\ Pick(t, K) \in Seq(S) /\ Len(Pick(t, K)) = c
        /\ Pick(t, L) \in Seq(S) /\ Len(Pick(t, L)) = c + 1
    BY <1>1, <1>2, <1>3, Picked
  <1>5. \A m \in 1 .. c : InOrder(K)[m] \in 1 .. n
    <2>1. K \in SUBSET (1 .. n) /\ K \subseteq Nat /\ IsFiniteSet(1 .. n)
      BY <1>1, FS_Interval
    <2>2. InOrder(K) \in Seq(K) /\ Len(InOrder(K)) = c
      BY <2>1, FS_Subset, OrderOf
    <2> QED
      BY <2>1, <2>2, ElementOfSeq
  <1>6. \A m \in 1 .. c : Pick(t, K)[m] = Pick(s, K)[m] /\ Pick(t, L)[m] = Pick(s, K)[m]
    <2> TAKE m \in 1 .. c
    <2>1. m \in 1 .. c + 1
      BY <1>2
    <2>2. t[InOrder(K)[m]] = s[InOrder(K)[m]]
      BY <1>1, <1>5
    <2>3. /\ Pick(t, K)[m] = t[InOrder(K)[m]] /\ Pick(s, K)[m] = s[InOrder(K)[m]]
          /\ Pick(t, L)[m] = t[InOrder(L)[m]]
      BY <1>2, <2>1 DEF Pick
    <2> QED
      BY <1>2, <2>2, <2>3
  <1>7. Pick(t, L)[c + 1] = x
    <2>1. c + 1 \in 1 .. c + 1
      BY <1>2
    <2> QED
      BY <1>1, <1>2, <2>1 DEF Pick
  <1> HIDE DEF n, t, L, c
  <1>8. Pick(t, K) = Pick(s, K)
    BY <1>4, <1>6, SeqEqual
  <1>9. Pick(t, L) = Append(Pick(s, K), x)
    <2> DEFINE u == Append(Pick(s, K), x)
    <2>1. /\ u \in Seq(S) /\ Len(u) = c + 1 /\ u[c + 1] = x
          /\ \A m \in 1 .. c : u[m] = Pick(s, K)[m]
      BY <1>4, AppendProperties
    <2> HIDE DEF u
    <2>2. \A m \in 1 .. c + 1 : Pick(t, L)[m] = u[m]
      <3> TAKE m \in 1 .. c + 1
      <3>1. m = c + 1 \/ m \in 1 .. c
        BY <1>2
      <3> QED
        BY <1>6, <1>7, <2>1, <3>1
    <2>3. Pick(t, L) = u
      BY <1>4, <2>1, <2>2, SeqEqual
    <2> QED
      BY <2>3 DEF u
  <1> QED
    BY <1>8, <1>9 DEF n, t, L

-----------------------------------------------------------------------------
(* Condensing: what is needed stays, and a condensation settles.           *)

LEMMA MinOfTwo ==
    ASSUME NEW a \in Nat, NEW b \in Nat
    PROVE  Min({a, b}) \in {a, b} /\ Min({a, b}) <= a /\ Min({a, b}) <= b
  <1>1. \E x \in {a, b} : \A y \in {a, b} : x =< y
    OBVIOUS
  <1> QED
    BY <1>1 DEF Min

(* t is s with e after its first elements. *)
Extends(t, s, at, e) ==
    /\ Len(t) = Len(s) + 1
    /\ \A i \in 1 .. Len(s) + 1 : t[i] =
          IF i <= at THEN s[i] ELSE IF i = at + 1 THEN e ELSE s[i - 1]

LEMMA Inserted ==
    ASSUME NEW S, NEW s \in Seq(S), NEW at \in 0 .. Len(s), NEW e \in S
    PROVE  InsertAt(s, at + 1, e) \in Seq(S) /\ Extends(InsertAt(s, at + 1, e), s, at, e)
  <1> DEFINE a == SubSeq(s, 1, at)
             b == SubSeq(s, at + 1, Len(s))
             ae == a \o <<e>>
             t == ae \o b
  <1>1. Len(s) \in Nat /\ at \in Nat /\ at <= Len(s) /\ \A i \in 1 .. Len(s) : s[i] \in S
    BY LenProperties, ElementOfSeq
  <1>2. /\ a \in Seq(S) /\ Len(a) = at
        /\ \A i \in 1 .. at : a[i] = s[i]
    <2>1. \A i \in 1 .. at : s[i] \in S
      BY <1>1
    <2>2. /\ a \in Seq(S) /\ Len(a) = IF 1 <= at THEN at - 1 + 1 ELSE 0
          /\ \A i \in 1 .. at - 1 + 1 : a[i] = s[1 + i - 1]
      BY <1>1, <2>1, SubSeqProperties
    <2> HIDE DEF a
    <2> QED
      BY <1>1, <2>2
  <1>3. /\ b \in Seq(S) /\ Len(b) = Len(s) - at
        /\ \A i \in 1 .. Len(s) - at : b[i] = s[at + i]
    <2>1. \A i \in at + 1 .. Len(s) : s[i] \in S
      BY <1>1
    <2>2. /\ b \in Seq(S) /\ Len(b) = IF at + 1 <= Len(s) THEN Len(s) - (at + 1) + 1 ELSE 0
          /\ \A i \in 1 .. Len(s) - (at + 1) + 1 : b[i] = s[at + 1 + i - 1]
      BY <1>1, <2>1, SubSeqProperties
    <2> HIDE DEF b
    <2>3. \A i \in 1 .. Len(s) - at : i \in 1 .. Len(s) - (at + 1) + 1 /\ at + 1 + i - 1 = at + i
      BY <1>1
    <2> QED
      BY <1>1, <2>2, <2>3
  <1>4. <<e>> \in Seq(S) /\ Len(<<e>>) = 1 /\ <<e>>[1] = e
    OBVIOUS
  <1> HIDE DEF a, b
  <1>5. /\ ae \in Seq(S) /\ Len(ae) = at + 1
        /\ \A i \in 1 .. at + 1 : ae[i] = IF i <= at THEN s[i] ELSE e
    <2>1. /\ ae \in Seq(S) /\ Len(ae) = Len(a) + Len(<<e>>)
          /\ \A i \in 1 .. Len(a) + Len(<<e>>) :
                ae[i] = IF i <= Len(a) THEN a[i] ELSE <<e>>[i - Len(a)]
      BY <1>2, <1>4, ConcatProperties
    <2>2. \A i \in 1 .. at + 1 : i <= at \/ i - at = 1
      BY <1>1
    <2> HIDE DEF ae
    <2> QED
      BY <1>1, <1>2, <1>4, <2>1, <2>2
  <1> HIDE DEF ae
  <1>6. /\ t \in Seq(S) /\ Len(t) = Len(s) + 1
        /\ \A i \in 1 .. Len(s) + 1 : t[i] = IF i <= at + 1 THEN ae[i] ELSE s[i - 1]
    <2>1. /\ t \in Seq(S) /\ Len(t) = Len(ae) + Len(b)
          /\ \A i \in 1 .. Len(ae) + Len(b) :
                t[i] = IF i <= Len(ae) THEN ae[i] ELSE b[i - Len(ae)]
      BY <1>3, <1>5, ConcatProperties
    <2>2. \A i \in 1 .. Len(s) + 1 : i <= at + 1 \/
             (i - (at + 1) \in 1 .. Len(s) - at /\ at + (i - (at + 1)) = i - 1)
      BY <1>1
    <2>3. \A i \in 1 .. Len(s) + 1 : i > at + 1 => b[i - (at + 1)] = s[i - 1]
      BY <1>1, <1>3, <2>2
    <2> HIDE DEF t
    <2> QED
      BY <1>1, <1>3, <1>5, <2>1, <2>3
  <1>7. InsertAt(s, at + 1, e) = t
    <2>1. (at + 1) - 1 = at
      BY <1>1
    <2>2. InsertAt(s, at + 1, e) = SubSeq(s, 1, (at + 1) - 1) \o <<e>> \o SubSeq(s, at + 1, Len(s))
      BY DEF InsertAt
    <2>3. SubSeq(s, 1, (at + 1) - 1) = a /\ SubSeq(s, at + 1, Len(s)) = b
      BY <2>1 DEF a, b
    <2>4. InsertAt(s, at + 1, e) = a \o <<e>> \o b
      BY <2>2, <2>3
    <2> QED
      BY <2>4 DEF ae
  <1> HIDE DEF t
  <1> QED
    BY <1>1, <1>5, <1>6, <1>7 DEF Extends

LEMMA KeptFinite ==
    ASSUME NEW h, Len(h) \in Nat
    PROVE  /\ Kept(h) \subseteq 1 .. Len(h) /\ Kept(h) \subseteq Nat
           /\ IsFiniteSet(Kept(h)) /\ Cardinality(Kept(h)) \in Nat
  <1>1. Kept(h) \in SUBSET (1 .. Len(h)) /\ Kept(h) \subseteq Nat
    BY DEF Kept
  <1>2. IsFiniteSet(1 .. Len(h))
    BY FS_Interval
  <1> QED
    BY <1>1, <1>2, FS_Subset, FS_CardinalityType

(* View.from_events: the events that are kept, in order, and the summary. *)
LEMMA ViewOf ==
    ASSUME NEW h, Len(h) \in Nat
    PROVE  /\ View(h) \in Seq(Nat)
           /\ Len(View(h)) = Cardinality(Kept(h)) + IF HasSummary(h) THEN 1 ELSE 0
           /\ \A i \in 1 .. Len(View(h)) : View(h)[i] \in Kept(h) \/ View(h)[i] = Summary
           /\ \A k \in Kept(h) : \E i \in 1 .. Len(View(h)) : View(h)[i] = k
           /\ \A i, j \in 1 .. Len(View(h)) :
                 i < j /\ View(h)[j] # Summary => View(h)[i] < View(h)[j]
           /\ \A i \in 1 .. Len(View(h)) : View(h)[i] = Summary => i <= KeepFirst + 1
  <1> DEFINE K == Kept(h)
             s == InOrder(K)
             c == Cardinality(K)
             at == Min({KeepFirst, Len(s)})
             t == InsertAt(s, at + 1, Summary)
  <1>1. /\ K \subseteq 1 .. Len(h) /\ K \subseteq Nat
        /\ IsFiniteSet(K) /\ c \in Nat
    BY KeptFinite
  <1>2. /\ s \in Seq(K) /\ Len(s) = c
        /\ \A m, n \in 1 .. c : m < n => s[m] < s[n]
        /\ \A i \in K : \E n \in 1 .. c : s[n] = i
    BY <1>1, OrderOf
  <1>3. s \in Seq(Nat) /\ \A i \in 1 .. c : s[i] \in K /\ s[i] \in Nat /\ s[i] > 0
    <2>1. \A i \in K : i \in Nat /\ i > 0
      BY <1>1
    <2>2. \A i \in 1 .. c : s[i] \in K
      BY <1>2, ElementOfSeq
    <2>3. s \in Seq(Nat)
      BY <1>1, <1>2, SeqMonotonic
    <2> QED
      BY <2>1, <2>2, <2>3
  <1>4. at \in 0 .. c /\ at <= KeepFirst /\ at \in Nat /\ KeepFirst \in Nat
    <2>1. KeepFirst \in Nat /\ Len(s) \in Nat
      BY <1>1, <1>2, CondensingAssumption
    <2> HIDE DEF s
    <2>2. at \in {KeepFirst, Len(s)} /\ at <= KeepFirst /\ at <= Len(s)
      BY <2>1, MinOfTwo
    <2> HIDE DEF at
    <2> QED
      BY <1>2, <2>1, <2>2
  <1> HIDE DEF at, s, K
  <1>5. /\ t \in Seq(Nat) /\ Len(t) = c + 1
        /\ \A i \in 1 .. c + 1 : t[i] =
              IF i <= at THEN s[i] ELSE IF i = at + 1 THEN 0 ELSE s[i - 1]
    <2>1. Summary \in Nat /\ Summary = 0 /\ at \in 0 .. Len(s) /\ s \in Seq(Nat) /\ Len(s) = c
      BY <1>2, <1>3, <1>4 DEF Summary
    <2>2. t = InsertAt(s, at + 1, Summary)
      OBVIOUS
    <2> HIDE DEF t
    <2>3. t \in Seq(Nat) /\ Extends(t, s, at, Summary)
      BY <2>1, <2>2, Inserted
    <2> QED
      BY <2>1, <2>3 DEF Extends
  <1> HIDE DEF t, c
  <1>6. CASE HasSummary(h)
    <2>1. View(h) = t
      BY <1>6 DEF View, t, at, s, K
    <2>2. \A i \in 1 .. c + 1 : \/ i <= at /\ i \in 1 .. c /\ t[i] = s[i]
                                \/ i = at + 1 /\ t[i] = 0
                                \/ i > at + 1 /\ i - 1 \in 1 .. c /\ t[i] = s[i - 1]
      BY <1>1, <1>4, <1>5
    <2>3. \A i \in 1 .. c + 1 : t[i] \in K \/ t[i] = 0
      BY <1>3, <2>2
    <2>4. \A k \in K : \E i \in 1 .. c + 1 : t[i] = k
      <3> TAKE k \in K
      <3>1. PICK n \in 1 .. c : s[n] = k
        BY <1>2
      <3>2. CASE n <= at
        BY <1>1, <1>5, <3>1, <3>2
      <3>3. CASE n > at
        <4>1. n + 1 \in 1 .. c + 1 /\ ~(n + 1 <= at) /\ n + 1 # at + 1 /\ (n + 1) - 1 = n
          BY <1>1, <1>4, <3>3
        <4>2. t[n + 1] = s[n]
          BY <1>5, <4>1
        <4> QED
          BY <3>1, <4>1, <4>2
      <3> QED
        BY <1>1, <1>4, <3>2, <3>3
    <2>5. ASSUME NEW i \in 1 .. c + 1, NEW j \in 1 .. c + 1, i < j, t[j] # 0
          PROVE  t[i] < t[j]
      <3>1. CASE j <= at
        BY <1>1, <1>2, <1>4, <2>2, <2>5, <3>1
      <3>2. CASE j > at + 1
        <4>1. j - 1 \in 1 .. c /\ t[j] = s[j - 1] /\ s[j - 1] > 0 /\ s[j - 1] \in Nat
          BY <1>1, <1>3, <1>4, <2>2, <3>2
        <4>2. CASE i <= at
          <5>1. i \in 1 .. c /\ t[i] = s[i] /\ i < j - 1
            BY <1>1, <1>4, <2>2, <3>2, <4>2
          <5> QED
            BY <1>2, <4>1, <5>1
        <4>3. CASE i = at + 1
          BY <1>1, <1>4, <2>2, <4>1, <4>3
        <4>4. CASE i > at + 1
          <5>1. i - 1 \in 1 .. c /\ t[i] = s[i - 1] /\ i - 1 < j - 1
            BY <1>1, <1>4, <2>2, <2>5, <4>4
          <5> QED
            BY <1>2, <4>1, <5>1
        <4> QED
          BY <1>1, <1>4, <4>2, <4>3, <4>4
      <3> QED
        BY <1>1, <1>4, <2>2, <2>5, <3>1, <3>2
    <2>6. \A i \in 1 .. c + 1 : t[i] = 0 => i = at + 1
      BY <1>3, <2>2
    <2>7. \A i \in 1 .. c + 1 : t[i] = 0 => i <= KeepFirst + 1
      BY <1>4, <2>6
    <2> QED
      BY <1>5, <1>6, <2>1, <2>3, <2>4, <2>5, <2>7 DEF Summary, K, c
  <1>7. CASE ~HasSummary(h)
    <2>1. View(h) = s
      BY <1>7 DEF View, s, K
    <2>2. Len(s) = c + 0 /\ \A i \in 1 .. c : s[i] # 0
      BY <1>1, <1>2, <1>3
    <2> QED
      BY <1>2, <1>3, <1>7, <2>1, <2>2 DEF Summary, K, c
  <1> QED
    BY <1>6, <1>7

EventType ==
    [kind : {"system", "user", "recall", "observation", "action", "request", "condensation"},
     cause : Nat, forgotten : SUBSET Nat, summary : BOOLEAN]

(* What an event makes a view forget. *)
Forgets(e, i) ==
    IF e.kind = "condensation" THEN e.forgotten \cup {i}
    ELSE IF e.kind = "request" THEN {i} ELSE {}

LEMMA OneMoreForgotten ==
    ASSUME NEW h \in Seq(EventType), NEW e \in EventType
    PROVE  Forgotten(Append(h, e)) = Forgotten(h) \cup Forgets(e, Len(h) + 1)
  <1> DEFINE n == Len(h)
             g == Append(h, e)
  <1>1. n \in Nat /\ Len(g) = n + 1 /\ g[n + 1] = e /\ \A i \in 1 .. n : g[i] = h[i]
    BY LenProperties
  <1>2. \A x : x \in Forgotten(h) <=> \E i \in 1 .. n : x \in Forgets(h[i], i)
    BY DEF Forgotten, Forgets
  <1>3. \A x : x \in Forgotten(g) <=> \E i \in 1 .. Len(g) : x \in Forgets(g[i], i)
    BY DEF Forgotten, Forgets
  <1> HIDE DEF g, n
  <1>4. \A i \in 1 .. n + 1 : i \in 1 .. n \/ i = n + 1
    BY <1>1
  <1>5. n + 1 \in 1 .. n + 1 /\ 1 .. n \subseteq 1 .. n + 1
    BY <1>1
  <1>6. \A x : x \in Forgotten(g) <=> x \in Forgotten(h) \/ x \in Forgets(e, n + 1)
    BY <1>1, <1>2, <1>3, <1>4, <1>5
  <1>7. Forgotten(g) = Forgotten(h) \cup Forgets(e, n + 1)
    BY <1>6
  <1> QED
    BY <1>7 DEF g, n

(* What a condensation leaves: what it does not forget. *)
LEMMA CondensationKeeps ==
    ASSUME NEW h \in Seq(EventType), NEW e \in EventType, e.kind = "condensation"
    PROVE  Kept(Append(h, e)) = Kept(h) \ e.forgotten
  <1>1. Forgotten(Append(h, e)) = Forgotten(h) \cup e.forgotten \cup {Len(h) + 1}
    BY OneMoreForgotten DEF Forgets
  <1>2. Len(h) \in Nat /\ Len(Append(h, e)) = Len(h) + 1
    BY LenProperties
  <1>3. \A i \in 1 .. Len(h) + 1 : i \in 1 .. Len(h) \/ i = Len(h) + 1
    BY <1>2
  <1>4. 1 .. Len(h) \subseteq 1 .. Len(h) + 1 /\ Len(h) + 1 \notin 1 .. Len(h)
    BY <1>2
  <1> QED
    BY <1>1, <1>2, <1>3, <1>4 DEF Kept

(* Half of the size leaves room for the summary. *)
LEMMA HalfSize ==
    /\ MaxSize \div 2 \in Nat /\ KeepFirst \in Nat /\ KeepFirst < MaxSize \div 2
    /\ MaxSize \div 2 + 1 <= MaxSize
  <1>1. MaxSize \in Nat /\ KeepFirst \in Nat /\ KeepFirst < MaxSize \div 2
    BY CondensingAssumption
  <1>2. MaxSize \div 2 \in Int /\ 2 * (MaxSize \div 2) <= MaxSize
    BY <1>1
  <1> QED
    BY <1>1, <1>2

LEMMA ImageBound ==
    ASSUME NEW v, NEW a \in Int, NEW b \in Int, NEW n \in Nat, b - a + 1 <= n
    PROVE  IsFiniteSet({v[i] : i \in a .. b}) /\ Cardinality({v[i] : i \in a .. b}) <= n
  <1> DEFINE T == {v[i] : i \in a .. b}
             f == [i \in a .. b |-> v[i]]
  <1>1. f \in Surjection(a .. b, T)
    BY DEF Surjection
  <1>2. IsFiniteSet(a .. b) /\ Cardinality(a .. b) = IF a > b THEN 0 ELSE b - a + 1
    BY FS_Interval
  <1>3. IsFiniteSet(T) /\ Cardinality(T) <= Cardinality(a .. b)
    BY <1>1, <1>2, FS_Surjection
  <1>4. Cardinality(T) \in Nat
    BY <1>3, FS_CardinalityType
  <1> HIDE DEF T
  <1>5. Cardinality(T) <= n
    BY <1>2, <1>3, <1>4
  <1> QED
    BY <1>3, <1>5 DEF T

LEMMA UnionBound ==
    ASSUME NEW A, NEW B, NEW S, IsFiniteSet(A), IsFiniteSet(B), S \subseteq A \cup B,
           NEW m \in Nat, NEW n \in Nat, Cardinality(A) <= m, Cardinality(B) <= n
    PROVE  IsFiniteSet(S) /\ Cardinality(S) <= m + n
  <1>1. /\ IsFiniteSet(A \cup B)
        /\ Cardinality(A \cup B) = Cardinality(A) + Cardinality(B) - Cardinality(A \cap B)
    BY FS_Union
  <1>2. IsFiniteSet(A \cap B)
    BY FS_Intersection
  <1>3. Cardinality(A) \in Nat /\ Cardinality(B) \in Nat /\ Cardinality(A \cap B) \in Nat
    BY <1>2, FS_CardinalityType
  <1>4. S \in SUBSET (A \cup B)
    OBVIOUS
  <1>5. IsFiniteSet(S) /\ Cardinality(S) <= Cardinality(A \cup B)
    BY <1>1, <1>4, FS_Subset
  <1>6. Cardinality(S) \in Nat
    BY <1>5, FS_CardinalityType
  <1> QED
    BY <1>1, <1>3, <1>5, <1>6

LEMMA RangeOf ==
    ASSUME NEW n \in Nat, NEW S, S \subseteq 0 .. n
    PROVE  S \subseteq AsRange(S) /\ AsRange(S) \subseteq 0 .. n
  <1>1. CASE S = {}
    BY <1>1 DEF AsRange
  <1>2. CASE S # {}
    <2>1. S \in SUBSET (0 .. n) /\ S \subseteq Nat /\ IsFiniteSet(0 .. n)
      BY FS_Interval
    <2>2. IsFiniteSet(S)
      BY <2>1, FS_Subset
    <2>3. /\ Min(S) \in S /\ \A j \in S : Min(S) <= j
          /\ Max(S) \in S /\ \A j \in S : j <= Max(S)
      BY <1>2, <2>1, <2>2, MinMax
    <2>4. Min(S) \in 0 .. n /\ Max(S) \in 0 .. n
      BY <2>3
    <2>5. \A j \in S : j \in Min(S) .. Max(S)
      BY <2>1, <2>3, <2>4
    <2>6. Min(S) .. Max(S) \subseteq 0 .. n
      BY <2>4
    <2> QED
      BY <1>2, <2>5, <2>6 DEF AsRange
  <1> QED
    BY <1>1, <1>2

(* The members of a view. *)
Members(v) == {v[i] : i \in 1 .. Len(v)}

LEMMA ViewMembers ==
    ASSUME NEW h, Len(h) \in Nat
    PROVE  /\ Len(View(h)) \in Nat
           /\ Members(View(h)) \subseteq 0 .. Len(h)
           /\ Kept(h) \subseteq Members(View(h)) /\ Summary \notin Kept(h)
           /\ Members(View(h)) \subseteq Kept(h) \cup {Summary}
  <1> DEFINE v == View(h)
  <1>1. /\ v \in Seq(Nat)
        /\ \A i \in 1 .. Len(v) : v[i] \in Kept(h) \/ v[i] = Summary
        /\ \A k \in Kept(h) : \E i \in 1 .. Len(v) : v[i] = k
    BY ViewOf
  <1>2. Kept(h) \subseteq 1 .. Len(h)
    BY KeptFinite
  <1>3. Len(v) \in Nat
    BY <1>1, LenProperties
  <1> HIDE DEF v
  <1>4. /\ \A x \in Members(v) : x \in Kept(h) \/ x = 0
        /\ Kept(h) \subseteq Members(v)
    BY <1>1 DEF Members, Summary
  <1>5. 0 \notin Kept(h) /\ \A x \in Kept(h) : x \in 0 .. Len(h)
    BY <1>2
  <1>6. 0 \in 0 .. Len(h)
    OBVIOUS
  <1>7. Members(v) \subseteq 0 .. Len(h)
    BY <1>4, <1>5, <1>6
  <1> QED
    BY <1>3, <1>4, <1>5, <1>7 DEF v, Summary

(* The condensers that shorten leave half of the size at most, with the    *)
(* summary.                                                                *)
LEMMA AmortizedLeaves ==
    ASSUME NEW h, Len(h) \in Nat
    PROVE  /\ AmortizedForgets(View(h)) \subseteq 0 .. Len(h)
           /\ Cardinality(Kept(h) \ AmortizedForgets(View(h))) + 1 <= MaxSize
  <1> DEFINE v == View(h)
             M == MaxSize \div 2
             head == HeadOf(v)
             tail == LastOf(v, M - HeadSize(v))
             S == Members(v) \ (head \cup tail)
             f == AmortizedForgets(v)
  <1>1. /\ Len(v) \in Nat /\ Members(v) \subseteq 0 .. Len(h)
        /\ Kept(h) \subseteq Members(v)
    BY ViewMembers
  <1>2. M \in Nat /\ KeepFirst \in Nat /\ KeepFirst < M /\ M + 1 <= MaxSize /\ MaxSize \in Nat
    BY HalfSize, CondensingAssumption
  <1> HIDE DEF v, M
  <1>3. HeadSize(v) \in Nat /\ HeadSize(v) <= KeepFirst /\ HeadSize(v) <= Len(v)
        /\ HeadSize(v) \in {KeepFirst, Len(v)}
    BY <1>1, <1>2, MinOfTwo DEF HeadSize
  <1>4. f = AsRange(S)
    BY DEF AmortizedForgets, Members, M
  <1>5. f \subseteq 0 .. Len(h) /\ S \subseteq f
    <2>1. S \subseteq 0 .. Len(h)
      BY <1>1
    <2> HIDE DEF S, f
    <2> QED
      BY <1>4, <2>1, RangeOf
  <1>6. IsFiniteSet(head) /\ Cardinality(head) <= HeadSize(v)
    <2>1. \A j \in 1 .. Len(v) : j <= KeepFirst <=> j \in 1 .. HeadSize(v)
      BY <1>1, <1>2, <1>3
    <2>2. \A j \in 1 .. HeadSize(v) : j \in 1 .. Len(v)
      BY <1>1, <1>3
    <2>3. head = {v[i] : i \in 1 .. HeadSize(v)}
      BY <2>1, <2>2 DEF HeadOf
    <2> DEFINE n == HeadSize(v)
    <2>4. n - 1 + 1 <= n /\ 1 \in Int /\ n \in Int /\ n \in Nat
      BY <1>3
    <2> HIDE DEF n
    <2>5. IsFiniteSet({v[i] : i \in 1 .. n}) /\ Cardinality({v[i] : i \in 1 .. n}) <= n
      BY <2>4, ImageBound
    <2> QED
      BY <2>3, <2>5 DEF n
  <1>7. IsFiniteSet(tail) /\ Cardinality(tail) <= M - HeadSize(v) /\ M - HeadSize(v) \in Nat
    <2> DEFINE n == M - HeadSize(v)
               T == {v[i] : i \in Len(v) - n + 1 .. Len(v)}
    <2>1. n \in Nat
      BY <1>2, <1>3
    <2> HIDE DEF n
    <2>2. Len(v) - (Len(v) - n + 1) + 1 <= n /\ Len(v) - n + 1 \in Int /\ Len(v) \in Int
      BY <1>1, <2>1
    <2>3. IsFiniteSet(T) /\ Cardinality(T) <= n
      BY <2>1, <2>2, ImageBound
    <2>4. \A j \in 1 .. Len(v) : j > Len(v) - n => j \in Len(v) - n + 1 .. Len(v)
      BY <1>1, <2>1
    <2>5. LastOf(v, n) \in SUBSET T
      BY <2>4 DEF LastOf
    <2>6. IsFiniteSet(LastOf(v, n)) /\ Cardinality(LastOf(v, n)) <= Cardinality(T)
      BY <2>3, <2>5, FS_Subset
    <2>7. Cardinality(T) \in Nat /\ Cardinality(LastOf(v, n)) \in Nat
      BY <2>3, <2>6, FS_CardinalityType
    <2> HIDE DEF T
    <2>8. Cardinality(LastOf(v, n)) <= n
      BY <2>1, <2>3, <2>6, <2>7
    <2> QED
      BY <2>1, <2>6, <2>8 DEF n
  <1> HIDE DEF head, tail
  <1>8. Kept(h) \ f \subseteq head \cup tail
    BY <1>1, <1>5
  <1> HIDE DEF f
  <1>9. /\ IsFiniteSet(Kept(h) \ f)
        /\ Cardinality(Kept(h) \ f) <= HeadSize(v) + (M - HeadSize(v))
    BY <1>3, <1>6, <1>7, <1>8, UnionBound
  <1>10. Cardinality(Kept(h) \ f) \in Nat
    BY <1>9, FS_CardinalityType
  <1>11. Cardinality(Kept(h) \ f) + 1 <= MaxSize
    BY <1>2, <1>3, <1>9, <1>10
  <1> QED
    BY <1>5, <1>11 DEF f, v

LEMMA SummaryLeaves ==
    ASSUME NEW h, Len(h) \in Nat, SummaryForgets(View(h)) # {}
    PROVE  /\ SummaryForgets(View(h)) \subseteq 0 .. Len(h)
           /\ Cardinality(Kept(h) \ SummaryForgets(View(h))) + 1 <= MaxSize
  <1> DEFINE v == View(h)
             M == MaxSize \div 2
             tail == M - HeadSize(v) - 1
             S == {v[i] : i \in KeepFirst + 1 .. Len(v) - tail} \ {Summary}
             f == SummaryForgets(v)
             A == {v[i] : i \in 1 .. KeepFirst}
             B == {v[i] : i \in Len(v) - tail + 1 .. Len(v)}
  <1>1. /\ Len(v) \in Nat /\ Members(v) \subseteq 0 .. Len(h)
        /\ Kept(h) \subseteq Members(v) /\ Summary \notin Kept(h)
    BY ViewMembers
  <1>2. M \in Nat /\ KeepFirst \in Nat /\ KeepFirst < M /\ M + 1 <= MaxSize /\ MaxSize \in Nat
    BY HalfSize, CondensingAssumption
  <1>0. SummaryForgets(v) # {}
    OBVIOUS
  <1> HIDE DEF v, M
  <1>3. HeadSize(v) \in Nat /\ HeadSize(v) <= KeepFirst /\ HeadSize(v) <= Len(v)
        /\ HeadSize(v) \in {KeepFirst, Len(v)}
    BY <1>1, <1>2, MinOfTwo DEF HeadSize
  <1>4. tail # 0 /\ f = AsRange(S)
    BY <1>0 DEF SummaryForgets, M
  <1>5. S # {} /\ tail \in Nat
    <2>1. S # {}
      BY <1>0, <1>4 DEF AsRange
    <2>2. tail \in Nat
      BY <1>2, <1>3
    <2> QED
      BY <2>1, <2>2
  <1>6. HeadSize(v) = KeepFirst /\ KeepFirst + 1 <= Len(v) - tail
    <2>1. PICK i \in KeepFirst + 1 .. Len(v) - tail : TRUE
      BY <1>5
    <2> QED
      BY <1>1, <1>2, <1>3, <1>5, <2>1
  <1>7. f \subseteq 0 .. Len(h) /\ S \subseteq f
    <2>1. \A i \in KeepFirst + 1 .. Len(v) - tail : i \in 1 .. Len(v)
      BY <1>1, <1>2, <1>5
    <2>2. S \subseteq Members(v)
      BY <2>1 DEF Members
    <2>3. S \subseteq 0 .. Len(h)
      BY <1>1, <2>2
    <2> HIDE DEF S, f
    <2> QED
      BY <1>4, <2>3, RangeOf
  <1>8. Kept(h) \ f \subseteq A \cup B
    <2> SUFFICES ASSUME NEW x \in Kept(h) \ f PROVE x \in A \cup B
      OBVIOUS
    <2>1. PICK i \in 1 .. Len(v) : x = v[i]
      BY <1>1 DEF Members
    <2>2. i \notin KeepFirst + 1 .. Len(v) - tail
      BY <1>1, <1>7, <2>1
    <2> HIDE DEF tail
    <2>3. i \in 1 .. KeepFirst \/ i \in Len(v) - tail + 1 .. Len(v)
      BY <1>1, <1>2, <1>5, <2>2
    <2> QED
      BY <2>1, <2>3
  <1>9. IsFiniteSet(A) /\ Cardinality(A) <= KeepFirst
    <2> DEFINE n == KeepFirst
    <2>1. n - 1 + 1 <= n /\ 1 \in Int /\ n \in Int /\ n \in Nat
      BY <1>2
    <2> HIDE DEF n
    <2>2. IsFiniteSet({v[i] : i \in 1 .. n}) /\ Cardinality({v[i] : i \in 1 .. n}) <= n
      BY <2>1, ImageBound
    <2> QED
      BY <2>2 DEF n
  <1>10. IsFiniteSet(B) /\ Cardinality(B) <= tail
    <2> HIDE DEF tail
    <2>1. Len(v) - (Len(v) - tail + 1) + 1 <= tail /\ Len(v) - tail + 1 \in Int /\ Len(v) \in Int
      BY <1>1, <1>5
    <2> QED
      BY <1>5, <2>1, ImageBound
  <1> HIDE DEF A, B, f
  <1>11. IsFiniteSet(Kept(h) \ f) /\ Cardinality(Kept(h) \ f) <= KeepFirst + tail
    <2> HIDE DEF tail
    <2> QED
      BY <1>2, <1>5, <1>8, <1>9, <1>10, UnionBound
  <1>12. Cardinality(Kept(h) \ f) \in Nat
    BY <1>11, FS_CardinalityType
  <1>13. Cardinality(Kept(h) \ f) + 1 <= MaxSize
    BY <1>2, <1>3, <1>6, <1>11, <1>12
  <1> QED
    BY <1>7, <1>13 DEF f, v

(* The window keeps the first message of the user. *)
Users(h) == {i \in 1 .. Len(h) : h[i].kind = "user"}
IsFirst(u, h) == u \in Users(h) /\ \A w \in Users(h) : u <= w

LEMMA WindowLeaves ==
    ASSUME Len(history) \in Nat
    PROVE  /\ WindowForgets(View(history)) \subseteq 0 .. Len(history)
           /\ \A u : IsFirst(u, history) /\ u \notin Forgotten(history) =>
                 u \notin WindowForgets(View(history))
  <1> DEFINE v == View(history)
             U == {i \in Members(v) : Is(i, "user")}
  <1>1. /\ Members(v) \subseteq 0 .. Len(history)
        /\ Kept(history) \subseteq Members(v)
        /\ Members(v) \subseteq Kept(history) \cup {Summary}
    BY ViewMembers
  <1> HIDE DEF v
  <1>2. WindowForgets(v) \subseteq Members(v)
    BY DEF WindowForgets, Members
  <1>3. ASSUME NEW u, IsFirst(u, history), u \notin Forgotten(history)
        PROVE  u \notin WindowForgets(v)
    <2>1. u \in 1 .. Len(history) /\ history[u].kind = "user" /\ \A w \in Users(history) : u <= w
      BY <1>3 DEF IsFirst, Users
    <2>2. u \in U
      BY <1>1, <1>3, <2>1 DEF Kept, Is, Summary
    <2>3. U \subseteq Users(history)
      BY <1>1 DEF Is, Users, Kept, Summary
    <2>4. U \subseteq Nat /\ IsFiniteSet(U)
      <3>1. U \in SUBSET (0 .. Len(history)) /\ IsFiniteSet(0 .. Len(history))
        BY <1>1, FS_Interval
      <3> QED
        BY <3>1, FS_Subset
    <2> HIDE DEF U
    <2>5. Min(U) \in U /\ \A j \in U : Min(U) <= j
      BY <2>2, <2>4, MinMax
    <2>6. Min(U) = u
      <3>0. u \in Nat
        BY <2>2, <2>4
      <3>1. Min(U) \in Nat /\ u \in Nat /\ Min(U) \in Users(history)
        BY <2>3, <2>4, <2>5, <3>0
      <3>2. Min(U) <= u /\ u <= Min(U)
        BY <2>1, <2>2, <2>5, <3>1
      <3> QED
        BY <3>1, <3>2
    <2>7. u \in Essential(v)
      BY <2>6 DEF Essential, U, Members
    <2> QED
      BY <2>7 DEF WindowForgets
  <1> QED
    BY <1>1, <1>2, <1>3 DEF v

CondensingTypes ==
    /\ condenser \in Condensers \cup {"none"} /\ raised \in BOOLEAN
    /\ history \in Seq(EventType) /\ Len(history) \in 1 .. MaxHistory
    /\ planned \in [forgotten : SUBSET Nat, summary : BOOLEAN, active : BOOLEAN]
    /\ arrived \subseteq 2 .. Len(history)

Unconfigured ==
    condenser = "none" => history = <<Event("system", 0)>> /\ planned = NothingPlanned

(* Nothing is forgotten before it is there. *)
OnlyPast ==
    /\ Forgotten(history) \subseteq 0 .. Len(history)
    /\ planned.forgotten \subseteq 0 .. Len(history)
    /\ arrived \cap Forgotten(history) = {} /\ arrived \cap planned.forgotten = {}

TaskKept ==
    condenser = "window" => \A u : IsFirst(u, history) =>
        u \notin Forgotten(history) /\ u \notin planned.forgotten

(* A condensation that shortens does so once it is in the history. *)
Shortening(summary) == condenser # "window" /\ (condenser # "pipeline" \/ summary)

WillFit ==
    planned.active /\ arrived = {} /\ Shortening(planned.summary) =>
        Cardinality(Kept(history) \ planned.forgotten) + 1 <= MaxSize

ViewFits ==
    /\ history[Len(history)].kind = "condensation" /\ arrived = {} /\ ~planned.active
    /\ Shortening(history[Len(history)].summary)
    => Cardinality(Kept(history)) + 1 <= MaxSize

CondensingInv ==
    CondensingTypes /\ Unconfigured /\ OnlyPast /\ TaskKept /\ WillFit /\ ViewFits

LEMMA EventIs ==
    ASSUME NEW k \in {"system", "user", "recall", "observation", "action", "request"}, NEW c \in Nat
    PROVE  Event(k, c) \in EventType /\ Event(k, c).kind = k /\ Event(k, c).cause = c
  BY DEF Event, EventType

LEMMA CondensingInitInv == CondensingInit => CondensingInv
  <1> SUFFICES ASSUME CondensingInit PROVE CondensingInv
    OBVIOUS
  <1>1. /\ Event("system", 0) \in EventType /\ Event("system", 0).kind = "system"
        /\ history = <<Event("system", 0)>> /\ planned = NothingPlanned
        /\ condenser = "none" /\ arrived = {}
    BY EventIs DEF CondensingInit
  <1>2. /\ history \in Seq(EventType) /\ Len(history) = 1 /\ history[1].kind = "system"
        /\ 1 \in 1 .. MaxHistory
    BY <1>1, CondensingAssumption
  <1>3. CondensingTypes
    <2>1. raised \in BOOLEAN
      BY Zenon DEF CondensingInit
    <2>2. planned \in [forgotten : SUBSET Nat, summary : BOOLEAN, active : BOOLEAN]
      BY <1>1 DEF NothingPlanned
    <2> QED
      BY <1>1, <1>2, <2>1, <2>2 DEF CondensingTypes
  <1>4. Forgotten(history) = {} /\ planned.forgotten = {} /\ ~planned.active
    BY <1>1, <1>2 DEF Forgotten, NothingPlanned
  <1> QED
    BY <1>1, <1>2, <1>3, <1>4 DEF CondensingInv, Unconfigured, OnlyPast, TaskKept, WillFit, ViewFits

LEMMA ConfigureStep ==
    ASSUME CondensingInv, NEW c \in Condensers, Configure(c)
    PROVE  CondensingInv'
  <1>1. /\ condenser = "none" /\ condenser' = c
        /\ UNCHANGED <<history, planned, raised, arrived>>
    BY DEF Configure
  <1>2. history = <<Event("system", 0)>> /\ planned = NothingPlanned /\ Event("system", 0).kind = "system"
    BY <1>1, EventIs DEF CondensingInv, Unconfigured
  <1>3. /\ Len(history) = 1 /\ history[1].kind = "system" /\ planned.forgotten = {} /\ ~planned.active
        /\ Forgotten(history) = {}
    BY <1>2 DEF Forgotten, NothingPlanned
  <1>4. CondensingTypes' /\ OnlyPast'
    BY <1>1 DEF CondensingInv, CondensingTypes, OnlyPast
  <1>5. c # "none"
    BY DEF Condensers
  <1> QED
    BY <1>1, <1>3, <1>4, <1>5 DEF CondensingInv, Unconfigured, TaskKept, WillFit, ViewFits

(* An event arrives; while a condensation is computed none of the kinds a  *)
(* view forgets does.                                                      *)
LEMMA ArrivesStep ==
    ASSUME CondensingInv, NEW kind \in {"user", "recall", "observation", "action", "request"},
           NEW cause \in Nat, Arrives(kind, cause), kind = "request" => ~planned.active
    PROVE  CondensingInv'
  <1> DEFINE n == Len(history)
             e == Event(kind, cause)
  <1>1. /\ condenser # "none" /\ n + 1 <= MaxHistory /\ history' = Append(history, e)
        /\ arrived' = IF planned.active THEN arrived \cup {n + 1} ELSE arrived
        /\ UNCHANGED <<condenser, planned, raised>>
    BY DEF Arrives, Room
  <1>2. e \in EventType /\ e.kind = kind
    BY EventIs
  <1>3. history \in Seq(EventType) /\ n \in Nat /\ n >= 1
    BY DEF CondensingInv, CondensingTypes
  <1> HIDE DEF e
  <1>4. /\ Len(history') = n + 1 /\ history' \in Seq(EventType) /\ history'[n + 1] = e
        /\ \A i \in 1 .. n : history'[i] = history[i]
    BY <1>1, <1>2, <1>3
  <1>5. Forgotten(history') = Forgotten(history) \cup IF kind = "request" THEN {n + 1} ELSE {}
    <2>1. Forgotten(history') = Forgotten(history) \cup Forgets(e, n + 1)
      BY <1>1, <1>2, <1>3, OneMoreForgotten
    <2> QED
      BY <1>2, <2>1 DEF Forgets
  <1>6. 0 .. n \subseteq 0 .. n + 1 /\ 2 .. n \subseteq 2 .. n + 1 /\ n + 1 \notin 0 .. n
        /\ n + 1 \in 0 .. n + 1 /\ n + 1 \in 2 .. n + 1 /\ n + 1 \notin 2 .. n
    BY <1>3
  <1>7. CondensingTypes'
    <2>1. Len(history') \in 1 .. MaxHistory
      BY <1>1, <1>3, <1>4, CondensingAssumption
    <2>2. arrived' \subseteq 2 .. Len(history')
      BY <1>1, <1>4, <1>6 DEF CondensingInv, CondensingTypes
    <2> QED
      BY <1>1, <1>4, <2>1, <2>2 DEF CondensingInv, CondensingTypes
  <1>8. OnlyPast'
    <2>1. Forgotten(history') \subseteq 0 .. Len(history')
      BY <1>4, <1>5, <1>6 DEF CondensingInv, OnlyPast
    <2>2. planned'.forgotten \subseteq 0 .. Len(history')
      BY <1>1, <1>4, <1>6 DEF CondensingInv, OnlyPast
    <2>3. arrived' \cap planned'.forgotten = {}
      BY <1>1, <1>6 DEF CondensingInv, OnlyPast
    <2>4. arrived' \cap Forgotten(history') = {}
      <3>1. CASE planned.active
        BY <1>1, <1>5, <1>6, <3>1 DEF CondensingInv, OnlyPast
      <3>2. CASE ~planned.active
        BY <1>1, <1>5, <1>6, <3>2 DEF CondensingInv, OnlyPast, CondensingTypes
      <3> QED
        BY <3>1, <3>2
    <2> QED
      BY <2>1, <2>2, <2>3, <2>4 DEF OnlyPast
  <1>9. TaskKept'
    <2> SUFFICES ASSUME condenser = "window", NEW u, IsFirst(u, history')
                 PROVE  u \notin Forgotten(history') /\ u \notin planned.forgotten
      BY <1>1 DEF TaskKept
    <2>1. u \in 1 .. n + 1 /\ history'[u].kind = "user" /\ \A w \in Users(history') : u <= w
      BY <1>4 DEF IsFirst, Users
    <2>2. CASE u = n + 1
      <3>1. kind = "user"
        BY <1>2, <1>4, <2>1, <2>2
      <3> QED
        BY <1>5, <1>6, <2>2, <3>1 DEF CondensingInv, OnlyPast
    <2>3. CASE u \in 1 .. n
      <3>1. \A w \in Users(history) : w \in Users(history')
        BY <1>3, <1>4 DEF Users
      <3>2. IsFirst(u, history)
        BY <1>4, <2>1, <2>3, <3>1 DEF IsFirst, Users
      <3>3. u \notin Forgotten(history) /\ u \notin planned.forgotten
        BY <3>2 DEF CondensingInv, TaskKept
      <3> QED
        BY <1>3, <1>5, <2>3, <3>3
    <2> QED
      BY <1>3, <2>1, <2>2, <2>3
  <1>10. WillFit'
    BY <1>1 DEF WillFit
  <1>11. ViewFits' /\ Unconfigured'
    BY <1>1, <1>2, <1>4 DEF ViewFits, Unconfigured
  <1> QED
    BY <1>7, <1>8, <1>9, <1>10, <1>11 DEF CondensingInv

LEMMA CondenseStep ==
    ASSUME CondensingInv, Condense
    PROVE  CondensingInv'
  <1> DEFINE v == View(history)
             f == CASE Chosen = "amortized" -> AmortizedForgets(v)
                    [] Chosen = "summarizing" -> SummaryForgets(v)
                    [] OTHER -> WindowForgets(v)
  <1>1. MayStep /\ ShouldCondense(condenser, v) /\ UNCHANGED <<condenser, history>>
    BY DEF Condense
  <1>2. \/ raised' = TRUE /\ UNCHANGED <<planned, arrived>>
        \/ /\ planned' = [forgotten |-> f, summary |-> Chosen = "summarizing", active |-> TRUE]
           /\ ~(f = {} /\ Chosen # "window") /\ arrived' = {} /\ UNCHANGED raised
    BY DEF Condense
  <1>3. /\ condenser \in Condensers /\ Len(history) \in Nat
        /\ Chosen \in {"amortized", "summarizing", "window"}
        /\ Chosen = condenser \/ condenser = "pipeline"
        /\ condenser = "window" => Chosen = "window"
    BY <1>1 DEF MayStep, Chosen, Condensers, CondensingInv, CondensingTypes
  <1>4. CASE raised' = TRUE /\ UNCHANGED <<planned, arrived>>
    <2>1. raised' \in BOOLEAN
      BY Zenon, <1>4
    <2> QED
      BY <1>1, <1>4, <2>1 DEF CondensingInv, CondensingTypes, Unconfigured, OnlyPast, TaskKept,
                              WillFit, ViewFits, Shortening
  <1>5. CASE /\ planned' = [forgotten |-> f, summary |-> Chosen = "summarizing", active |-> TRUE]
             /\ ~(f = {} /\ Chosen # "window") /\ arrived' = {} /\ UNCHANGED raised
    <2>1. /\ Chosen = "amortized" => f = AmortizedForgets(v)
          /\ Chosen = "summarizing" => f = SummaryForgets(v)
          /\ Chosen = "window" => f = WindowForgets(v)
      BY <1>3
    <2>2. Chosen # "window" => f # {}
      BY <1>5
    <2> HIDE DEF f
    <2>3. f \subseteq 0 .. Len(history)
      BY <1>3, <2>1, <2>2, AmortizedLeaves, SummaryLeaves, WindowLeaves
    <2>4. Chosen # "window" => Cardinality(Kept(history) \ f) + 1 <= MaxSize
      BY <1>3, <2>1, <2>2, AmortizedLeaves, SummaryLeaves
    <2>5. /\ planned'.forgotten = f /\ planned'.summary = (Chosen = "summarizing")
          /\ planned'.active
      BY <1>5
    <2>6. CondensingTypes'
      <3>1. planned' \in [forgotten : SUBSET Nat, summary : BOOLEAN, active : BOOLEAN]
        BY <1>5, <2>3
      <3> QED
        BY <1>1, <1>5, <3>1 DEF CondensingInv, CondensingTypes
    <2>7. OnlyPast'
      BY <1>1, <1>5, <2>3, <2>5 DEF CondensingInv, OnlyPast
    <2>8. TaskKept'
      <3>1. ASSUME condenser = "window", NEW u, IsFirst(u, history)
            PROVE  u \notin Forgotten(history) /\ u \notin f
        <4>1. u \notin Forgotten(history)
          BY <3>1 DEF CondensingInv, TaskKept
        <4> QED
          BY <1>3, <2>1, <3>1, <4>1, WindowLeaves
      <3> QED
        BY <1>1, <2>5, <3>1 DEF TaskKept
    <2>9. WillFit'
      <3>1. Shortening(planned.summary)' => Chosen # "window"
        BY <1>1, <1>3, <2>5 DEF Shortening
      <3> QED
        BY <1>1, <2>4, <2>5, <3>1 DEF WillFit
    <2>10. ViewFits' /\ Unconfigured'
      BY <1>1, <1>3, <2>5 DEF ViewFits, Unconfigured, Condensers
    <2> QED
      BY <2>6, <2>7, <2>8, <2>9, <2>10 DEF CondensingInv
  <1> QED
    BY <1>2, <1>4, <1>5

LEMMA AddCondensationStep ==
    ASSUME CondensingInv, AddCondensation
    PROVE  CondensingInv'
  <1> DEFINE n == Len(history)
             e == [kind |-> "condensation", cause |-> 0,
                   forgotten |-> planned.forgotten, summary |-> planned.summary]
  <1>1. /\ planned.active /\ n + 1 <= MaxHistory /\ history' = Append(history, e)
        /\ planned' = NothingPlanned /\ UNCHANGED <<condenser, raised, arrived>>
    BY DEF AddCondensation, Room
  <1>2. history \in Seq(EventType) /\ n \in Nat /\ n >= 1
    BY DEF CondensingInv, CondensingTypes
  <1>3. /\ e \in EventType /\ e.kind = "condensation"
        /\ e.forgotten = planned.forgotten /\ e.summary = planned.summary
    BY DEF CondensingInv, CondensingTypes, EventType
  <1> HIDE DEF e
  <1>4. /\ Len(history') = n + 1 /\ history' \in Seq(EventType) /\ history'[n + 1] = e
        /\ \A i \in 1 .. n : history'[i] = history[i]
    BY <1>1, <1>2, <1>3
  <1>5. Forgotten(history') = Forgotten(history) \cup planned.forgotten \cup {n + 1}
    <2>1. Forgotten(history') = Forgotten(history) \cup Forgets(e, n + 1)
      BY <1>1, <1>2, <1>3, OneMoreForgotten
    <2> QED
      BY <1>3, <2>1 DEF Forgets
  <1>6. Kept(history') = Kept(history) \ planned.forgotten
    BY <1>1, <1>2, <1>3, CondensationKeeps
  <1>7. 0 .. n \subseteq 0 .. n + 1 /\ 2 .. n \subseteq 2 .. n + 1
        /\ n + 1 \in 0 .. n + 1 /\ n + 1 \notin 2 .. n
    BY <1>2
  <1>8. planned'.forgotten = {} /\ ~planned'.active
        /\ planned' \in [forgotten : SUBSET Nat, summary : BOOLEAN, active : BOOLEAN]
    BY <1>1 DEF NothingPlanned
  <1>9. CondensingTypes'
    <2>1. Len(history') \in 1 .. MaxHistory
      BY <1>1, <1>2, <1>4, CondensingAssumption
    <2> QED
      BY <1>1, <1>4, <1>7, <1>8, <2>1 DEF CondensingInv, CondensingTypes
  <1>10. OnlyPast'
    <2>1. Forgotten(history') \subseteq 0 .. Len(history')
      BY <1>4, <1>5, <1>7 DEF CondensingInv, OnlyPast
    <2>2. arrived' \cap Forgotten(history') = {}
      BY <1>1, <1>5, <1>7 DEF CondensingInv, OnlyPast, CondensingTypes
    <2> QED
      BY <1>8, <2>1, <2>2 DEF OnlyPast
  <1>11. TaskKept'
    <2> SUFFICES ASSUME condenser = "window", NEW u, IsFirst(u, history')
                 PROVE  u \notin Forgotten(history')
      BY <1>1, <1>8 DEF TaskKept
    <2>1. u \in 1 .. n + 1 /\ history'[u].kind = "user" /\ \A w \in Users(history') : u <= w
      BY <1>4 DEF IsFirst, Users
    <2>2. u # n + 1
      BY <1>3, <1>4, <2>1
    <2>3. u \in 1 .. n
      BY <1>2, <2>1, <2>2
    <2>4. \A w \in Users(history) : w \in Users(history')
      BY <1>2, <1>4 DEF Users
    <2>5. IsFirst(u, history)
      BY <1>4, <2>1, <2>3, <2>4 DEF IsFirst, Users
    <2>6. u \notin Forgotten(history) /\ u \notin planned.forgotten
      BY <2>5 DEF CondensingInv, TaskKept
    <2> QED
      BY <1>5, <2>2, <2>6
  <1>12. WillFit'
    BY <1>8 DEF WillFit
  <1>13. ViewFits'
    <2> SUFFICES ASSUME arrived = {}, Shortening(planned.summary)
                 PROVE  Cardinality(Kept(history')) + 1 <= MaxSize
      BY <1>1, <1>3, <1>4 DEF ViewFits, Shortening
    <2> QED
      BY <1>1, <1>6 DEF CondensingInv, WillFit
  <1>14. Unconfigured'
    BY <1>1 DEF CondensingInv, Unconfigured, NothingPlanned
  <1> QED
    BY <1>9, <1>10, <1>11, <1>12, <1>13, <1>14 DEF CondensingInv

LEMMA CondensingStep == CondensingInv /\ [CondensingNext]_condensingVars => CondensingInv'
  <1> SUFFICES ASSUME CondensingInv, [CondensingNext]_condensingVars PROVE CondensingInv'
    OBVIOUS
  <1>0. Len(history) \in Nat
    BY DEF CondensingInv, CondensingTypes
  <1>1. ASSUME NEW c \in Condensers, Configure(c) PROVE CondensingInv'
    BY <1>1, ConfigureStep
  <1>2. CASE UserMessage
    BY <1>2, ArrivesStep DEF UserMessage
  <1>3. ASSUME NEW i \in 1 .. Len(history), Recall(i) \/ Observe(i) PROVE CondensingInv'
    <2>1. i \in Nat
      BY <1>0
    <2> QED
      BY <1>3, <2>1, ArrivesStep DEF Recall, Observe
  <1>4. ASSUME NEW kind \in {"action", "request"}, Act(kind) PROVE CondensingInv'
    BY <1>4, ArrivesStep DEF Act, MayStep
  <1>5. CASE Condense
    BY <1>5, CondenseStep
  <1>6. CASE AddCondensation
    BY <1>6, AddCondensationStep
  <1>7. CASE UNCHANGED condensingVars
    BY <1>7 DEF condensingVars, CondensingInv, CondensingTypes, Unconfigured, OnlyPast, TaskKept,
                WillFit, ViewFits, Shortening
  <1> QED
    BY <1>1, <1>2, <1>3, <1>4, <1>5, <1>6, <1>7 DEF CondensingNext

-----------------------------------------------------------------------------
LEMMA InvSettles == CondensingInv => CondensationSettles
  <1> DEFINE n == Len(history)
             newest == history[n]
  <1> SUFFICES ASSUME CondensingInv, newest.kind = "condensation", arrived = {}, ~planned.active
               PROVE  /\ ~RequestUnhandled(history)
                      /\ condenser # "pipeline" \/ newest.summary
                            => ~ShouldCondense(condenser, View(history))
    BY DEF CondensationSettles
  <1>1. n \in Nat /\ n > 0 /\ MaxSize \in Nat
    BY CondensingAssumption DEF CondensingInv, CondensingTypes
  <1>2. ~RequestUnhandled(history)
    <2> SUFFICES ASSUME NEW i \in 1 .. n, history[i].kind = "request",
                        \A j \in i + 1 .. n : history[j].kind # "condensation"
                 PROVE  FALSE
      BY DEF RequestUnhandled
    <2>1. CASE i = n
      BY <2>1
    <2>2. CASE i < n
      <3>1. n \in i + 1 .. n
        BY <1>1, <2>2
      <3> QED
        BY <3>1
    <2> QED
      BY <1>1, <2>1, <2>2
  <1>3. ASSUME condenser # "pipeline" \/ newest.summary
        PROVE  ~(condenser # "window" /\ TooLong(View(history)))
    <2> SUFFICES ASSUME condenser # "window" PROVE ~TooLong(View(history))
      OBVIOUS
    <2>1. Cardinality(Kept(history)) + 1 <= MaxSize
      BY <1>3 DEF CondensingInv, ViewFits, Shortening
    <2>2. Cardinality(Kept(history)) \in Nat
      BY <1>1, KeptFinite
    <2>3. Len(View(history)) <= Cardinality(Kept(history)) + 1
      BY <1>1, <2>2, ViewOf
    <2>4. Len(View(history)) \in Nat
      BY <1>1, ViewOf
    <2> QED
      BY <1>1, <2>1, <2>2, <2>3, <2>4 DEF TooLong
  <1> QED
    BY <1>2, <1>3 DEF ShouldCondense

LEMMA InvKeeps == CondensingInv => NothingNeededForgotten
  <1> SUFFICES ASSUME CondensingInv PROVE NothingNeededForgotten
    OBVIOUS
  <1>1. ArrivedIsKept
    BY DEF ArrivedIsKept, CondensingInv, OnlyPast
  <1>2. FirstMessageStays
    <2> SUFFICES ASSUME condenser = "window", Users(history) # {}
                 PROVE  Min(Users(history)) \notin Forgotten(history)
      BY DEF FirstMessageStays, Users
    <2>1. Len(history) \in Nat
      BY DEF CondensingInv, CondensingTypes
    <2>2. Users(history) \in SUBSET (1 .. Len(history)) /\ IsFiniteSet(1 .. Len(history))
      BY <2>1, FS_Interval DEF Users
    <2>3. IsFiniteSet(Users(history)) /\ Users(history) \subseteq Nat
      BY <2>1, <2>2, FS_Subset
    <2>4. /\ Min(Users(history)) \in Users(history)
          /\ \A j \in Users(history) : Min(Users(history)) <= j
      BY <2>3, MinMax
    <2>5. IsFirst(Min(Users(history)), history)
      BY <2>4 DEF IsFirst
    <2> QED
      BY <2>5 DEF CondensingInv, TaskKept
  <1> QED
    BY <1>1, <1>2 DEF NothingNeededForgotten

LEMMA InvCondensingType == CondensingInv => CondensingTypeOK
  <1> SUFFICES ASSUME CondensingInv PROVE CondensingTypeOK
    OBVIOUS
  <1>1. /\ Len(history) \in Nat /\ Len(history) \in 1 .. MaxHistory /\ MaxHistory \in Nat
        /\ condenser \in Condensers \cup {"none"}
        /\ planned.forgotten \subseteq 0 .. Len(history) /\ arrived \subseteq 2 .. Len(history)
    BY CondensingAssumption DEF CondensingInv, CondensingTypes, OnlyPast
  <1>2. 0 .. Len(history) \subseteq 0 .. MaxHistory /\ 2 .. Len(history) \subseteq 2 .. MaxHistory
    BY <1>1
  <1>3. /\ \A i, j \in 1 .. Len(View(history)) :
              i < j /\ View(history)[j] # Summary => View(history)[i] < View(history)[j]
        /\ \A i \in 1 .. Len(View(history)) : View(history)[i] = Summary => i <= KeepFirst + 1
    BY <1>1, ViewOf
  <1> QED
    BY <1>1, <1>2, <1>3, Zenon DEF CondensingTypeOK

LEMMA CondensingInvariant == CondensingSpec => []CondensingInv
  BY CondensingInitInv, CondensingStep, PTL DEF CondensingSpec

(* A condensation settles, whatever the sizes, the condenser and the       *)
(* history: a request is answered and the view is not again too long, so   *)
(* that get_condensation of the rolling condensers is not called again for *)
(* what it has just condensed.                                             *)
THEOREM ACondensationSettles == CondensingSpec => []CondensationSettles
  BY CondensingInvariant, InvSettles, PTL

(* Nothing needed is forgotten: the ranges of identifiers the condensers   *)
(* forget never reach what arrived while a summary was written, and the    *)
(* window keeps the first message of the user for ever.                    *)
THEOREM NothingNeededIsForgotten == CondensingSpec => []NothingNeededForgotten
  BY CondensingInvariant, InvKeeps, PTL

(* View.from_events keeps the events in their order, with the summary      *)
(* behind the head, for every history the condensers can reach.            *)
THEOREM CondensingTypesHold == CondensingSpec => []CondensingTypeOK
  BY CondensingInvariant, InvCondensingType, PTL

-----------------------------------------------------------------------------
(* Bash session: what is reported is the command's own, and once.          *)

LEMMA OnlyOf ==
    ASSUME NEW S, NEW s \in Seq(S), NEW kinds
    PROVE  Only(kinds, s) \in Seq(S)
  <1>1. {i \in 1 .. Len(s) : s[i].kind \in kinds} \subseteq 1 .. Len(s)
    OBVIOUS
  <1> QED
    BY <1>1, Picked DEF Only

LEMMA OnlyOfNone == ASSUME NEW kinds PROVE Only(kinds, <<>>) = <<>>
  <1>1. {i \in 1 .. Len(<<>>) : <<>>[i].kind \in kinds} = {}
    OBVIOUS
  <1>2. Pick(<<>>, {}) \in Seq(Nat) /\ Len(Pick(<<>>, {})) = 0
    <2>1. <<>> \in Seq(Nat) /\ {} \subseteq 1 .. Len(<<>>)
      OBVIOUS
    <2> QED
      BY <2>1, Picked, FS_EmptySet
  <1>3. Pick(<<>>, {}) = <<>>
    BY <1>2, EmptySeq
  <1> QED
    BY <1>1, <1>3 DEF Only

LEMMA OnlyOfMore ==
    ASSUME NEW S, NEW s \in Seq(S), NEW x \in S, NEW kinds
    PROVE  Only(kinds, Append(s, x)) =
              IF x.kind \in kinds THEN Append(Only(kinds, s), x) ELSE Only(kinds, s)
  <1> DEFINE t == Append(s, x)
             K == {i \in 1 .. Len(s) : s[i].kind \in kinds}
             L == {i \in 1 .. Len(t) : t[i].kind \in kinds}
  <1>1. /\ Len(s) \in Nat /\ Len(t) = Len(s) + 1 /\ t[Len(s) + 1] = x
        /\ \A i \in 1 .. Len(s) : t[i] = s[i]
    BY AppendProperties
  <1>2. K \subseteq 1 .. Len(s)
    OBVIOUS
  <1>3. L = IF x.kind \in kinds THEN K \cup {Len(s) + 1} ELSE K
    <2>1. \A i \in 1 .. Len(t) : i = Len(s) + 1 \/ i \in 1 .. Len(s)
      BY <1>1
    <2>2. Len(s) + 1 \in 1 .. Len(t) /\ \A i \in 1 .. Len(s) : i \in 1 .. Len(t)
      BY <1>1
    <2> HIDE DEF t
    <2> QED
      BY <1>1, <2>1, <2>2
  <1>4. Only(kinds, t) = Pick(t, L) /\ Only(kinds, s) = Pick(s, K)
    BY DEF Only
  <1>5. Pick(t, K) = Pick(s, K) /\ Pick(t, K \cup {Len(s) + 1}) = Append(Pick(s, K), x)
    BY <1>2, PickedFromMore
  <1> HIDE DEF K, L
  <1> QED
    BY <1>3, <1>4, <1>5

(* The output of the commands in the pane, and what of it is new. *)
Body(p) == CombineOutputs(p, FALSE)
Unreported(v, b) == Only({"output"}, SubSeq(b, Len(v) + 1, Len(b)))

LEMMA SubSeqOfMore ==
    ASSUME NEW S, NEW s \in Seq(S), NEW x \in S, NEW m \in 1 .. Len(s) + 1
    PROVE  /\ SubSeq(s, m, Len(s)) \in Seq(S)
           /\ SubSeq(Append(s, x), m, Len(s) + 1) = Append(SubSeq(s, m, Len(s)), x)
  <1> DEFINE n == Len(s)
             t == Append(s, x)
             u == SubSeq(s, m, n)
             v == SubSeq(t, m, n + 1)
             w == Append(u, x)
  <1>1. /\ n \in Nat /\ m \in Nat /\ 1 <= m /\ m <= n + 1
        /\ \A i \in 1 .. n : t[i] = s[i] /\ s[i] \in S
        /\ t[n + 1] = x /\ Len(t) = n + 1 /\ t \in Seq(S)
    BY AppendProperties, ElementOfSeq
  <1> HIDE DEF n, t
  <1>2. /\ \A i \in m .. n : s[i] \in S
        /\ \A i \in m .. n + 1 : t[i] \in S
    BY <1>1, ElementOfSeq
  <1>3. /\ u \in Seq(S) /\ Len(u) = n - m + 1
        /\ \A i \in 1 .. n - m + 1 : u[i] = s[m + i - 1]
    <2>1. /\ u \in Seq(S) /\ Len(u) = IF m <= n THEN n - m + 1 ELSE 0
          /\ \A i \in 1 .. n - m + 1 : u[i] = s[m + i - 1]
      BY <1>1, <1>2, SubSeqProperties
    <2> QED
      BY <1>1, <2>1
  <1>4. /\ v \in Seq(S) /\ Len(v) = n - m + 2
        /\ \A i \in 1 .. n - m + 2 : v[i] = t[m + i - 1]
    <2>1. /\ v \in Seq(S) /\ Len(v) = IF m <= n + 1 THEN (n + 1) - m + 1 ELSE 0
          /\ \A i \in 1 .. (n + 1) - m + 1 : v[i] = t[m + i - 1]
      BY <1>1, <1>2, SubSeqProperties
    <2> QED
      BY <1>1, <2>1
  <1>5. /\ w \in Seq(S) /\ Len(w) = n - m + 2
        /\ \A i \in 1 .. n - m + 1 : w[i] = u[i]
        /\ w[n - m + 2] = x
    <2>1. /\ w \in Seq(S) /\ Len(w) = Len(u) + 1
          /\ \A i \in 1 .. Len(u) : w[i] = u[i]
          /\ w[Len(u) + 1] = x
      BY <1>3, AppendProperties
    <2>2. Len(u) + 1 = n - m + 2
      BY <1>1, <1>3
    <2> HIDE DEF u, w
    <2> QED
      BY <1>3, <2>1, <2>2
  <1> HIDE DEF u, v, w
  <1>6. \A i \in 1 .. n - m + 2 : v[i] = w[i]
    <2> TAKE i \in 1 .. n - m + 2
    <2>1. CASE i = n - m + 2
      <3>1. m + i - 1 = n + 1
        BY <1>1, <2>1
      <3> QED
        BY <1>1, <1>4, <1>5, <2>1, <3>1
    <2>2. CASE i \in 1 .. n - m + 1
      <3>1. m + i - 1 \in 1 .. n
        BY <1>1, <2>2
      <3> QED
        BY <1>1, <1>3, <1>4, <1>5, <2>2, <3>1
    <2> QED
      BY <1>1, <2>1, <2>2
  <1>7. v = w
    BY <1>4, <1>5, <1>6, SeqEqual
  <1> QED
    BY <1>3, <1>7 DEF n, t, u, v, w

LEMMA BeginningOf ==
    ASSUME NEW S, NEW s \in Seq(S), NEW n \in 0 .. Len(s)
    PROVE  /\ SubSeq(s, 1, n) \in Seq(S) /\ Len(SubSeq(s, 1, n)) = n
           /\ \A i \in 1 .. n : SubSeq(s, 1, n)[i] = s[i]
  <1>1. n \in Int /\ n >= 0 /\ 1 \in Int /\ \A i \in 1 .. n : s[i] \in S
    BY ElementOfSeq
  <1>2. /\ SubSeq(s, 1, n) \in Seq(S)
        /\ Len(SubSeq(s, 1, n)) = IF 1 <= n THEN n - 1 + 1 ELSE 0
        /\ \A i \in 1 .. n - 1 + 1 : SubSeq(s, 1, n)[i] = s[1 + i - 1]
    BY <1>1, SubSeqProperties
  <1>3. n - 1 + 1 = n /\ \A i \in 1 .. n : 1 + i - 1 = i
    BY <1>1
  <1> QED
    BY <1>1, <1>2, <1>3

LEMMA MatchesFinite ==
    ASSUME NEW p \in Seq(Items)
    PROVE  /\ Matches(p) \subseteq 1 .. Len(p) /\ Matches(p) \subseteq Nat
           /\ IsFiniteSet(Matches(p)) /\ Cardinality(Matches(p)) \in 0 .. Len(p)
  <1>1. Len(p) \in Nat /\ Matches(p) \in SUBSET (1 .. Len(p))
    BY DEF Matches
  <1>2. IsFiniteSet(1 .. Len(p)) /\ Cardinality(1 .. Len(p)) = Len(p)
    <2>1. 1 \in Int /\ Len(p) \in Int
      BY <1>1
    <2>2. /\ IsFiniteSet(1 .. Len(p))
          /\ Cardinality(1 .. Len(p)) = IF 1 > Len(p) THEN 0 ELSE Len(p) - 1 + 1
      BY <2>1, FS_Interval
    <2> QED
      BY <1>1, <2>2
  <1>3. IsFiniteSet(Matches(p)) /\ Cardinality(Matches(p)) <= Len(p)
    BY <1>1, <1>2, FS_Subset
  <1>4. Cardinality(Matches(p)) \in Nat
    BY <1>3, FS_CardinalityType
  <1> QED
    BY <1>1, <1>3, <1>4

(* What is not a prompt does not add to the prompts, and a pane that loses *)
(* its first item has no more of them.                                     *)
LEMMA NoMoreMatches ==
    ASSUME NEW p \in Seq(Items), Len(p) > 0, NEW x \in Items, x.kind # "prompt"
    PROVE  /\ Cardinality(Matches(Append(p, x))) <= Cardinality(Matches(p))
           /\ Cardinality(Matches(Append(Tail(p), x))) <= Cardinality(Matches(p))
  <1> DEFINE M == Matches(p)
             T == {i - 1 : i \in M}
             f == [i \in M |-> i - 1]
             r == Append(Tail(p), x)
  <1>1. IsFiniteSet(M) /\ Cardinality(M) \in Nat /\ M \subseteq 1 .. Len(p) /\ Len(p) \in Nat
    BY MatchesFinite
  <1>2. Matches(Append(p, x)) = M
    <2>1. /\ Len(Append(p, x)) = Len(p) + 1 /\ Append(p, x)[Len(p) + 1] = x
          /\ \A i \in 1 .. Len(p) : Append(p, x)[i] = p[i]
      BY AppendProperties
    <2>2. /\ \A i \in 1 .. Len(p) + 1 : i = Len(p) + 1 \/ i \in 1 .. Len(p)
          /\ \A i \in 1 .. Len(p) : i \in 1 .. Len(p) + 1
      BY <1>1
    <2> QED
      BY <2>1, <2>2 DEF Matches
  <1>3. f \in Surjection(M, T)
    BY DEF Surjection
  <1>4. IsFiniteSet(T) /\ Cardinality(T) <= Cardinality(M)
    BY <1>1, <1>3, FS_Surjection
  <1>5. Matches(r) \in SUBSET T
    <2> SUFFICES ASSUME NEW i \in 1 .. Len(r), r[i].kind = "prompt" PROVE i \in T
      BY DEF Matches
    <2>1. /\ Tail(p) \in Seq(Items) /\ Len(Tail(p)) = Len(p) - 1
          /\ \A j \in 1 .. Len(p) - 1 : Tail(p)[j] = p[j + 1]
      BY HeadTailProperties
    <2>2. /\ Len(r) = Len(p) /\ r[Len(p)] = x
          /\ \A j \in 1 .. Len(p) - 1 : r[j] = p[j + 1]
      <3>1. PICK q \in Seq(Items) : q = Tail(p) /\ r = Append(q, x)
        BY <2>1
      <3> HIDE DEF r
      <3>2. Len(q) = Len(p) - 1 /\ \A j \in 1 .. Len(p) - 1 : q[j] = p[j + 1]
        BY <2>1, <3>1
      <3>3. /\ Len(r) = Len(q) + 1 /\ r[Len(q) + 1] = x
            /\ \A j \in 1 .. Len(q) : r[j] = q[j]
        BY <3>1, AppendProperties
      <3>4. Len(q) + 1 = Len(p)
        BY <1>1, <3>2
      <3> QED
        BY <3>2, <3>3, <3>4
    <2> HIDE DEF r
    <2>3. i \in 1 .. Len(p) - 1
      BY <1>1, <2>2
    <2>4. i + 1 \in 1 .. Len(p) /\ p[i + 1].kind = "prompt" /\ (i + 1) - 1 = i
      BY <1>1, <2>2, <2>3
    <2>5. i + 1 \in M
      BY <2>4 DEF Matches
    <2> QED
      BY <2>4, <2>5
  <1>6. Cardinality(Matches(r)) <= Cardinality(T)
    BY <1>4, <1>5, FS_Subset
  <1>7. /\ Cardinality(Matches(r)) \in Nat /\ Cardinality(T) \in Nat
    BY <1>4, <1>5, FS_Subset, FS_CardinalityType
  <1> HIDE DEF M, T, r
  <1>8. Cardinality(Matches(r)) <= Cardinality(M)
    BY <1>1, <1>4, <1>6, <1>7
  <1> QED
    BY <1>1, <1>2, <1>8 DEF M, r

LEMMA CombinedType ==
    ASSUME NEW p \in Seq(Items), NEW before \in BOOLEAN
    PROVE  CombineOutputs(p, before) \in Seq(Items)
  <1>1. CASE Matches(p) = {}
    BY <1>1 DEF CombineOutputs
  <1>2. CASE Matches(p) # {}
    <2> DEFINE first == Min(Matches(p))
    <2>1. first \in 1 .. Len(p) /\ Len(p) \in Nat
      BY <1>2, MatchesFinite, MinMax
    <2> HIDE DEF first
    <2>2. first - 1 \in Int /\ first + 1 \in Int /\ Len(p) \in Int /\ 1 \in Int
      BY <2>1
    <2>3. (\A i \in 1 .. first - 1 : p[i] \in Items) /\ (\A i \in first + 1 .. Len(p) : p[i] \in Items)
      BY <2>1, ElementOfSeq
    <2>4. SubSeq(p, 1, first - 1) \in Seq(Items) /\ SubSeq(p, first + 1, Len(p)) \in Seq(Items)
      BY <2>2, <2>3, SubSeqProperties
    <2>5. Only({"echo", "output"}, SubSeq(p, first + 1, Len(p))) \in Seq(Items)
      BY <2>4, OnlyOf
    <2> QED
      BY <1>2, <2>4, <2>5 DEF CombineOutputs, first
  <1> QED
    BY <1>1, <1>2

(* In a pane that begins with a prompt the body is what follows it. *)
LEMMA BodyOf ==
    ASSUME NEW p \in Seq(Items), Len(p) > 0, p[1].kind = "prompt"
    PROVE  /\ Body(p) \in Seq(Items)
           /\ Body(p) = Only({"echo", "output"}, SubSeq(p, 2, Len(p)))
           /\ Matches(p) # {1} => CombineOutputs(p, TRUE) = Body(p)
  <1>1. 1 \in Matches(p)
    BY DEF Matches
  <1>2. Min(Matches(p)) \in 1 .. Len(p) /\ Min(Matches(p)) <= 1
    BY <1>1, MatchesFinite, MinMax
  <1>3. Min(Matches(p)) = 1
    BY <1>2
  <1>4. Body(p) = Only({"echo", "output"}, SubSeq(p, 2, Len(p)))
    BY <1>1, <1>3 DEF Body, CombineOutputs
  <1>5. Matches(p) # {1} => CombineOutputs(p, TRUE) = Only({"echo", "output"}, SubSeq(p, 2, Len(p)))
    BY <1>1, <1>3 DEF CombineOutputs
  <1> QED
    BY <1>4, <1>5, CombinedType DEF Body

LEMMA BodyOfMore ==
    ASSUME NEW p \in Seq(Items), Len(p) > 0, p[1].kind = "prompt", NEW x \in Items
    PROVE  Body(Append(p, x)) = IF x.kind = "prompt" THEN Body(p) ELSE Append(Body(p), x)
  <1> DEFINE t == Append(p, x)
             u == SubSeq(p, 2, Len(p))
  <1>1. t \in Seq(Items) /\ Len(t) = Len(p) + 1 /\ t[1] = p[1] /\ Len(p) \in Nat
    BY AppendProperties
  <1>2. Body(t) = Only({"echo", "output"}, SubSeq(t, 2, Len(t)))
    <2> HIDE DEF t
    <2>1. Len(t) > 0 /\ t[1].kind = "prompt"
      BY <1>1
    <2> QED
      BY <1>1, <2>1, BodyOf
  <1>3. Body(p) = Only({"echo", "output"}, u)
    BY BodyOf
  <1>4. u \in Seq(Items) /\ SubSeq(t, 2, Len(t)) = Append(u, x)
    <2>1. 2 \in 1 .. Len(p) + 1
      BY <1>1
    <2> QED
      BY <1>1, <2>1, SubSeqOfMore
  <1>5. Only({"echo", "output"}, Append(u, x)) =
           IF x.kind \in {"echo", "output"} THEN Append(Only({"echo", "output"}, u), x)
           ELSE Only({"echo", "output"}, u)
    BY <1>4, OnlyOfMore
  <1>6. x.kind \in {"echo", "output"} <=> x.kind # "prompt"
    BY DEF Items
  <1> HIDE DEF t, u
  <1>7. Body(t) = IF x.kind = "prompt" THEN Body(p) ELSE Append(Body(p), x)
    BY <1>2, <1>3, <1>4, <1>5, <1>6
  <1> QED
    BY <1>7 DEF t

LEMMA BodyOfPrompt ==
    ASSUME NEW x \in Items, x.kind = "prompt"
    PROVE  Body(<<x>>) = <<>>
  <1>1. <<x>> \in Seq(Items) /\ Len(<<x>>) = 1 /\ <<x>>[1] = x
    OBVIOUS
  <1>2. Body(<<x>>) = Only({"echo", "output"}, SubSeq(<<x>>, 2, 1))
    <2>1. PICK p \in Seq(Items) : p = <<x>> /\ Len(p) = 1 /\ p[1] = x
      BY <1>1
    <2>2. Len(p) > 0 /\ p[1].kind = "prompt"
      BY <2>1
    <2>3. Body(p) = Only({"echo", "output"}, SubSeq(p, 2, Len(p)))
      BY <2>2, BodyOf
    <2> QED
      BY <2>1, <2>3
  <1>3. SubSeq(<<x>>, 2, 1) = <<>>
    BY SubSeqEmpty
  <1> QED
    BY <1>2, <1>3, OnlyOfNone

(* New output is unreported; what was reported remains the beginning. *)
LEMMA UnreportedOfMore ==
    ASSUME NEW v \in Seq(Items), NEW b \in Seq(Items), IsPrefix(v, b), NEW x \in Items
    PROVE  /\ IsPrefix(v, Append(b, x))
           /\ Unreported(v, Append(b, x)) =
                 IF x.kind = "output" THEN Append(Unreported(v, b), x) ELSE Unreported(v, b)
  <1> DEFINE t == Append(b, x)
             u == SubSeq(b, Len(v) + 1, Len(b))
  <1>1. /\ t \in Seq(Items) /\ Len(t) = Len(b) + 1 /\ Len(v) \in Nat /\ Len(b) \in Nat
        /\ Len(v) <= Len(b) /\ SubSeq(v, 1, Len(v)) = SubSeq(b, 1, Len(v))
        /\ \A i \in 1 .. Len(b) : t[i] = b[i]
    BY AppendProperties DEF IsPrefix
  <1>2. SubSeq(t, 1, Len(v)) = SubSeq(b, 1, Len(v))
    <2>1. /\ Len(v) \in 0 .. Len(b) /\ Len(v) \in 0 .. Len(t)
          /\ \A i \in 1 .. Len(v) : i \in 1 .. Len(b)
      BY <1>1
    <2>2. /\ SubSeq(t, 1, Len(v)) \in Seq(Items) /\ Len(SubSeq(t, 1, Len(v))) = Len(v)
          /\ \A i \in 1 .. Len(v) : SubSeq(t, 1, Len(v))[i] = t[i]
      BY <1>1, <2>1, BeginningOf
    <2>3. /\ SubSeq(b, 1, Len(v)) \in Seq(Items) /\ Len(SubSeq(b, 1, Len(v))) = Len(v)
          /\ \A i \in 1 .. Len(v) : SubSeq(b, 1, Len(v))[i] = b[i]
      BY <2>1, BeginningOf
    <2>4. \A i \in 1 .. Len(v) : SubSeq(t, 1, Len(v))[i] = SubSeq(b, 1, Len(v))[i]
      BY <1>1, <2>1, <2>2, <2>3
    <2> QED
      BY <2>2, <2>3, <2>4, SeqEqual
  <1>3. IsPrefix(v, t)
    BY <1>1, <1>2 DEF IsPrefix
  <1>4. u \in Seq(Items) /\ SubSeq(t, Len(v) + 1, Len(t)) = Append(u, x)
    <2>1. Len(v) + 1 \in 1 .. Len(b) + 1
      BY <1>1
    <2> QED
      BY <1>1, <2>1, SubSeqOfMore
  <1>5. Only({"output"}, Append(u, x)) =
           IF x.kind \in {"output"} THEN Append(Only({"output"}, u), x) ELSE Only({"output"}, u)
    BY <1>4, OnlyOfMore
  <1> QED
    BY <1>3, <1>4, <1>5 DEF Unreported

LEMMA NothingUnreported ==
    ASSUME NEW b \in Seq(Items)
    PROVE  Unreported(b, b) = <<>> /\ IsPrefix(b, b) /\ Unreported(<<>>, <<>>) = <<>>
           /\ IsPrefix(<<>>, <<>>)
  <1>1. ASSUME NEW c \in Seq(Items) PROVE Unreported(c, c) = <<>> /\ IsPrefix(c, c)
    <2>1. Len(c) \in Int /\ Len(c) + 1 \in Int /\ Len(c) < Len(c) + 1 /\ Len(c) <= Len(c)
      OBVIOUS
    <2>2. SubSeq(c, Len(c) + 1, Len(c)) = <<>>
      BY <2>1, SubSeqEmpty
    <2> QED
      BY <2>1, <2>2, OnlyOfNone DEF Unreported, IsPrefix
  <1>2. <<>> \in Seq(Items)
    BY EmptySeq
  <1> QED
    BY <1>1, <1>2

LEMMA UnreportedType ==
    ASSUME NEW v \in Seq(Items), NEW b \in Seq(Items)
    PROVE  Unreported(v, b) \in Seq(Items)
  <1>1. Len(v) + 1 \in Int /\ Len(b) \in Int /\ Len(v) + 1 >= 1
    OBVIOUS
  <1>2. \A i \in Len(v) + 1 .. Len(b) : b[i] \in Items
    BY <1>1, ElementOfSeq
  <1>3. SubSeq(b, Len(v) + 1, Len(b)) \in Seq(Items)
    BY <1>1, <1>2, SubSeqProperties
  <1> QED
    BY <1>3, OnlyOf DEF Unreported

Idle ==
    exec = NotRunning /\ prevStatus \in {"none", "completed"} /\ ~hasty /\ ~stray => running = 0 /\ keys = <<>>

(* A prompt carries the number of a call. *)
PromptsFit == \A i \in 1 .. Len(pane) : pane[i].kind = "prompt" => pane[i].of \in 0 .. execs

(* The end of the pane tells whether the shell waits. *)
PaneTellsShell ==
    /\ running = 0 => Last(pane) = Prompt(begun)
    /\ running # 0 => running = begun /\ Last(pane).kind # "prompt"

(* A command that is typed and not yet read is the last, was typed by the  *)
(* call under way, and finds the shell waiting.                            *)
CommandIsLast ==
    ~hasty /\ ~stray => \A i \in 1 .. Len(keys) : keys[i].kind = "command" =>
        i = Len(keys) /\ running = 0 /\ exec.pc = "poll"

(* The poll has seen no new prompt while its command is running. *)
NoPromptYet ==
    /\ ~hasty /\ ~stray /\ exec.pc = "poll"
    /\ running # 0 \/ (Len(keys) = 1 /\ keys[1].kind = "command")
    => Cardinality(Matches(pane)) <= exec.count

InNumber(s, n) == Len(s) = n /\ \A i \in 1 .. n : s[i] = Output(i)

(* A pane that has not lost its beginning starts with a prompt; what was   *)
(* reported, followed by what is not yet, is all there is.                 *)
PaneIsWhole ==
    ~hasty /\ ~stray /\ ~truncated =>
       /\ pane[1].kind = "prompt"
       /\ prevStatus \in TimedOut => Len(pane) > 1
       /\ exec.pc = "poll" /\ keys = <<>> => Len(pane) > 1
       /\ exec = NotRunning /\ prevStatus \in {"none", "completed"} => Len(pane) = 1
       /\ IsPrefix(prevOutput, Body(pane))
       /\ InNumber(reported \o Unreported(prevOutput, Body(pane)), produced)

BashInv ==
    /\ BashTypeOK /\ PromptsFit /\ PaneTellsShell /\ CommandIsLast /\ NoPromptYet
    /\ ExitCodeIsOwn /\ PaneIsWhole

Keys(n) == [kind : {"command", "input"}, id : 1 .. n]

LEMMA BashTypes ==
    ASSUME BashTypeOK
    PROVE  /\ pane \in Seq(Items) /\ Len(pane) \in 1 .. HistoryLimit /\ HistoryLimit \in Nat
           /\ Len(pane) > 0 /\ Len(pane) \in Nat /\ MaxExec \in Nat /\ MaxOutput \in Nat
           /\ execs \in 0 .. MaxExec /\ execs \in Nat /\ produced \in 0 .. MaxOutput /\ produced \in Nat
           /\ keys \in Seq(Keys(execs)) /\ Len(keys) \in Nat
           /\ running \in 0 .. execs /\ begun \in 0 .. execs /\ last \in 0 .. execs
           /\ prevOutput \in Seq(Items) /\ reported \in Seq(Items)
           /\ prevStatus \in {"none", "completed"} \cup TimedOut
           /\ exec.pc = "poll" <=> exec # NotRunning
           /\ exec.pc = "poll" => exec.count \in 0 .. HistoryLimit
           /\ Idle
  <1>1. /\ HistoryLimit \in Nat /\ MaxExec \in Nat /\ MaxOutput \in Nat
    BY BashAssumption
  <1>2. /\ execs \in Nat /\ produced \in Nat
    BY <1>1 DEF BashTypeOK
  <1>3. exec.pc = "poll" <=> exec # NotRunning
    BY DEF BashTypeOK, NotRunning
  <1>4. exec.pc = "poll" => exec.count \in 0 .. HistoryLimit
    BY DEF BashTypeOK, NotRunning
  <1>5. Idle
    BY DEF BashTypeOK, Idle
  <1>6. /\ pane \in Seq(Items) /\ Len(pane) \in 1 .. HistoryLimit
        /\ keys \in Seq(Keys(execs))
        /\ prevOutput \in Seq(Items) /\ reported \in Seq(Items)
    BY DEF BashTypeOK, Keys
  <1>7. Len(pane) > 0 /\ Len(pane) \in Nat /\ Len(keys) \in Nat
    BY <1>1, <1>6
  <1> QED
    BY <1>1, <1>2, <1>3, <1>4, <1>5, <1>6, <1>7 DEF BashTypeOK

(* The type invariant, put together. *)
LEMMA BashTyped ==
    ASSUME pane' \in Seq(Items), Len(pane') \in 1 .. HistoryLimit,
           execs' \in 0 .. MaxExec, produced' \in 0 .. MaxOutput,
           hasty' \in BOOLEAN, stray' \in BOOLEAN, truncated' \in BOOLEAN,
           keys' \in Seq(Keys(execs')),
           running' \in 0 .. execs', begun' \in 0 .. execs', last' \in 0 .. execs',
           prevStatus' \in {"none", "completed"} \cup TimedOut,
           prevOutput' \in Seq(Items), reported' \in Seq(Items),
           exec' = NotRunning \/ exec' \in
              [pc : {"poll"}, kind : {"command", "input", "empty"}, count : 0 .. HistoryLimit,
               seen : Seq(Items)],
           Idle'
    PROVE  BashTypeOK'
  BY Zenon DEF BashTypeOK, Keys, Idle

(* What the pane is after one more item. *)
LEMMA Shown ==
    ASSUME BashTypeOK, PromptsFit, NEW x \in Items, Show(x),
           execs' = execs, x.kind = "prompt" => x.of \in 0 .. execs
    PROVE  /\ pane' \in Seq(Items) /\ Len(pane') \in 1 .. HistoryLimit
           /\ Last(pane') = x /\ PromptsFit' /\ truncated' \in BOOLEAN
           /\ ~truncated' => ~truncated /\ pane' = Append(pane, x)
           /\ x.kind # "prompt" => Cardinality(Matches(pane')) <= Cardinality(Matches(pane))
  <1>1. /\ pane \in Seq(Items) /\ Len(pane) \in 1 .. HistoryLimit /\ HistoryLimit \in Nat
        /\ Len(pane) > 0 /\ Len(pane) \in Nat
    BY BashTypes
  <1>2. truncated' \in BOOLEAN /\ (~truncated' => ~truncated /\ Len(pane) < HistoryLimit)
    <2>1. truncated' = (truncated \/ Len(pane) >= HistoryLimit) /\ truncated \in BOOLEAN
      BY DEF Show, BashTypeOK
    <2>2. truncated' \in BOOLEAN
      BY <2>1, Zenon
    <2>3. ~truncated' => ~truncated /\ ~(Len(pane) >= HistoryLimit)
      BY <2>1, Zenon
    <2> QED
      BY <1>1, <2>2, <2>3
  <1>3. CASE Len(pane) < HistoryLimit
    <2>1. pane' = Append(pane, x)
      BY <1>3 DEF Show
    <2>2. /\ pane' \in Seq(Items) /\ Len(pane') = Len(pane) + 1 /\ pane'[Len(pane) + 1] = x
          /\ \A i \in 1 .. Len(pane) : pane'[i] = pane[i]
      BY <1>1, <2>1, AppendProperties
    <2>3. PromptsFit'
      <3> SUFFICES ASSUME NEW i \in 1 .. Len(pane'), pane'[i].kind = "prompt"
                   PROVE  pane'[i].of \in 0 .. execs
        BY DEF PromptsFit
      <3>1. i = Len(pane) + 1 \/ i \in 1 .. Len(pane)
        BY <1>1, <2>2
      <3> QED
        BY <2>2, <3>1 DEF PromptsFit
    <2>4. Len(pane') \in 1 .. HistoryLimit
      BY <1>1, <1>3, <2>2
    <2>5. Last(pane') = x
      BY <2>2 DEF Last
    <2>6. x.kind # "prompt" => Cardinality(Matches(pane')) <= Cardinality(Matches(pane))
      BY <1>1, <2>1, NoMoreMatches
    <2> QED
      BY <1>2, <2>1, <2>2, <2>3, <2>4, <2>5, <2>6
  <1>4. CASE ~(Len(pane) < HistoryLimit)
    <2>1. pane' = Append(Tail(pane), x)
      BY <1>4 DEF Show
    <2>0. /\ Tail(pane) \in Seq(Items) /\ Len(Tail(pane)) = Len(pane) - 1
          /\ \A i \in 1 .. Len(Tail(pane)) : Tail(pane)[i] = pane[i + 1]
      BY <1>1, HeadTailProperties
    <2>2. PICK q : q = Tail(pane) /\ q \in Seq(Items) /\ Len(q) = Len(pane) - 1
                   /\ \A i \in 1 .. Len(q) : q[i] = pane[i + 1]
      BY <2>0
    <2>3. /\ pane' \in Seq(Items) /\ Len(pane') = Len(q) + 1 /\ pane'[Len(q) + 1] = x
          /\ \A i \in 1 .. Len(q) : pane'[i] = q[i]
      BY <2>1, <2>2, AppendProperties
    <2>4. PromptsFit'
      <3> SUFFICES ASSUME NEW i \in 1 .. Len(pane'), pane'[i].kind = "prompt"
                   PROVE  pane'[i].of \in 0 .. execs
        BY DEF PromptsFit
      <3>1. i = Len(q) + 1 \/ i \in 1 .. Len(q)
        <4>1. Len(q) \in Nat /\ i \in 1 .. Len(q) + 1
          BY <2>2, <2>3
        <4> QED
          BY <4>1
      <3>2. i \in 1 .. Len(q) => i + 1 \in 1 .. Len(pane)
        BY <1>1, <2>2
      <3> QED
        BY <2>2, <2>3, <3>1, <3>2 DEF PromptsFit
    <2>5. Len(pane') \in 1 .. HistoryLimit
      BY <1>1, <2>2, <2>3
    <2>6. Last(pane') = x
      BY <2>3 DEF Last
    <2>7. x.kind # "prompt" => Cardinality(Matches(pane')) <= Cardinality(Matches(pane))
      BY <1>1, <2>1, NoMoreMatches
    <2> QED
      BY <1>2, <1>4, <2>3, <2>4, <2>5, <2>6, <2>7
  <1> QED
    BY <1>3, <1>4

LEMMA OneMoreInNumber ==
    ASSUME NEW s \in Seq(Items), NEW u \in Seq(Items), NEW n \in Nat, InNumber(s \o u, n),
           Output(n + 1) \in Items
    PROVE  InNumber(s \o Append(u, Output(n + 1)), n + 1)
  <1> DEFINE x == Output(n + 1)
             t == Append(u, x)
  <1>1. /\ t \in Seq(Items) /\ Len(t) = Len(u) + 1 /\ t[Len(u) + 1] = x
        /\ \A i \in 1 .. Len(u) : t[i] = u[i]
    BY AppendProperties
  <1>2. /\ Len(s \o u) = Len(s) + Len(u)
        /\ \A i \in 1 .. Len(s) + Len(u) : (s \o u)[i] = IF i <= Len(s) THEN s[i] ELSE u[i - Len(s)]
    BY ConcatProperties
  <1> HIDE DEF t
  <1>3. /\ Len(s \o t) = Len(s) + Len(t)
        /\ \A i \in 1 .. Len(s) + Len(t) : (s \o t)[i] = IF i <= Len(s) THEN s[i] ELSE t[i - Len(s)]
    BY <1>1, ConcatProperties
  <1>4. n = Len(s) + Len(u) /\ Len(s) \in Nat /\ Len(u) \in Nat /\ \A i \in 1 .. n : (s \o u)[i] = Output(i)
    BY <1>2 DEF InNumber
  <1>5. Len(s \o t) = n + 1 /\ n + 1 = Len(s) + Len(t)
    BY <1>1, <1>3, <1>4
  <1>6. ASSUME NEW i \in 1 .. n + 1 PROVE (s \o t)[i] = Output(i)
    <2>1. CASE i = n + 1
      <3>1. ~(i <= Len(s)) /\ i - Len(s) = Len(u) + 1
        BY <1>4, <2>1
      <3> QED
        BY <1>1, <1>3, <1>5, <2>1, <3>1
    <2>2. CASE i \in 1 .. n
      <3>1. i <= Len(s) \/ i - Len(s) \in 1 .. Len(u)
        BY <1>4, <2>2
      <3>2. (s \o t)[i] = (s \o u)[i]
        BY <1>1, <1>2, <1>3, <1>4, <1>5, <2>2, <3>1
      <3> QED
        BY <1>4, <2>2, <3>2
    <2>3. i = n + 1 \/ i \in 1 .. n
      BY <1>4
    <2> QED
      BY <2>1, <2>2, <2>3
  <1> QED
    BY <1>5, <1>6 DEF InNumber, t

-----------------------------------------------------------------------------
(* The shell and its program show one more item. *)
LEMMA WholeGrows ==
    ASSUME BashInv, NEW x \in Items, Show(x), execs' = execs,
           x.kind = "prompt" => x.of \in 0 .. execs,
           UNCHANGED <<prevStatus, prevOutput, exec, reported>>,
           ~hasty' /\ ~stray' => ~hasty /\ ~stray,
           \/ x = Output(produced + 1) /\ x.kind = "output" /\ produced' = produced + 1
           \/ x.kind # "output" /\ produced' = produced,
           running # 0 \/ keys # <<>>
    PROVE  PaneIsWhole'
  <1> SUFFICES ASSUME ~hasty', ~stray', ~truncated'
               PROVE  /\ pane'[1].kind = "prompt" /\ Len(pane') > 1
                      /\ ~(exec = NotRunning /\ prevStatus \in {"none", "completed"})
                      /\ IsPrefix(prevOutput, Body(pane'))
                      /\ InNumber(reported \o Unreported(prevOutput, Body(pane')), produced')
    BY DEF PaneIsWhole
  <1>1. BashTypeOK /\ PromptsFit /\ PaneIsWhole
    BY DEF BashInv
  <1>2. /\ pane \in Seq(Items) /\ Len(pane) > 0 /\ Len(pane) \in Nat /\ produced \in Nat
        /\ prevOutput \in Seq(Items) /\ reported \in Seq(Items) /\ Idle
    BY <1>1, BashTypes
  <1>3. ~hasty /\ ~stray /\ ~truncated /\ pane' = Append(pane, x)
    BY <1>1, Shown
  <1>4. /\ pane[1].kind = "prompt" /\ IsPrefix(prevOutput, Body(pane))
        /\ InNumber(reported \o Unreported(prevOutput, Body(pane)), produced)
    BY <1>1, <1>3 DEF PaneIsWhole
  <1>5. pane'[1] = pane[1] /\ Len(pane') = Len(pane) + 1
    BY <1>2, <1>3, AppendProperties
  <1>6. ~(exec = NotRunning /\ prevStatus \in {"none", "completed"})
    BY <1>2, <1>3 DEF Idle
  <1>7. Body(pane) \in Seq(Items)
    BY <1>2, <1>4, BodyOf
  <1>8. Body(pane') = IF x.kind = "prompt" THEN Body(pane) ELSE Append(Body(pane), x)
    BY <1>2, <1>3, <1>4, BodyOfMore
  <1>9. PICK b \in Seq(Items) : b = Body(pane)
    BY <1>7
  <1>10. PICK u \in Seq(Items) : u = Unreported(prevOutput, b)
    BY <1>2, UnreportedType
  <1>11. /\ IsPrefix(prevOutput, Append(b, x))
         /\ Unreported(prevOutput, Append(b, x)) = IF x.kind = "output" THEN Append(u, x) ELSE u
    BY <1>2, <1>4, <1>9, <1>10, UnreportedOfMore
  <1>12. /\ IsPrefix(prevOutput, Body(pane'))
         /\ Unreported(prevOutput, Body(pane')) = IF x.kind = "output" THEN Append(u, x) ELSE u
    BY <1>4, <1>8, <1>9, <1>10, <1>11
  <1>13. InNumber(reported \o u, produced)
    BY <1>4, <1>9, <1>10
  <1>14. InNumber(reported \o Unreported(prevOutput, Body(pane')), produced')
    <2>1. CASE x.kind = "output"
      <3>1. x = Output(produced + 1) /\ produced' = produced + 1
        BY <2>1
      <3>2. InNumber(reported \o Append(u, Output(produced + 1)), produced + 1)
        BY <1>2, <1>13, <3>1, OneMoreInNumber
      <3> QED
        BY <1>12, <2>1, <3>1, <3>2
    <2>2. CASE x.kind # "output"
      BY <1>12, <1>13, <2>2
    <2> QED
      BY <2>1, <2>2
  <1> QED
    BY <1>2, <1>4, <1>5, <1>6, <1>12, <1>14

LEMMA KeysRead ==
    ASSUME BashTypeOK, keys # <<>>
    PROVE  /\ Head(keys) \in Keys(execs) /\ Head(keys) = keys[1] /\ Len(keys) > 0
           /\ Tail(keys) \in Seq(Keys(execs)) /\ (Len(keys) = 1 => Tail(keys) = <<>>)
           /\ \A i \in 1 .. Len(Tail(keys)) : i + 1 \in 1 .. Len(keys) /\ Tail(keys)[i] = keys[i + 1]
           /\ Head(keys).id \in 1 .. execs /\ Head(keys).kind \in {"command", "input"}
           /\ Echo(Head(keys).id) \in Items /\ Echo(Head(keys).id).kind = "echo"
  <1>1. keys \in Seq(Keys(execs)) /\ Len(keys) \in Nat /\ execs \in 0 .. MaxExec /\ MaxExec \in Nat
    BY BashTypes
  <1>2. /\ Head(keys) \in Keys(execs)
        /\ Tail(keys) \in Seq(Keys(execs)) /\ Len(Tail(keys)) = Len(keys) - 1
        /\ \A i \in 1 .. Len(Tail(keys)) : Tail(keys)[i] = keys[i + 1]
    BY <1>1, HeadTailProperties
  <1>3. Len(keys) > 0 /\ Head(keys) = keys[1]
    BY <1>1
  <1>4. Head(keys).id \in 1 .. execs /\ Head(keys).kind \in {"command", "input"}
    BY <1>2 DEF Keys
  <1>5. Head(keys).id \in 0 .. MaxExec
    BY <1>1, <1>4
  <1>6. Echo(Head(keys).id) \in Items /\ Echo(Head(keys).id).kind = "echo"
    BY <1>5 DEF Echo, Items
  <1>7. PICK q \in Seq(Keys(execs)) : q = Tail(keys) /\ Len(q) = Len(keys) - 1
    BY <1>2
  <1>8. Len(q) \in Nat /\ (Len(keys) = 1 => Len(q) = 0)
    BY <1>7
  <1>9. Len(keys) = 1 => q = <<>>
    BY <1>8, EmptySeq
  <1>10. \A i \in 1 .. Len(q) : i + 1 \in 1 .. Len(keys)
    BY <1>1, <1>7, <1>8
  <1> QED
    BY <1>2, <1>3, <1>4, <1>6, <1>7, <1>9, <1>10

LEMMA ShellReadsStep == ASSUME BashInv, ShellReads PROVE BashInv'
  <1> DEFINE x == Echo(Head(keys).id)
  <1>0. BashTypeOK /\ PromptsFit /\ keys # <<>>
    BY DEF BashInv, ShellReads
  <1>1. /\ running = 0 /\ keys # <<>> /\ Show(x)
        /\ running' = Head(keys).id /\ begun' = Head(keys).id /\ keys' = Tail(keys)
        /\ stray' = (stray \/ Head(keys).kind = "input") /\ hasty' = hasty
        /\ UNCHANGED <<prevStatus, prevOutput, exec, execs, produced, reported, last>>
    BY DEF ShellReads
  <1>2. /\ Head(keys) = keys[1] /\ Len(keys) > 0
        /\ Tail(keys) \in Seq(Keys(execs)) /\ (Len(keys) = 1 => Tail(keys) = <<>>)
        /\ Head(keys).id \in 1 .. execs /\ Head(keys).kind \in {"command", "input"}
        /\ x \in Items /\ x.kind = "echo"
    BY <1>0, KeysRead
  <1>3. hasty' \in BOOLEAN /\ stray' \in BOOLEAN /\ (~hasty' /\ ~stray' => ~hasty /\ ~stray /\ Head(keys).kind # "input")
    <2>1. hasty \in BOOLEAN /\ stray \in BOOLEAN
      BY <1>0 DEF BashTypeOK
    <2>2. hasty' \in BOOLEAN /\ stray' \in BOOLEAN /\ (~hasty' /\ ~stray' => ~hasty /\ ~stray /\ ~(Head(keys).kind = "input"))
      BY <1>1, <2>1, Zenon
    <2> QED
      BY <2>2
  <1> HIDE DEF x
  <1>4. /\ pane' \in Seq(Items) /\ Len(pane') \in 1 .. HistoryLimit
        /\ Last(pane') = x /\ PromptsFit' /\ truncated' \in BOOLEAN
        /\ Cardinality(Matches(pane')) <= Cardinality(Matches(pane))
    BY <1>0, <1>1, <1>2, Shown
  <1>5. running' \in 1 .. execs /\ running' # 0 /\ execs \in Nat /\ Len(keys) \in Nat
    BY <1>0, <1>1, <1>2, BashTypes
  <1>6. ASSUME ~hasty', ~stray'
        PROVE  ~hasty /\ ~stray /\ keys[1].kind = "command" /\ Len(keys) = 1 /\ keys' = <<>> /\ exec.pc = "poll"
    <2>1. ~hasty /\ ~stray /\ keys[1].kind = "command"
      BY <1>2, <1>3, <1>6
    <2>2. 1 = Len(keys) /\ exec.pc = "poll"
      <3>1. 1 \in 1 .. Len(keys)
        BY <1>2, <1>5
      <3> QED
        BY <2>1, <3>1 DEF BashInv, CommandIsLast
    <2>3. keys' = <<>>
      BY <1>1, <1>2, <2>2
    <2> QED
      BY <2>1, <2>2, <2>3
  <1>7. exec = NotRunning => exec.pc # "poll"
    BY DEF NotRunning
  <1>8. Idle' /\ ExitCodeIsOwn'
    BY <1>1, <1>6, <1>7 DEF Idle, ExitCodeIsOwn
  <1>9. CommandIsLast'
    <2> SUFFICES ASSUME ~hasty', ~stray' PROVE \A i \in 1 .. Len(keys') : FALSE
      BY DEF CommandIsLast
    <2> QED
      BY <1>6
  <1>10. NoPromptYet'
    <2> SUFFICES ASSUME ~hasty', ~stray' PROVE Cardinality(Matches(pane')) <= exec.count
      BY <1>1 DEF NoPromptYet
    <2>1. Cardinality(Matches(pane)) <= exec.count
      BY <1>6 DEF BashInv, NoPromptYet
    <2>2. /\ Cardinality(Matches(pane)) \in Nat /\ Cardinality(Matches(pane')) \in Nat
          /\ exec.count \in Nat
      BY <1>0, <1>4, <1>6, BashTypes, MatchesFinite
    <2> QED
      BY <1>4, <2>1, <2>2
  <1>11. PaneTellsShell'
    BY <1>1, <1>2, <1>4, <1>5 DEF PaneTellsShell
  <1>12. PaneIsWhole'
    BY <1>1, <1>2, <1>3, WholeGrows
  <1>13. BashTypeOK'
    <2>1. keys' \in Seq(Keys(execs')) /\ running' \in 0 .. execs' /\ begun' \in 0 .. execs'
      BY <1>1, <1>2, <1>5
    <2>2. /\ execs' \in 0 .. MaxExec /\ produced' \in 0 .. MaxOutput /\ last' \in 0 .. execs'
          /\ prevStatus' \in {"none", "completed"} \cup TimedOut
          /\ prevOutput' \in Seq(Items) /\ reported' \in Seq(Items)
      BY <1>0, <1>1 DEF BashTypeOK
    <2>3. exec' = NotRunning \/ exec' \in
              [pc : {"poll"}, kind : {"command", "input", "empty"}, count : 0 .. HistoryLimit,
               seen : Seq(Items)]
      BY <1>0, <1>1 DEF BashTypeOK
    <2> QED
      BY <1>3, <1>4, <1>8, <2>1, <2>2, <2>3, BashTyped
  <1> QED
    BY <1>4, <1>8, <1>9, <1>10, <1>11, <1>12, <1>13 DEF BashInv

LEMMA ProgramReadsStep == ASSUME BashInv, ProgramReads PROVE BashInv'
  <1> DEFINE x == Echo(Head(keys).id)
  <1>0. BashTypeOK /\ PromptsFit /\ keys # <<>>
    BY DEF BashInv, ProgramReads
  <1>1. /\ running # 0 /\ keys # <<>> /\ Show(x)
        /\ keys' = Tail(keys)
        /\ UNCHANGED <<running, prevStatus, prevOutput, exec, execs, produced, reported, last, begun,
                       hasty, stray>>
    BY DEF ProgramReads
  <1>2. /\ Tail(keys) \in Seq(Keys(execs)) /\ x \in Items /\ x.kind = "echo"
        /\ \A i \in 1 .. Len(Tail(keys)) : i + 1 \in 1 .. Len(keys) /\ Tail(keys)[i] = keys[i + 1]
    BY <1>0, KeysRead
  <1> HIDE DEF x
  <1>4. /\ pane' \in Seq(Items) /\ Len(pane') \in 1 .. HistoryLimit
        /\ Last(pane') = x /\ PromptsFit' /\ truncated' \in BOOLEAN
        /\ Cardinality(Matches(pane')) <= Cardinality(Matches(pane))
    BY <1>0, <1>1, <1>2, Shown
  <1>5. /\ running \in 0 .. execs /\ begun \in 0 .. execs /\ execs \in Nat /\ Len(keys) \in Nat
        /\ Idle /\ keys \in Seq(Keys(execs)) /\ 0 \in 0 .. execs
    BY <1>0, BashTypes
  <1>6. ~hasty /\ ~stray => ~(exec = NotRunning /\ prevStatus \in {"none", "completed"})
    BY <1>1, <1>5 DEF Idle
  <1>7. ~hasty /\ ~stray => \A i \in 1 .. Len(keys) : keys[i].kind # "command"
    BY <1>1 DEF BashInv, CommandIsLast
  <1>8. Idle' /\ ExitCodeIsOwn'
    BY <1>1, <1>6 DEF Idle, ExitCodeIsOwn
  <1>9. CommandIsLast'
    <2> SUFFICES ASSUME ~hasty', ~stray', NEW i \in 1 .. Len(keys') PROVE keys'[i].kind # "command"
      BY DEF CommandIsLast
    <2> QED
      BY <1>1, <1>2, <1>7
  <1>10. NoPromptYet'
    <2> SUFFICES ASSUME ~hasty, ~stray, exec.pc = "poll" PROVE Cardinality(Matches(pane')) <= exec.count
      BY <1>1 DEF NoPromptYet
    <2>1. Cardinality(Matches(pane)) <= exec.count
      BY <1>1 DEF BashInv, NoPromptYet
    <2>2. /\ Cardinality(Matches(pane)) \in Nat /\ Cardinality(Matches(pane')) \in Nat
          /\ exec.count \in Nat
      BY <1>0, <1>4, BashTypes, MatchesFinite
    <2> QED
      BY <1>4, <2>1, <2>2
  <1>11. PaneTellsShell'
    BY <1>0, <1>1, <1>2, <1>4 DEF BashInv, PaneTellsShell
  <1>12. PaneIsWhole'
    BY <1>1, <1>2, WholeGrows
  <1>13. BashTypeOK'
    <2>1. keys' \in Seq(Keys(execs')) /\ produced' \in 0 .. MaxOutput
      BY <1>0, <1>1, <1>2, <1>5 DEF BashTypeOK
    <2>2. /\ execs' \in 0 .. MaxExec /\ last' \in 0 .. execs'
          /\ running' \in 0 .. execs' /\ begun' \in 0 .. execs'
          /\ prevStatus' \in {"none", "completed"} \cup TimedOut
          /\ prevOutput' \in Seq(Items) /\ reported' \in Seq(Items) /\ hasty' \in BOOLEAN /\ stray' \in BOOLEAN
      BY <1>0, <1>1, <1>5 DEF BashTypeOK
    <2>3. exec' = NotRunning \/ exec' \in
              [pc : {"poll"}, kind : {"command", "input", "empty"}, count : 0 .. HistoryLimit,
               seen : Seq(Items)]
      BY <1>0, <1>1 DEF BashTypeOK
    <2> QED
      BY <1>4, <1>8, <2>1, <2>2, <2>3, BashTyped
  <1> QED
    BY <1>4, <1>8, <1>9, <1>10, <1>11, <1>12, <1>13 DEF BashInv

LEMMA ProgramWritesStep == ASSUME BashInv, ProgramWrites PROVE BashInv'
  <1> DEFINE x == Output(produced + 1)
  <1>0. BashTypeOK /\ PromptsFit
    BY DEF BashInv
  <1>1. /\ running # 0 /\ Show(x)
        /\ produced < MaxOutput /\ produced' = produced + 1
        /\ UNCHANGED <<keys, running, prevStatus, prevOutput, exec, execs, reported, last, begun, hasty, stray>>
    BY DEF ProgramWrites
  <1>2. /\ x \in Items /\ x.kind = "output" /\ x = Output(produced + 1)
        /\ produced + 1 \in 0 .. MaxOutput
    <2>1. produced + 1 \in 1 .. MaxOutput /\ produced + 1 \in 0 .. MaxOutput
      BY <1>0, <1>1, BashTypes
    <2>2. x \in Items /\ x.kind = "output"
      BY <2>1 DEF Output, Items
    <2> QED
      BY <2>1, <2>2
  <1> HIDE DEF x
  <1>4. /\ pane' \in Seq(Items) /\ Len(pane') \in 1 .. HistoryLimit
        /\ Last(pane') = x /\ PromptsFit' /\ truncated' \in BOOLEAN
        /\ Cardinality(Matches(pane')) <= Cardinality(Matches(pane))
    BY <1>0, <1>1, <1>2, Shown
  <1>5. /\ running \in 0 .. execs /\ begun \in 0 .. execs /\ execs \in Nat /\ Len(keys) \in Nat
        /\ Idle /\ keys \in Seq(Keys(execs)) /\ 0 \in 0 .. execs
    BY <1>0, BashTypes
  <1>6. ~hasty /\ ~stray => ~(exec = NotRunning /\ prevStatus \in {"none", "completed"})
    BY <1>1, <1>5 DEF Idle
  <1>7. ~hasty /\ ~stray => \A i \in 1 .. Len(keys) : keys[i].kind # "command"
    BY <1>1 DEF BashInv, CommandIsLast
  <1>8. Idle' /\ ExitCodeIsOwn'
    BY <1>1, <1>6 DEF Idle, ExitCodeIsOwn
  <1>9. CommandIsLast'
    <2> SUFFICES ASSUME ~hasty', ~stray', NEW i \in 1 .. Len(keys') PROVE keys'[i].kind # "command"
      BY DEF CommandIsLast
    <2> QED
      BY <1>1, <1>2, <1>7
  <1>10. NoPromptYet'
    <2> SUFFICES ASSUME ~hasty, ~stray, exec.pc = "poll" PROVE Cardinality(Matches(pane')) <= exec.count
      BY <1>1 DEF NoPromptYet
    <2>1. Cardinality(Matches(pane)) <= exec.count
      BY <1>1 DEF BashInv, NoPromptYet
    <2>2. /\ Cardinality(Matches(pane)) \in Nat /\ Cardinality(Matches(pane')) \in Nat
          /\ exec.count \in Nat
      BY <1>0, <1>4, BashTypes, MatchesFinite
    <2> QED
      BY <1>4, <2>1, <2>2
  <1>11. PaneTellsShell'
    BY <1>0, <1>1, <1>2, <1>4 DEF BashInv, PaneTellsShell
  <1>12. PaneIsWhole'
    BY <1>1, <1>2, WholeGrows
  <1>13. BashTypeOK'
    <2>1. keys' \in Seq(Keys(execs')) /\ produced' \in 0 .. MaxOutput
      BY <1>0, <1>1, <1>2, <1>5
    <2>2. /\ execs' \in 0 .. MaxExec /\ last' \in 0 .. execs'
          /\ running' \in 0 .. execs' /\ begun' \in 0 .. execs'
          /\ prevStatus' \in {"none", "completed"} \cup TimedOut
          /\ prevOutput' \in Seq(Items) /\ reported' \in Seq(Items) /\ hasty' \in BOOLEAN /\ stray' \in BOOLEAN
      BY <1>0, <1>1, <1>5 DEF BashTypeOK
    <2>3. exec' = NotRunning \/ exec' \in
              [pc : {"poll"}, kind : {"command", "input", "empty"}, count : 0 .. HistoryLimit,
               seen : Seq(Items)]
      BY <1>0, <1>1 DEF BashTypeOK
    <2> QED
      BY <1>4, <1>8, <2>1, <2>2, <2>3, BashTyped
  <1> QED
    BY <1>4, <1>8, <1>9, <1>10, <1>11, <1>12, <1>13 DEF BashInv

LEMMA ProgramEndsStep == ASSUME BashInv, ProgramEnds PROVE BashInv'
  <1> DEFINE x == Prompt(running)
  <1>0. BashTypeOK /\ PromptsFit
    BY DEF BashInv
  <1>1. /\ running # 0 /\ Show(x)
        /\ running' = 0
        /\ UNCHANGED <<keys, prevStatus, prevOutput, exec, execs, produced, reported, last, begun, hasty, stray>>
    BY DEF ProgramEnds
  <1>2. x \in Items /\ x.kind = "prompt" /\ x.of \in 0 .. execs /\ x = Prompt(running)
    <2>1. running \in 0 .. execs /\ running \in 0 .. MaxExec
      BY <1>0, BashTypes
    <2>2. x \in Items /\ x.kind = "prompt" /\ x.of = running
      BY <2>1 DEF Prompt, Items
    <2> QED
      BY <2>1, <2>2
  <1> HIDE DEF x
  <1>4. /\ pane' \in Seq(Items) /\ Len(pane') \in 1 .. HistoryLimit
        /\ Last(pane') = x /\ PromptsFit' /\ truncated' \in BOOLEAN
    BY <1>0, <1>1, <1>2, Shown
  <1>5. /\ running \in 0 .. execs /\ begun \in 0 .. execs /\ execs \in Nat /\ Len(keys) \in Nat
        /\ Idle /\ keys \in Seq(Keys(execs)) /\ 0 \in 0 .. execs
    BY <1>0, BashTypes
  <1>6. ~hasty /\ ~stray => ~(exec = NotRunning /\ prevStatus \in {"none", "completed"})
    BY <1>1, <1>5 DEF Idle
  <1>7. ~hasty /\ ~stray => \A i \in 1 .. Len(keys) : keys[i].kind # "command"
    BY <1>1 DEF BashInv, CommandIsLast
  <1>8. Idle' /\ ExitCodeIsOwn'
    BY <1>1, <1>6 DEF Idle, ExitCodeIsOwn
  <1>9. CommandIsLast'
    <2> SUFFICES ASSUME ~hasty', ~stray', NEW i \in 1 .. Len(keys') PROVE keys'[i].kind # "command"
      BY DEF CommandIsLast
    <2> QED
      BY <1>1, <1>2, <1>7
  <1>10. NoPromptYet'
    <2>1. ~hasty /\ ~stray /\ Len(keys) = 1 => keys[1].kind # "command"
      BY <1>7
    <2> QED
      BY <1>1, <2>1 DEF NoPromptYet
  <1>11. PaneTellsShell'
    BY <1>0, <1>1, <1>2, <1>4 DEF BashInv, PaneTellsShell
  <1>12. PaneIsWhole'
    BY <1>1, <1>2, WholeGrows
  <1>13. BashTypeOK'
    <2>1. keys' \in Seq(Keys(execs')) /\ produced' \in 0 .. MaxOutput
      BY <1>0, <1>1, <1>2, <1>5 DEF BashTypeOK
    <2>2. /\ execs' \in 0 .. MaxExec /\ last' \in 0 .. execs'
          /\ running' \in 0 .. execs' /\ begun' \in 0 .. execs'
          /\ prevStatus' \in {"none", "completed"} \cup TimedOut
          /\ prevOutput' \in Seq(Items) /\ reported' \in Seq(Items) /\ hasty' \in BOOLEAN /\ stray' \in BOOLEAN
      BY <1>0, <1>1, <1>5 DEF BashTypeOK
    <2>3. exec' = NotRunning \/ exec' \in
              [pc : {"poll"}, kind : {"command", "input", "empty"}, count : 0 .. HistoryLimit,
               seen : Seq(Items)]
      BY <1>0, <1>1 DEF BashTypeOK
    <2> QED
      BY <1>4, <1>8, <2>1, <2>2, <2>3, BashTyped
  <1> QED
    BY <1>4, <1>8, <1>9, <1>10, <1>11, <1>12, <1>13 DEF BashInv

(* What is reported of a body whose beginning was reported before. *)
LEMMA ReportType ==
    ASSUME BashTypeOK, NEW raw \in Seq(Items), Report(raw)
    PROVE  reported' \in Seq(Items)
  <1>1. prevOutput \in Seq(Items) /\ reported \in Seq(Items)
    BY BashTypes
  <1>2. CommandOutput(raw) \in Seq(Items)
    <2>1. Len(prevOutput) + 1 \in Int /\ Len(raw) \in Int /\ Len(prevOutput) + 1 >= 1
      BY <1>1
    <2>2. \A i \in Len(prevOutput) + 1 .. Len(raw) : raw[i] \in Items
      BY <2>1, ElementOfSeq
    <2>3. SubSeq(raw, Len(prevOutput) + 1, Len(raw)) \in Seq(Items)
      BY <2>1, <2>2, SubSeqProperties
    <2> QED
      BY <2>3 DEF CommandOutput
  <1>3. Only({"output"}, CommandOutput(raw)) \in Seq(Items)
    BY <1>2, OnlyOf
  <1> QED
    BY <1>1, <1>3, ConcatProperties DEF Report

LEMMA AllReported ==
    ASSUME BashTypeOK, PaneIsWhole, ~hasty, ~stray, ~truncated, Report(Body(pane))
    PROVE  /\ Body(pane) \in Seq(Items) /\ InNumber(reported', produced)
           /\ IsPrefix(Body(pane), Body(pane))
           /\ InNumber(reported' \o Unreported(Body(pane), Body(pane)), produced)
           /\ InNumber(reported' \o <<>>, produced)
  <1>1. pane \in Seq(Items) /\ Len(pane) > 0 /\ prevOutput \in Seq(Items)
    BY BashTypes
  <1>2. /\ pane[1].kind = "prompt" /\ IsPrefix(prevOutput, Body(pane))
        /\ InNumber(reported \o Unreported(prevOutput, Body(pane)), produced)
    BY DEF PaneIsWhole
  <1>3. Body(pane) \in Seq(Items)
    BY <1>1, <1>2, BodyOf
  <1>4. reported' = reported \o Unreported(prevOutput, Body(pane))
    BY <1>2 DEF Report, CommandOutput, Unreported
  <1>5. reported' \in Seq(Items)
    BY <1>3, ReportType
  <1>6. Unreported(Body(pane), Body(pane)) = <<>> /\ IsPrefix(Body(pane), Body(pane))
    BY <1>3, NothingUnreported
  <1>7. reported' \o <<>> = reported'
    BY <1>5, ConcatEmptySeq
  <1> QED
    BY <1>2, <1>3, <1>4, <1>6, <1>7

LEMMA PollAgainStep == ASSUME BashInv, PollAgain PROVE BashInv'
  <1>0. BashTypeOK /\ exec.pc = "poll"
    BY DEF BashInv, PollAgain
  <1>1. /\ exec' = [exec EXCEPT !.seen = pane]
        /\ UNCHANGED <<pane, keys, running, prevStatus, prevOutput, execs, produced, reported,
                       last, begun, hasty, stray, truncated>>
    BY DEF PollAgain
  <1>2. /\ exec \in [pc : {"poll"}, kind : {"command", "input", "empty"},
                     count : 0 .. HistoryLimit, seen : Seq(Items)]
        /\ pane \in Seq(Items)
    BY <1>0 DEF BashTypeOK, NotRunning
  <1>3. /\ exec' \in [pc : {"poll"}, kind : {"command", "input", "empty"},
                      count : 0 .. HistoryLimit, seen : Seq(Items)]
        /\ exec'.pc = "poll" /\ exec'.count = exec.count /\ exec' # NotRunning
    BY <1>1, <1>2 DEF NotRunning
  <1>4. exec # NotRunning
    BY <1>0 DEF NotRunning
  <1>5. Idle' /\ ExitCodeIsOwn'
    BY <1>3 DEF Idle, ExitCodeIsOwn
  <1>6. BashTypeOK'
    <2>1. /\ pane' \in Seq(Items) /\ Len(pane') \in 1 .. HistoryLimit
          /\ execs' \in 0 .. MaxExec /\ produced' \in 0 .. MaxOutput
          /\ hasty' \in BOOLEAN /\ stray' \in BOOLEAN /\ truncated' \in BOOLEAN
          /\ keys' \in Seq(Keys(execs'))
          /\ running' \in 0 .. execs' /\ begun' \in 0 .. execs' /\ last' \in 0 .. execs'
          /\ prevStatus' \in {"none", "completed"} \cup TimedOut
          /\ prevOutput' \in Seq(Items) /\ reported' \in Seq(Items)
      BY <1>0, <1>1 DEF BashTypeOK, Keys
    <2> QED
      BY <1>3, <1>5, <2>1, BashTyped
  <1>7. PromptsFit' /\ PaneTellsShell'
    BY <1>1 DEF BashInv, PromptsFit, PaneTellsShell
  <1>8. CommandIsLast' /\ NoPromptYet'
    BY <1>0, <1>1, <1>3 DEF BashInv, CommandIsLast, NoPromptYet
  <1>9. PaneIsWhole'
    BY <1>0, <1>1, <1>3, <1>4 DEF BashInv, PaneIsWhole
  <1> QED
    BY <1>5, <1>6, <1>7, <1>8, <1>9 DEF BashInv

(* The pane ends with a prompt exactly when the shell waits. *)
LEMMA ShellWaits ==
    ASSUME BashTypeOK, PaneTellsShell
    PROVE  EndsWithPrompt(pane) <=> running = 0
  <1>1. pane \in Seq(Items) /\ Len(pane) > 0
    BY BashTypes
  <1>2. pane # <<>>
    BY <1>1
  <1>3. Prompt(begun).kind = "prompt"
    BY DEF Prompt
  <1> QED
    BY <1>2, <1>3 DEF EndsWithPrompt, PaneTellsShell

LEMMA PollTimesOutStep ==
    ASSUME BashInv, NEW status \in TimedOut, PollTimesOut(status)
    PROVE  BashInv'
  <1>0. BashTypeOK /\ PaneTellsShell /\ PaneIsWhole /\ exec.pc = "poll"
    BY DEF BashInv, PollTimesOut
  <1>1. /\ ~IsCompleted /\ prevStatus' = status
        /\ Report(Body(pane)) /\ prevOutput' = Body(pane) /\ exec' = NotRunning
        /\ UNCHANGED <<pane, keys, running, execs, produced, last, begun, hasty, stray, truncated>>
    BY DEF PollTimesOut, Body
  <1>2. running # 0
    BY <1>0, <1>1, ShellWaits DEF IsCompleted
  <1>3. /\ pane \in Seq(Items) /\ Len(pane) > 0 /\ Len(pane) \in Nat
        /\ Body(pane) \in Seq(Items) /\ Last(pane).kind # "prompt"
    BY <1>0, <1>2, BashTypes, CombinedType DEF Body, PaneTellsShell
  <1>4. status \notin {"none", "completed"} /\ exec'.pc # "poll"
    BY <1>1 DEF TimedOut, NotRunning
  <1>5. Idle' /\ ExitCodeIsOwn'
    BY <1>1, <1>4 DEF Idle, ExitCodeIsOwn
  <1>6. BashTypeOK'
    <2>1. /\ pane' \in Seq(Items) /\ Len(pane') \in 1 .. HistoryLimit
          /\ execs' \in 0 .. MaxExec /\ produced' \in 0 .. MaxOutput
          /\ hasty' \in BOOLEAN /\ stray' \in BOOLEAN /\ truncated' \in BOOLEAN
          /\ keys' \in Seq(Keys(execs'))
          /\ running' \in 0 .. execs' /\ begun' \in 0 .. execs' /\ last' \in 0 .. execs'
      BY <1>0, <1>1 DEF BashTypeOK, Keys
    <2>2. /\ prevStatus' \in {"none", "completed"} \cup TimedOut
          /\ prevOutput' \in Seq(Items) /\ reported' \in Seq(Items)
      BY <1>0, <1>1, <1>3, ReportType
    <2> QED
      BY <1>1, <1>5, <2>1, <2>2, BashTyped
  <1>7. PromptsFit' /\ PaneTellsShell'
    BY <1>1 DEF BashInv, PromptsFit, PaneTellsShell
  <1>8. CommandIsLast' /\ NoPromptYet'
    BY <1>1, <1>2, <1>4 DEF BashInv, CommandIsLast, NoPromptYet
  <1>9. PaneIsWhole'
    <2> SUFFICES ASSUME ~hasty, ~stray, ~truncated
                 PROVE  /\ pane[1].kind = "prompt" /\ Len(pane) > 1
                        /\ IsPrefix(Body(pane), Body(pane))
                        /\ InNumber(reported' \o Unreported(Body(pane), Body(pane)), produced)
      BY <1>1, <1>4 DEF PaneIsWhole
    <2>1. pane[1].kind = "prompt"
      BY <1>0 DEF PaneIsWhole
    <2>2. Len(pane) > 1
      BY <1>3, <2>1 DEF Last
    <2> QED
      BY <1>0, <1>1, <2>1, <2>2, AllReported
  <1> QED
    BY <1>5, <1>6, <1>7, <1>8, <1>9 DEF BashInv

LEMMA PollCompletedStep == ASSUME BashInv, PollCompleted PROVE BashInv'
  <1>0. BashTypeOK /\ PaneTellsShell /\ PaneIsWhole /\ PromptsFit /\ NoPromptYet /\ exec.pc = "poll"
    BY DEF BashInv, PollCompleted
  <1>1. /\ IsCompleted /\ last' = pane[Max(Matches(pane))].of
        /\ Report(CombineOutputs(pane, TRUE)) /\ prevStatus' = "completed" /\ prevOutput' = <<>>
        /\ ClearScreen /\ hasty' = (hasty \/ keys # <<>>) /\ stray' = stray /\ exec' = NotRunning
        /\ UNCHANGED <<keys, running, execs, produced, begun, truncated>>
    BY DEF PollCompleted, MetadataMatch
  <1>2. /\ pane \in Seq(Items) /\ Len(pane) > 0 /\ Len(pane) \in Nat
        /\ exec.count \in Nat
        /\ CombineOutputs(pane, TRUE) \in Seq(Items)
    <2>1. /\ pane \in Seq(Items) /\ Len(pane) > 0 /\ Len(pane) \in Nat
          /\ exec.count \in 0 .. HistoryLimit /\ HistoryLimit \in Nat /\ TRUE \in BOOLEAN
      BY <1>0, BashTypes
    <2>2. CombineOutputs(pane, TRUE) \in Seq(Items)
      BY <2>1, CombinedType
    <2>3. exec.count \in Nat
      BY <2>1
    <2> QED
      BY <2>1, <2>2, <2>3
  <1>3. hasty' \in BOOLEAN /\ stray' \in BOOLEAN /\ (~hasty' /\ ~stray' => ~hasty /\ ~stray /\ keys = <<>>)
    <2>1. hasty \in BOOLEAN /\ stray \in BOOLEAN
      BY <1>0 DEF BashTypeOK
    <2> QED
      BY <1>1, <2>1, Zenon
  <1>4. /\ Matches(pane) \subseteq 1 .. Len(pane) /\ Matches(pane) \subseteq Nat
        /\ IsFiniteSet(Matches(pane)) /\ Cardinality(Matches(pane)) \in Nat
    BY <1>2, MatchesFinite
  <1>5. EndsWithPrompt(pane) => Len(pane) \in Matches(pane)
    <2>1. Len(pane) \in 1 .. Len(pane)
      BY <1>2
    <2> QED
      BY <2>1 DEF EndsWithPrompt, Matches, Last
  <1>6. Matches(pane) # {}
    <2>1. CASE EndsWithPrompt(pane)
      BY <1>5, <2>1
    <2>2. CASE Cardinality(Matches(pane)) > exec.count
      BY <1>2, <1>4, <2>2, FS_EmptySet
    <2> QED
      BY <1>1, <2>1, <2>2 DEF IsCompleted
  <1>7. Max(Matches(pane)) \in Matches(pane) /\ \A j \in Matches(pane) : j <= Max(Matches(pane))
    BY <1>4, <1>6, MinMax
  <1>8. last' \in 0 .. execs
    BY <1>0, <1>1, <1>4, <1>7 DEF PromptsFit, Matches
  <1>9. ASSUME ~hasty', ~stray' PROVE running = 0 /\ EndsWithPrompt(pane)
    <2>1. running # 0 => Cardinality(Matches(pane)) <= exec.count
      BY <1>0, <1>3, <1>9 DEF NoPromptYet
    <2>2. running # 0 => ~EndsWithPrompt(pane)
      BY <1>0, ShellWaits
    <2>3. running = 0
      BY <1>1, <1>2, <1>4, <2>1, <2>2 DEF IsCompleted
    <2> QED
      BY <1>0, <2>3, ShellWaits
  <1>10. ASSUME ~hasty', ~stray' PROVE last' = begun
    <2>1. Len(pane) <= Max(Matches(pane)) /\ Max(Matches(pane)) <= Len(pane)
      BY <1>2, <1>4, <1>5, <1>7, <1>9, <1>10
    <2>2. Max(Matches(pane)) = Len(pane)
      BY <1>2, <1>4, <1>7, <2>1
    <2>3. pane[Len(pane)] = Prompt(begun)
      BY <1>0, <1>9, <1>10 DEF PaneTellsShell, Last
    <2> QED
      BY <1>1, <2>2, <2>3 DEF Prompt
  <1>11. /\ pane' = pane \/ pane' = <<Last(pane)>>
         /\ running = 0 /\ EndsWithPrompt(pane) => pane' = <<Last(pane)>>
    BY <1>1 DEF ClearScreen
  <1>12. Last(pane) \in Items /\ Last(pane) = pane[Len(pane)] /\ Len(pane) \in 1 .. Len(pane)
    BY <1>2, ElementOfSeq DEF Last
  <1>13. /\ pane' \in Seq(Items) /\ Len(pane') \in 1 .. HistoryLimit /\ Last(pane') = Last(pane)
         /\ PromptsFit'
    <2>1. CASE pane' = pane
      BY <1>0, <1>1, <2>1, BashTypes DEF PromptsFit
    <2>2. CASE pane' = <<Last(pane)>>
      <3>1. PICK x \in Items : x = Last(pane) /\ pane' = <<x>> /\ (x.kind = "prompt" => x.of \in 0 .. execs)
        BY <1>0, <1>12, <2>2 DEF PromptsFit
      <3>2. pane' \in Seq(Items) /\ Len(pane') = 1 /\ pane'[1] = x
        BY <3>1
      <3>3. 1 \in 1 .. HistoryLimit
        BY BashAssumption
      <3> QED
        BY <1>1, <3>1, <3>2, <3>3 DEF Last, PromptsFit
    <2> QED
      BY <1>11, <2>1, <2>2
  <1>14. Idle' /\ ExitCodeIsOwn'
    BY <1>1, <1>3, <1>9, <1>10 DEF Idle, ExitCodeIsOwn
  <1>15. BashTypeOK'
    <2>1. /\ execs' \in 0 .. MaxExec /\ produced' \in 0 .. MaxOutput /\ truncated' \in BOOLEAN
          /\ keys' \in Seq(Keys(execs')) /\ running' \in 0 .. execs' /\ begun' \in 0 .. execs'
      BY <1>0, <1>1 DEF BashTypeOK, Keys
    <2>2. /\ prevStatus' \in {"none", "completed"} \cup TimedOut
          /\ prevOutput' \in Seq(Items) /\ reported' \in Seq(Items) /\ last' \in 0 .. execs'
      BY <1>0, <1>1, <1>2, <1>8, ReportType, EmptySeq
    <2> QED
      BY <1>1, <1>3, <1>13, <1>14, <2>1, <2>2, BashTyped
  <1>16. PaneTellsShell'
    BY <1>0, <1>1, <1>13 DEF PaneTellsShell
  <1>17. CommandIsLast' /\ NoPromptYet'
    <2>1. exec'.pc # "poll"
      BY <1>1 DEF NotRunning
    <2>2. ~hasty' /\ ~stray' => Len(keys') = 0
      BY <1>1, <1>3
    <2> QED
      BY <2>1, <2>2 DEF CommandIsLast, NoPromptYet
  <1>18. PaneIsWhole'
    <2> SUFFICES ASSUME ~hasty', ~stray', ~truncated'
                 PROVE  /\ pane'[1].kind = "prompt" /\ Len(pane') = 1
                        /\ IsPrefix(<<>>, Body(pane'))
                        /\ InNumber(reported' \o Unreported(<<>>, Body(pane')), produced)
      <3>1. exec'.pc # "poll" /\ prevStatus' \notin TimedOut
        BY <1>1 DEF NotRunning, TimedOut
      <3> QED
        BY <1>1, <3>1 DEF PaneIsWhole
    <2>1. ~hasty /\ ~stray /\ ~truncated /\ keys = <<>> /\ running = 0 /\ EndsWithPrompt(pane)
      BY <1>1, <1>3, <1>9
    <2>2. pane[1].kind = "prompt" /\ Len(pane) > 1
      BY <1>0, <2>1 DEF PaneIsWhole
    <2>3. CombineOutputs(pane, TRUE) = Body(pane)
      <3>1. Len(pane) \in Matches(pane)
        BY <1>5, <2>1
      <3>2. Len(pane) # 1
        <4>1. \A n \in Nat : n > 1 => n # 1
          OBVIOUS
        <4> QED
          BY <1>2, <2>2, <4>1
      <3>3. Matches(pane) # {1}
        BY <3>1, <3>2
      <3> QED
        BY <1>2, <2>2, <3>3, BodyOf
    <2>4. InNumber(reported' \o <<>>, produced)
      BY <1>0, <1>1, <2>1, <2>3, AllReported
    <2>5. PICK x \in Items : x.kind = "prompt" /\ pane' = <<x>>
      BY <1>11, <1>12, <2>1 DEF EndsWithPrompt
    <2>6. Body(pane') = <<>>
      BY <2>5, BodyOfPrompt
    <2>7. Len(pane') = 1 /\ pane'[1] = x
      BY <2>5
    <2>8. IsPrefix(<<>>, <<>>) /\ Unreported(<<>>, <<>>) = <<>>
      BY <1>2, NothingUnreported
    <2> QED
      BY <2>4, <2>5, <2>6, <2>7, <2>8
  <1> QED
    BY <1>13, <1>14, <1>15, <1>16, <1>17, <1>18 DEF BashInv

LEMMA ExecuteStep ==
    ASSUME BashInv, NEW kind \in {"command", "input", "empty"}, Execute(kind)
    PROVE  BashInv'
  <1>0. BashTypeOK /\ PaneTellsShell /\ PaneIsWhole /\ PromptsFit
    BY DEF BashInv
  <1>1. /\ exec = NotRunning /\ exec.pc # "poll" /\ execs < MaxExec /\ execs' = execs + 1
        /\ UNCHANGED <<pane, running, prevStatus, produced, last, begun, hasty, stray, truncated>>
    BY DEF Execute, NotRunning
  <1>2. /\ pane \in Seq(Items) /\ Len(pane) > 0 /\ Len(pane) \in 1 .. HistoryLimit
        /\ execs \in Nat /\ execs' \in 0 .. MaxExec /\ execs + 1 \in 1 .. execs'
        /\ 0 .. execs \subseteq 0 .. execs' /\ 1 .. execs \subseteq 1 .. execs'
    BY <1>0, <1>1, BashTypes
  <1>3. keys \in Seq(Keys(execs')) /\ Len(keys) \in Nat /\ Idle
    <2>1. keys \in Seq(Keys(execs)) /\ Len(keys) \in Nat /\ Idle
      BY <1>0, BashTypes
    <2>2. Keys(execs) \subseteq Keys(execs')
      BY <1>2 DEF Keys
    <2> QED
      BY <2>1, <2>2, SeqMonotonic
  <1>4. /\ produced' \in 0 .. MaxOutput /\ hasty' \in BOOLEAN /\ stray' \in BOOLEAN /\ truncated' \in BOOLEAN
        /\ running' \in 0 .. execs' /\ begun' \in 0 .. execs' /\ last' \in 0 .. execs'
        /\ prevStatus' \in {"none", "completed"} \cup TimedOut
        /\ pane' \in Seq(Items) /\ Len(pane') \in 1 .. HistoryLimit
    BY <1>0, <1>1, <1>2 DEF BashTypeOK
  <1>5. PromptsFit' /\ PaneTellsShell'
    BY <1>0, <1>1, <1>2 DEF PromptsFit, PaneTellsShell
  <1>6. ~hasty /\ ~stray => \A i \in 1 .. Len(keys) : keys[i].kind # "command"
    BY <1>1 DEF BashInv, CommandIsLast
  <1>7. CASE RefuseWithoutCommand(kind)
    <2>1. UNCHANGED <<keys, prevOutput, exec, reported>>
      BY <1>7 DEF RefuseWithoutCommand
    <2>2. Idle' /\ ExitCodeIsOwn' /\ CommandIsLast' /\ NoPromptYet'
      BY <1>1, <1>3, <2>1 DEF BashInv, Idle, ExitCodeIsOwn, CommandIsLast, NoPromptYet
    <2>3. PaneIsWhole'
      BY <1>0, <1>1, <2>1 DEF PaneIsWhole
    <2>4. BashTypeOK'
      <3>1. prevOutput' \in Seq(Items) /\ reported' \in Seq(Items) /\ keys' \in Seq(Keys(execs'))
        BY <1>0, <1>3, <2>1, BashTypes
      <3> QED
        BY <1>1, <1>2, <1>4, <2>1, <2>2, <3>1, BashTyped
    <2> QED
      BY <1>5, <2>2, <2>3, <2>4 DEF BashInv
  <1>8. CASE RefuseCommand(kind)
    <2>1. /\ prevStatus \in TimedOut /\ UNCHANGED <<keys, exec>>
          /\ Report(Body(pane)) /\ prevOutput' = Body(pane)
      BY <1>8 DEF RefuseCommand, StillRunning, Body
    <2>2. Idle' /\ ExitCodeIsOwn' /\ CommandIsLast' /\ NoPromptYet'
      BY <1>1, <1>3, <2>1 DEF BashInv, Idle, ExitCodeIsOwn, CommandIsLast, NoPromptYet
    <2>3. PaneIsWhole'
      <3> SUFFICES ASSUME ~hasty, ~stray, ~truncated
                   PROVE  /\ pane[1].kind = "prompt" /\ Len(pane) > 1
                          /\ prevStatus \notin {"none", "completed"}
                          /\ IsPrefix(Body(pane), Body(pane))
                          /\ InNumber(reported' \o Unreported(Body(pane), Body(pane)), produced)
        BY <1>1, <2>1 DEF PaneIsWhole
      <3>1. prevStatus \notin {"none", "completed"}
        BY <2>1 DEF TimedOut
      <3>2. pane[1].kind = "prompt" /\ Len(pane) > 1
        BY <1>0, <2>1 DEF PaneIsWhole
      <3> QED
        BY <1>0, <2>1, <3>1, <3>2, AllReported
    <2>4. BashTypeOK'
      <3>1. Body(pane) \in Seq(Items) /\ keys' \in Seq(Keys(execs'))
        BY <1>2, <1>3, <2>1, CombinedType DEF Body
      <3>2. prevOutput' \in Seq(Items) /\ reported' \in Seq(Items)
        BY <1>0, <2>1, <3>1, ReportType
      <3> QED
        BY <1>1, <1>2, <1>4, <2>1, <2>2, <3>1, <3>2, BashTyped
    <2> QED
      BY <1>5, <2>2, <2>3, <2>4 DEF BashInv
  <1>9. CASE TypeKeys(kind)
    <2> DEFINE k == [kind |-> kind, id |-> execs + 1]
    <2>1. /\ kind = "command" => ~StillRunning
          /\ kind # "command" => prevStatus \in TimedOut
          /\ keys' = IF kind = "empty" THEN keys ELSE Append(keys, k)
          /\ exec' = [pc |-> "poll", kind |-> kind, count |-> Cardinality(Matches(pane)), seen |-> pane]
          /\ UNCHANGED <<prevOutput, reported>>
      BY <1>9 DEF TypeKeys
    <2>2. Cardinality(Matches(pane)) \in 0 .. HistoryLimit /\ Cardinality(Matches(pane)) \in Nat
      <3>1. Cardinality(Matches(pane)) \in 0 .. Len(pane)
        BY <1>2, MatchesFinite
      <3> QED
        BY <1>2, <3>1, BashAssumption
    <2>3. /\ exec' \in [pc : {"poll"}, kind : {"command", "input", "empty"},
                        count : 0 .. HistoryLimit, seen : Seq(Items)]
          /\ exec'.pc = "poll" /\ exec'.count = Cardinality(Matches(pane)) /\ exec' # NotRunning
      BY <1>2, <2>1, <2>2 DEF NotRunning
    <2>4. kind # "empty" => k \in Keys(execs') /\ k.kind = kind
      BY <1>2 DEF Keys
    <2> HIDE DEF k
    <2>5. ASSUME kind # "empty"
          PROVE  /\ keys' \in Seq(Keys(execs')) /\ Len(keys') = Len(keys) + 1
                 /\ keys'[Len(keys) + 1] = k /\ \A i \in 1 .. Len(keys) : keys'[i] = keys[i]
                 /\ keys' # <<>>
      <3>1. keys' = Append(keys, k)
        BY <2>1, <2>5
      <3> QED
        BY <1>3, <2>4, <2>5, <3>1, AppendProperties
    <2>6. keys' \in Seq(Keys(execs'))
      BY <1>3, <2>1, <2>5
    <2>7. Idle' /\ ExitCodeIsOwn'
      BY <2>3 DEF Idle, ExitCodeIsOwn
    <2>8. NoPromptYet'
      BY <1>1, <2>2, <2>3 DEF NoPromptYet
    <2>9. kind = "command" /\ ~hasty /\ ~stray => running = 0
      <3>1. CASE prevStatus \in TimedOut
        BY <1>0, <2>1, <3>1, ShellWaits DEF StillRunning
      <3>2. CASE prevStatus \notin TimedOut
        BY <1>1, <1>3, <1>4, <3>2 DEF Idle
      <3> QED
        BY <3>1, <3>2
    <2>10. CommandIsLast'
      <3> SUFFICES ASSUME ~hasty, ~stray, NEW i \in 1 .. Len(keys'), keys'[i].kind = "command"
                   PROVE  i = Len(keys') /\ running = 0
        BY <1>1, <2>3 DEF CommandIsLast
      <3>1. kind # "empty"
        BY <1>6, <2>1
      <3>2. i = Len(keys) + 1 \/ i \in 1 .. Len(keys)
        BY <1>3, <2>5, <3>1
      <3>3. i = Len(keys) + 1 /\ k.kind = "command"
        BY <1>6, <2>5, <3>1, <3>2
      <3> QED
        BY <2>4, <2>5, <2>9, <3>1, <3>3
    <2>11. PaneIsWhole'
      <3> SUFFICES ASSUME ~hasty, ~stray, ~truncated, keys' = <<>> PROVE Len(pane) > 1
        BY <1>0, <1>1, <2>1, <2>3 DEF PaneIsWhole
      <3>1. kind = "empty"
        BY <2>5
      <3> QED
        BY <1>0, <2>1, <3>1 DEF PaneIsWhole
    <2>12. BashTypeOK'
      <3>1. prevOutput' \in Seq(Items) /\ reported' \in Seq(Items)
        BY <1>0, <2>1, BashTypes
      <3> QED
        BY <1>2, <1>4, <2>3, <2>6, <2>7, <3>1, BashTyped
    <2> QED
      BY <1>5, <2>7, <2>8, <2>10, <2>11, <2>12 DEF BashInv
  <1> QED
    BY <1>7, <1>8, <1>9 DEF Execute

LEMMA BashInitInv == BashInit => BashInv
  <1> SUFFICES ASSUME BashInit PROVE BashInv
    OBVIOUS
  <1>1. /\ pane = <<Prompt(0)>> /\ keys = <<>> /\ running = 0 /\ prevStatus = "none"
        /\ prevOutput = <<>> /\ exec = NotRunning /\ execs = 0 /\ produced = 0
        /\ reported = <<>> /\ last = 0 /\ begun = 0
    BY DEF BashInit
  <1>2. Prompt(0) \in Items /\ Prompt(0).kind = "prompt" /\ Prompt(0).of = 0
    BY BashAssumption DEF Prompt, Items
  <1>3. PICK x \in Items : x = Prompt(0) /\ x.kind = "prompt" /\ x.of = 0 /\ pane = <<x>>
    BY <1>1, <1>2
  <1>4. pane \in Seq(Items) /\ Len(pane) = 1 /\ pane[1] = x
    BY <1>3
  <1>5. /\ 1 \in 1 .. HistoryLimit /\ 0 \in 0 .. MaxExec /\ 0 \in 0 .. MaxOutput /\ 0 \in 0 .. 0
        /\ <<>> \in Seq(Items) /\ <<>> \in Seq(Keys(0)) /\ Len(<<>>) = 0
    BY BashAssumption, EmptySeq
  <1>6. Idle
    BY <1>1 DEF Idle
  <1>7. hasty \in BOOLEAN /\ stray \in BOOLEAN /\ truncated \in BOOLEAN
    BY Zenon DEF BashInit
  <1>8. BashTypeOK
    <2>1. keys \in Seq([kind : {"command", "input"}, id : 1 .. execs])
      BY <1>1, <1>5 DEF Keys
    <2>2. prevStatus \in {"none", "completed"} \cup TimedOut
      BY <1>1
    <2>3. /\ Len(pane) \in 1 .. HistoryLimit /\ execs \in 0 .. MaxExec /\ produced \in 0 .. MaxOutput
          /\ running \in 0 .. execs /\ begun \in 0 .. execs /\ last \in 0 .. execs
          /\ prevOutput \in Seq(Items) /\ reported \in Seq(Items)
      BY <1>1, <1>4, <1>5
    <2> QED
      BY <1>1, <1>4, <1>6, <1>7, <2>1, <2>2, <2>3, Zenon DEF BashTypeOK, Idle
  <1>9. PromptsFit /\ PaneTellsShell
    BY <1>1, <1>3, <1>4, <1>5 DEF PromptsFit, PaneTellsShell, Last
  <1>10. CommandIsLast /\ NoPromptYet /\ ExitCodeIsOwn
    <2>1. exec.pc # "poll"
      BY <1>1 DEF NotRunning
    <2> QED
      BY <1>1, <1>5, <2>1 DEF CommandIsLast, NoPromptYet, ExitCodeIsOwn
  <1>11. PaneIsWhole
    <2>1. Body(pane) = <<>>
      BY <1>3, BodyOfPrompt
    <2>2. Unreported(<<>>, <<>>) = <<>> /\ IsPrefix(<<>>, <<>>)
      BY <1>5, NothingUnreported
    <2>3. <<>> \o <<>> = <<>>
      BY <1>5, ConcatEmptySeq
    <2>4. InNumber(reported \o Unreported(prevOutput, Body(pane)), produced)
      BY <1>1, <1>5, <2>1, <2>2, <2>3 DEF InNumber
    <2>5. exec.pc # "poll" /\ prevStatus \notin TimedOut
      BY <1>1 DEF NotRunning, TimedOut
    <2> QED
      BY <1>1, <1>3, <1>4, <2>1, <2>2, <2>4, <2>5 DEF PaneIsWhole
  <1> QED
    BY <1>8, <1>9, <1>10, <1>11 DEF BashInv

LEMMA BashStep == BashInv /\ [BashNext]_bashVars => BashInv'
  <1> SUFFICES ASSUME BashInv, [BashNext]_bashVars PROVE BashInv'
    OBVIOUS
  <1>1. ASSUME NEW kind \in {"command", "input", "empty"}, Execute(kind) PROVE BashInv'
    BY <1>1, ExecuteStep
  <1>2. CASE PollCompleted
    BY <1>2, PollCompletedStep
  <1>3. CASE PollAgain
    BY <1>3, PollAgainStep
  <1>4. ASSUME NEW s \in TimedOut, PollTimesOut(s) PROVE BashInv'
    BY <1>4, PollTimesOutStep
  <1>5. CASE ShellReads
    BY <1>5, ShellReadsStep
  <1>6. CASE ProgramReads
    BY <1>6, ProgramReadsStep
  <1>7. CASE ProgramWrites
    BY <1>7, ProgramWritesStep
  <1>8. CASE ProgramEnds
    BY <1>8, ProgramEndsStep
  <1>9. CASE UNCHANGED bashVars
    BY <1>9 DEF bashVars, BashInv, BashTypeOK, PromptsFit, PaneTellsShell, CommandIsLast,
                NoPromptYet, ExitCodeIsOwn, PaneIsWhole
  <1> QED
    BY <1>1, <1>2, <1>3, <1>4, <1>5, <1>6, <1>7, <1>8, <1>9 DEF BashNext

LEMMA InvReportsOwn == BashInv => ReportsAreOwn
  <1> SUFFICES ASSUME BashInv PROVE ReportsAreOwn
    OBVIOUS
  <1>0. BashTypeOK /\ CommandIsLast /\ ExitCodeIsOwn /\ PaneIsWhole
    BY DEF BashInv
  <1>1. OneCommandAtATime
    <2> SUFFICES ASSUME ~hasty, ~stray, running # 0, NEW i \in 1 .. Len(keys) PROVE keys[i].kind = "input"
      BY DEF OneCommandAtATime
    <2>1. keys[i] \in Keys(execs)
      BY <1>0, BashTypes, ElementOfSeq
    <2>2. keys[i].kind # "command"
      BY <1>0 DEF CommandIsLast
    <2> QED
      BY <2>1, <2>2 DEF Keys
  <1>2. OutputReportedOnce
    <2> SUFFICES ASSUME ~hasty, ~stray, ~truncated
                 PROVE  /\ \A i \in 1 .. Len(reported) : reported[i] = Output(i)
                        /\ exec = NotRunning /\ prevStatus = "completed" => Len(reported) = produced
      BY DEF OutputReportedOnce
    <2>1. /\ pane \in Seq(Items) /\ Len(pane) > 0 /\ Len(pane) \in Nat
          /\ prevOutput \in Seq(Items) /\ reported \in Seq(Items) /\ produced \in Nat
      BY <1>0, BashTypes
    <2>2. /\ pane[1].kind = "prompt" /\ IsPrefix(prevOutput, Body(pane))
          /\ InNumber(reported \o Unreported(prevOutput, Body(pane)), produced)
          /\ exec = NotRunning /\ prevStatus = "completed" => Len(pane) = 1
      BY <1>0 DEF PaneIsWhole
    <2>3. Body(pane) \in Seq(Items)
      BY <2>1, <2>2, BodyOf
    <2>4. PICK u \in Seq(Items) : u = Unreported(prevOutput, Body(pane))
      BY <2>1, <2>3, UnreportedType
    <2>5. /\ Len(reported \o u) = Len(reported) + Len(u)
          /\ \A i \in 1 .. Len(reported) + Len(u) :
                (reported \o u)[i] = IF i <= Len(reported) THEN reported[i] ELSE u[i - Len(reported)]
      BY <2>1, ConcatProperties
    <2>6. Len(reported) \in Nat /\ Len(u) \in Nat
      BY <2>1
    <2>7. produced = Len(reported) + Len(u) /\ \A i \in 1 .. produced : (reported \o u)[i] = Output(i)
      BY <2>2, <2>4, <2>5 DEF InNumber
    <2>8. ASSUME NEW i \in 1 .. Len(reported) PROVE reported[i] = Output(i)
      <3>1. i \in 1 .. Len(reported) + Len(u) /\ i <= Len(reported)
        BY <2>6
      <3> QED
        BY <2>5, <2>7, <3>1
    <2>9. ASSUME Len(pane) = 1 PROVE Len(reported) = produced
      <3>1. PICK x \in Items : x = pane[1] /\ x.kind = "prompt"
        BY <2>1, <2>2, ElementOfSeq
      <3>2. pane = <<x>>
        <4>1. <<x>> \in Seq(Items) /\ Len(<<x>>) = 1 /\ <<x>>[1] = x
          OBVIOUS
        <4> QED
          BY <2>1, <2>9, <3>1, <4>1, SeqEqual
      <3>3. Body(pane) = <<>>
        BY <3>1, <3>2, BodyOfPrompt
      <3>4. prevOutput = <<>>
        <4>1. Len(prevOutput) \in Nat /\ Len(prevOutput) <= 0
          BY <2>1, <2>2, <3>3, EmptySeq DEF IsPrefix
        <4>2. Len(prevOutput) = 0
          BY <4>1
        <4> QED
          BY <2>1, <4>2, EmptySeq
      <3>5. u = <<>>
        BY <2>1, <2>4, <3>3, <3>4, NothingUnreported
      <3>6. Len(u) = 0
        BY <3>5
      <3> QED
        BY <2>6, <2>7, <3>6
    <2> QED
      BY <2>2, <2>8, <2>9
  <1> QED
    BY <1>0, <1>1, <1>2 DEF ReportsAreOwn

LEMMA BashInvariant == BashSpec => []BashInv
  BY BashInitInv, BashStep, PTL DEF BashSpec

(* What BashSession.execute reports of a command is its own, for any       *)
(* number of calls, amount of output and length of the pane: no command is *)
(* typed while another runs, the exit code is that of the command that     *)
(* completed, and every piece of output is reported once and in order,     *)
(* over any number of timeouts and refusals in between.  Two races are     *)
(* excepted once they have happened: a poll that still sees the prompt     *)
(* from before the command (execute does not wait for the shell to read    *)
(* it), and input typed as the program ends, which the shell reads.        *)
THEOREM ReportsAreTheirOwn == BashSpec => []ReportsAreOwn
  BY BashInvariant, InvReportsOwn, PTL

(* BashSession is well typed, and a session whose last command completed   *)
(* has a shell that waits and nothing typed ahead of it.                   *)
THEOREM BashTypesHold == BashSpec => []BashTypeOK
  <1>1. BashInv => BashTypeOK
    BY DEF BashInv
  <1> QED
    BY <1>1, BashInvariant, PTL
=============================================================================
