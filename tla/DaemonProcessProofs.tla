------------------------ MODULE DaemonProcessProofs ------------------------
(***************************************************************************)
(* That two daemons never listen at once, and that a daemon which serves   *)
(* can be found until a shutdown removes its socket path without the lock, *)
(* for any number of daemons and clients.                                  *)
(***************************************************************************)
EXTENDS DaemonProcess, TLAPS

\* The lock is held from before the socket is bound until after the listener
\* is closed.  shutdown begins in a daemon that serves, so a daemon on its way
\* up has it ahead of it.
LockedIn ==
  /\ \A d \in Daemon : main[d] \in {"none", "begin"} => down[d] = "no" /\ ~accepts[d]
  /\ \A d \in Daemon : main[d] \in {"unlink", "bind"} =>
                          lock = d /\ down[d] = "no" /\ ~accepts[d]
  /\ \A d \in Daemon : main[d] = "pid" => lock = d /\ down[d] = "no"
  /\ \A d \in Daemon : main[d] = "serve" /\ down[d] \in {"no", "listener", "lock"} => lock = d
  /\ \A d \in Daemon : accepts[d] => main[d] \in {"pid", "serve"} /\ down[d] \in {"no", "listener"}

ProcInv == TypeOK /\ LockedIn

\* The path of a daemon that has bound its socket and is not told to stop
\* names that socket, until a shutdown removes it late.
Named ==
  \A d \in Daemon :
    main[d] \in {"pid", "serve"} /\ down[d] = "no" => sock = d \/ LateRemoval

-----------------------------------------------------------------------------
LEMMA ProcInit == Init => ProcInv
  BY ProcessAssumption DEF Init, ProcInv, TypeOK, LockedIn

LEMMA ProcTypeStep == TypeOK /\ [Next]_vars => TypeOK'
<1> SUFFICES ASSUME TypeOK, [Next]_vars PROVE TypeOK'
  OBVIOUS
<1>1. CASE UNCHANGED vars
  BY <1>1 DEF TypeOK, vars, procVars, nameVars, cliVars
<1>2. ASSUME NEW d \in Daemon, RunDaemon(d) \/ ListenStep(d) \/ Shutdown(d) \/ ShutdownStep(d) \/ Crash(d)
      PROVE  TypeOK'
  <2> USE <1>2 DEF TypeOK, cliVars, nameVars, unlocked
  <2>1. CASE RunDaemon(d) BY <2>1 DEF RunDaemon
  <2>2. CASE AcquireLock(d) BY <2>2 DEF AcquireLock
  <2>3. CASE Unlink(d) BY <2>3 DEF Unlink
  <2>4. CASE Bind(d) BY <2>4 DEF Bind
  <2>5. CASE WritePID(d) BY <2>5 DEF WritePID
  <2>6. CASE WritePIDFail(d) BY <2>6 DEF WritePIDFail
  <2>7. CASE ListenReturns(d) BY <2>7 DEF ListenReturns
  <2>8. CASE Shutdown(d) BY <2>8 DEF Shutdown
  <2>9. CASE CloseListener(d) BY <2>9 DEF CloseListener
  <2>10. CASE ReleaseLock(d) BY <2>10 DEF ReleaseLock
  <2>11. CASE RemoveSocket(d) BY <2>11 DEF RemoveSocket
  <2>12. CASE RemovePID(d) BY <2>12 DEF RemovePID
  <2>13. CASE Crash(d) BY <2>13 DEF Crash
  <2> QED BY <2>1, <2>2, <2>3, <2>4, <2>5, <2>6, <2>7, <2>8, <2>9, <2>10, <2>11, <2>12,
             <2>13 DEF ListenStep, ShutdownStep
<1>3. ASSUME NEW c \in Client, ClientStep(c) PROVE TypeOK'
  <2> USE <1>3 DEF TypeOK, procVars, nameVars, clientTo
  <2>1. CASE Dial(c)
    <3>1. (IF listening THEN sock ELSE Nil) \in Daemon \cup {Nil}
      BY DEF listening
    <3> QED BY <2>1, <3>1 DEF Dial
  <2>2. CASE Handshake(c) BY <2>2 DEF Handshake, greets
  <2>3. CASE HandshakeFail(c) BY <2>3 DEF HandshakeFail, greets
  <2>4. CASE Spawn(c) BY <2>4 DEF Spawn
  <2>5. CASE Reap(c) BY <2>5 DEF Reap
  <2>6. CASE Deadline(c) BY <2>6 DEF Deadline
  <2> QED BY <2>1, <2>2, <2>3, <2>4, <2>5, <2>6 DEF ClientStep
<1> QED BY <1>1, <1>2, <1>3 DEF Next

\* A client starts a daemon, and does nothing else to one.
LEMMA ClientLeavesAlone ==
  ASSUME TypeOK, NEW c \in Client, ClientStep(c)
  PROVE  /\ UNCHANGED <<down, accepts, lock, sock, pidFile>>
         /\ \A d \in Daemon : main'[d] = main[d] \/ (main[d] = "none" /\ main'[d] = "begin")
  BY DEF ClientStep, Dial, Handshake, HandshakeFail, Spawn, Reap, Deadline, procVars, nameVars,
         TypeOK

LEMMA LockedStep == ProcInv /\ [Next]_vars => LockedIn'
<1> SUFFICES ASSUME TypeOK, LockedIn, [Next]_vars PROVE LockedIn'
  BY DEF ProcInv
<1>1. CASE UNCHANGED vars
  BY <1>1 DEF LockedIn, vars, procVars, nameVars, cliVars
<1>2. ASSUME NEW d \in Daemon, RunDaemon(d) \/ ListenStep(d) \/ Shutdown(d) \/ ShutdownStep(d) \/ Crash(d)
      PROVE  LockedIn'
  <2> USE <1>2, ProcessAssumption DEF TypeOK, LockedIn, cliVars, nameVars, unlocked
  <2>1. CASE RunDaemon(d) BY <2>1 DEF RunDaemon
  <2>2. CASE AcquireLock(d) BY <2>2 DEF AcquireLock
  <2>3. CASE Unlink(d) BY <2>3 DEF Unlink
  <2>4. CASE Bind(d) BY <2>4 DEF Bind
  <2>5. CASE WritePID(d) BY <2>5 DEF WritePID
  <2>6. CASE WritePIDFail(d) BY <2>6 DEF WritePIDFail
  <2>7. CASE ListenReturns(d) BY <2>7 DEF ListenReturns
  <2>8. CASE Shutdown(d) BY <2>8 DEF Shutdown
  <2>9. CASE CloseListener(d) BY <2>9 DEF CloseListener
  <2>10. CASE ReleaseLock(d) BY <2>10 DEF ReleaseLock
  <2>11. CASE RemoveSocket(d) BY <2>11 DEF RemoveSocket
  <2>12. CASE RemovePID(d) BY <2>12 DEF RemovePID
  <2>13. CASE Crash(d) BY <2>13 DEF Crash
  <2> QED BY <2>1, <2>2, <2>3, <2>4, <2>5, <2>6, <2>7, <2>8, <2>9, <2>10, <2>11, <2>12,
             <2>13 DEF ListenStep, ShutdownStep
<1>3. ASSUME NEW c \in Client, ClientStep(c) PROVE LockedIn'
  BY <1>3, ClientLeavesAlone DEF LockedIn
<1> QED BY <1>1, <1>2, <1>3 DEF Next

\* The state of the daemons, the names in the directory and the clients stay
\* within their types (DaemonProcess), whatever fails.
THEOREM DaemonTypeOK == Spec => []TypeOK
<1>1. Init => TypeOK BY ProcInit DEF ProcInv
<1> QED BY <1>1, ProcTypeStep, PTL DEF Spec

THEOREM DaemonInvariant == Spec => []ProcInv
<1>1. ProcInv /\ [Next]_vars => ProcInv'
  BY ProcTypeStep, LockedStep DEF ProcInv
<1> QED BY <1>1, ProcInit, PTL DEF Spec

\* At most one daemon listens: two that did would both hold the lock
\* (Listen and shutdown of server.go).
THEOREM OnlyOneListener == Spec => []OneListener
<1>1. ProcInv => OneListener
  BY DEF ProcInv, LockedIn, OneListener
<1> QED BY <1>1, DaemonInvariant, PTL

-----------------------------------------------------------------------------
LEMMA NamedStep == ProcInv /\ Named /\ [Next]_vars => Named'
<1> SUFFICES ASSUME TypeOK, LockedIn, Named, [Next]_vars PROVE Named'
  BY DEF ProcInv
<1>1. CASE UNCHANGED vars
  BY <1>1 DEF Named, LateRemoval, vars, procVars, nameVars
<1>2. ASSUME NEW d \in Daemon, RunDaemon(d) \/ ListenStep(d) \/ Shutdown(d) \/ ShutdownStep(d) \/ Crash(d)
      PROVE  Named'
  <2> USE <1>2, ProcessAssumption DEF TypeOK, LockedIn, Named, LateRemoval, cliVars, nameVars
  <2>1. CASE RunDaemon(d) BY <2>1 DEF RunDaemon
  <2>2. CASE AcquireLock(d) BY <2>2 DEF AcquireLock
  <2>3. CASE Unlink(d) BY <2>3 DEF Unlink
  <2>4. CASE Bind(d) BY <2>4 DEF Bind
  <2>5. CASE WritePID(d) BY <2>5 DEF WritePID
  <2>6. CASE WritePIDFail(d) BY <2>6 DEF WritePIDFail
  <2>7. CASE ListenReturns(d) BY <2>7 DEF ListenReturns
  <2>8. CASE Shutdown(d) BY <2>8 DEF Shutdown
  <2>9. CASE CloseListener(d) BY <2>9 DEF CloseListener
  <2>10. CASE ReleaseLock(d) BY <2>10 DEF ReleaseLock
  <2>11. CASE RemoveSocket(d) BY <2>11 DEF RemoveSocket
  <2>12. CASE RemovePID(d) BY <2>12 DEF RemovePID
  <2>13. CASE Crash(d) BY <2>13 DEF Crash
  <2> QED BY <2>1, <2>2, <2>3, <2>4, <2>5, <2>6, <2>7, <2>8, <2>9, <2>10, <2>11, <2>12,
             <2>13 DEF ListenStep, ShutdownStep
<1>3. ASSUME NEW c \in Client, ClientStep(c) PROVE Named'
  BY <1>3, ClientLeavesAlone DEF Named, LateRemoval
<1> QED BY <1>1, <1>2, <1>3 DEF Next

\* A daemon that serves is found by its path, whatever starts, stops, crashes
\* or fails around it, until a shutdown removes the path once more without the
\* lock (Listen and shutdown of server.go).
THEOREM ServingIsReachable == Spec => []Reachable
<1>1. Init => Named
  BY DEF Init, Named
<1>2. ProcInv /\ Named /\ [Next]_vars => Named'
  BY NamedStep
<1>3. Named => Reachable
  BY DEF Named, Reachable
<1> QED BY <1>1, <1>2, <1>3, DaemonInvariant, PTL DEF Spec
=============================================================================
