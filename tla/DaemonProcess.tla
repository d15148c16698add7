--------------------------- MODULE DaemonProcess ---------------------------
(***************************************************************************)
(* The daemon as a process: the lock that keeps it alone, the socket by    *)
(* which it is found, its start on demand by a client and its end          *)
(* (Listen, acquireLock and shutdown of server.go; ensureDaemonDetached of *)
(* cmd/ht/main.go; daemon_probe.go and Connect of client.go).              *)
(*                                                                         *)
(* Processes share three names in one directory.  The lock file is locked  *)
(* by flock, so the kernel drops the lock with its holder.  The socket     *)
(* path names the socket of whoever bound it last, listening or not, and   *)
(* it is removed by path: by the next daemon, by the listener's Close and  *)
(* once more by shutdown.  So is the pid file.                             *)
(*                                                                         *)
(* A daemon has two threads here: main, in Listen, and the goroutine that  *)
(* runs shutdown.  When Listen returns the process ends, whatever the      *)
(* other thread still has to do.                                           *)
(***************************************************************************)
EXTENDS Naturals

CONSTANTS
  Daemon,   \* bound: processes that run `ht daemon`
  Client,   \* processes that run `ht attach`, `new` or `restore`
  Faults,   \* "signal": SIGTERM or auto-exit; "crash": SIGKILL; "hand": `ht daemon`
            \* by hand; "slow": the deadline may pass; "pid": no pid file can be written
  Nil, Stale

ASSUME ProcessAssumption ==
  /\ Faults \subseteq {"signal", "crash", "slow", "pid", "hand"}
  /\ {Nil, Stale} \cap Daemon = {} /\ Nil # Stale

VARIABLES
  main,     \* where Listen is: "none" before the start, "exited" at the end
  down,     \* where shutdown is: "no" before it
  lock,     \* the holder, or Nil
  sock,     \* whose socket the path names: a daemon, Stale (of a dead one) or Nil
  accepts,  \* the daemon's socket is listening
  pidFile,  \* whose pid the file holds
  cpc,      \* the client
  child,    \* the daemon it has started, or Nil
  peer      \* the daemon it is connected to, or Nil

procVars == <<main, down, accepts>>
nameVars == <<lock, sock, pidFile>>
cliVars  == <<cpc, child, peer>>
vars     == <<procVars, nameVars, cliVars>>

Init ==
  /\ main = [d \in Daemon |-> "none"]
  /\ down = [d \in Daemon |-> "no"]
  /\ lock = Nil
  /\ sock \in {Nil, Stale}
  /\ pidFile = sock
  /\ accepts = [d \in Daemon |-> FALSE]
  /\ cpc = [c \in Client |-> "first"]
  /\ child = [c \in Client |-> Nil]
  /\ peer = [c \in Client |-> Nil]

-----------------------------------------------------------------------------
\* Listen

\* DaemonCmd.Run, by hand.
RunDaemon(d) ==
  /\ main[d] = "none" /\ "hand" \in Faults
  /\ main' = [main EXCEPT ![d] = "begin"]
  /\ UNCHANGED <<down, accepts, nameVars, cliVars>>

\* Mutant: the result of flock is ignored.
AcquireLockAny(d) ==
  /\ main[d] = "begin"
  /\ lock' = d /\ main' = [main EXCEPT ![d] = "unlink"]
  /\ UNCHANGED <<down, accepts, sock, pidFile, cliVars>>

\* Mutant: the path is cleared before the lock is asked for.
AcquireLockLate(d) ==
  /\ main[d] = "begin"
  /\ IF lock = Nil THEN lock' = d /\ main' = [main EXCEPT ![d] = "unlink"]
                   ELSE main' = [main EXCEPT ![d] = "exited"] /\ UNCHANGED lock
  /\ sock' = Nil
  /\ UNCHANGED <<down, accepts, pidFile, cliVars>>

\* cleanStaleTmp is over; flock without waiting, or "daemon already running".
AcquireLock(d) ==
  /\ main[d] = "begin"
  /\ IF lock = Nil THEN lock' = d /\ main' = [main EXCEPT ![d] = "unlink"]
                   ELSE main' = [main EXCEPT ![d] = "exited"] /\ UNCHANGED lock
  /\ UNCHANGED <<down, accepts, sock, pidFile, cliVars>>

Unlink(d) ==
  /\ main[d] = "unlink"
  /\ sock' = Nil
  /\ main' = [main EXCEPT ![d] = "bind"]
  /\ UNCHANGED <<down, accepts, lock, pidFile, cliVars>>

\* The deferred releaseLock, and what the kernel does for a dead process.
unlocked(d) == IF lock = d THEN Nil ELSE lock

\* net.Listen fails when the path is taken.
Bind(d) ==
  /\ main[d] = "bind"
  /\ IF sock = Nil
       THEN /\ sock' = d
            /\ accepts' = [accepts EXCEPT ![d] = TRUE]
            /\ main' = [main EXCEPT ![d] = "pid"]
            /\ UNCHANGED lock
       ELSE /\ main' = [main EXCEPT ![d] = "exited"]
            /\ lock' = unlocked(d)
            /\ UNCHANGED <<sock, accepts>>
  /\ UNCHANGED <<down, pidFile, cliVars>>

WritePID(d) ==
  /\ main[d] = "pid"
  /\ pidFile' = d
  /\ main' = [main EXCEPT ![d] = "serve"]
  /\ UNCHANGED <<down, accepts, lock, sock, cliVars>>

\* ln.Close, which unlinks the path, and out.
WritePIDFail(d) ==
  /\ main[d] = "pid" /\ "pid" \in Faults
  /\ accepts' = [accepts EXCEPT ![d] = FALSE]
  /\ sock' = Nil
  /\ lock' = unlocked(d)
  /\ main' = [main EXCEPT ![d] = "exited"]
  /\ UNCHANGED <<down, pidFile, cliVars>>

-----------------------------------------------------------------------------
\* shutdown

\* The last save comes first; then s.cancel().
Shutdown(d) ==
  /\ main[d] = "serve" /\ down[d] = "no" /\ "signal" \in Faults
  /\ down' = [down EXCEPT ![d] = "listener"]
  /\ UNCHANGED <<main, accepts, nameVars, cliVars>>

CloseListener(d) ==
  /\ down[d] = "listener" /\ main[d] = "serve"
  /\ accepts' = [accepts EXCEPT ![d] = FALSE]
  /\ sock' = Nil
  /\ down' = [down EXCEPT ![d] = "lock"]
  /\ UNCHANGED <<main, lock, pidFile, cliVars>>

ReleaseLock(d) ==
  /\ down[d] = "lock" /\ main[d] = "serve"
  /\ lock' = unlocked(d)
  /\ down' = [down EXCEPT ![d] = "socket"]
  /\ UNCHANGED <<main, accepts, sock, pidFile, cliVars>>

\* The sessions are closed; os.Remove(s.socketPath).
RemoveSocket(d) ==
  /\ down[d] = "socket" /\ main[d] = "serve"
  /\ sock' = Nil
  /\ down' = [down EXCEPT ![d] = "pid"]
  /\ UNCHANGED <<main, accepts, lock, pidFile, cliVars>>

RemovePID(d) ==
  /\ down[d] = "pid" /\ main[d] = "serve"
  /\ pidFile' = Nil
  /\ down' = [down EXCEPT ![d] = "end"]
  /\ UNCHANGED <<main, accepts, lock, sock, cliVars>>

\* Accept fails, the context is done: Listen returns, and main with it.
ListenReturns(d) ==
  /\ main[d] = "serve" /\ down[d] \notin {"no", "listener"}
  /\ main' = [main EXCEPT ![d] = "exited"]
  /\ lock' = unlocked(d)
  /\ UNCHANGED <<down, accepts, sock, pidFile, cliVars>>

Crash(d) ==
  /\ "crash" \in Faults /\ main[d] \notin {"none", "exited"}
  /\ main' = [main EXCEPT ![d] = "exited"]
  /\ accepts' = [accepts EXCEPT ![d] = FALSE]
  /\ lock' = unlocked(d)
  /\ UNCHANGED <<down, sock, pidFile, cliVars>>

-----------------------------------------------------------------------------
\* Clients

\* Mutant: the file is taken for a daemon.
listeningAny == sock # Nil

listening == sock \in Daemon /\ accepts[sock]

clientTo(c, l, d) ==
  /\ cpc' = [cpc EXCEPT ![c] = l]
  /\ peer' = [peer EXCEPT ![c] = d]

\* net.Dial of ProbeDaemon, the first time, in the waiting loop, and of the
\* Connect that follows.  No such file and connection refused mean that there
\* is no daemon.
Dial(c) ==
  /\ cpc[c] \in {"first", "poll", "connect"}
  /\ \/ cpc[c] = "first" /\ clientTo(c, IF listening THEN "first-hello" ELSE "spawn",
                                     IF listening THEN sock ELSE Nil)
     \/ cpc[c] = "poll" /\ clientTo(c, IF listening THEN "poll-hello" ELSE "reap",
                                    IF listening THEN sock ELSE Nil)
     \/ cpc[c] = "connect" /\ clientTo(c, IF listening THEN "hello" ELSE "error",
                                       IF listening THEN sock ELSE Nil)
  /\ UNCHANGED <<procVars, nameVars, child>>

greets(c) == cpc[c] \in {"first-hello", "poll-hello", "hello"}

\* The handshake is answered by a daemon that accepts, or has accepted.
Handshake(c) ==
  /\ greets(c) /\ main[peer[c]] = "serve"
  /\ IF cpc[c] = "hello" THEN clientTo(c, "ok", peer[c]) ELSE clientTo(c, "connect", Nil)
  /\ UNCHANGED <<procVars, nameVars, child>>

\* The connection breaks before the answer: not a sign of no daemon, an error.
HandshakeFail(c) ==
  /\ greets(c) /\ ~accepts[peer[c]]
  /\ clientTo(c, "error", Nil)
  /\ UNCHANGED <<procVars, nameVars, child>>

Spawn(c) ==
  /\ cpc[c] = "spawn"
  /\ \E d \in Daemon :
       /\ main[d] = "none"
       /\ main' = [main EXCEPT ![d] = "begin"]
       /\ child' = [child EXCEPT ![c] = d]
  /\ cpc' = [cpc EXCEPT ![c] = "poll"]
  /\ UNCHANGED <<down, accepts, nameVars, peer>>

\* daemonProcessExited: wait4 without waiting, then sleep and probe again.
Reap(c) ==
  /\ cpc[c] = "reap"
  /\ cpc' = [cpc EXCEPT ![c] = IF main[child[c]] = "exited" THEN "error" ELSE "poll"]
  /\ UNCHANGED <<procVars, nameVars, child, peer>>

\* Mutant: only a daemon that has not got the lock is waited for so long.
DeadlineStarting(c) ==
  /\ cpc[c] = "poll" /\ main[child[c]] = "begin" /\ "slow" \in Faults
  /\ clientTo(c, "error", Nil)
  /\ UNCHANGED <<procVars, nameVars, child>>

\* Three seconds have passed since the spawn.
Deadline(c) ==
  /\ cpc[c] = "poll" /\ "slow" \in Faults
  /\ clientTo(c, "error", Nil)
  /\ UNCHANGED <<procVars, nameVars, child>>

ClientStep(c) ==
  Dial(c) \/ Handshake(c) \/ HandshakeFail(c) \/ Spawn(c) \/ Reap(c) \/ Deadline(c)

ListenStep(d) ==
  AcquireLock(d) \/ Unlink(d) \/ Bind(d) \/ WritePID(d) \/ WritePIDFail(d) \/ ListenReturns(d)

ShutdownStep(d) ==
  CloseListener(d) \/ ReleaseLock(d) \/ RemoveSocket(d) \/ RemovePID(d)

Next ==
  \/ \E d \in Daemon : RunDaemon(d) \/ ListenStep(d) \/ Shutdown(d) \/ ShutdownStep(d) \/ Crash(d)
  \/ \E c \in Client : ClientStep(c)

Spec == Init /\ [][Next]_vars

\* Processes are scheduled; a client that polls for ever meets its deadline.
FairSpec ==
  /\ Spec
  /\ \A d \in Daemon : WF_vars(ListenStep(d)) /\ WF_vars(ShutdownStep(d))
  /\ \A c \in Client : WF_vars(ClientStep(c)) /\ SF_vars(Deadline(c))

-----------------------------------------------------------------------------
\* Properties

TypeOK ==
  /\ main \in [Daemon -> {"none", "begin", "unlink", "bind", "pid", "serve", "exited"}]
  /\ down \in [Daemon -> {"no", "listener", "lock", "socket", "pid", "end"}]
  /\ lock \in Daemon \cup {Nil}
  /\ sock \in Daemon \cup {Nil, Stale} /\ pidFile \in Daemon \cup {Nil, Stale}
  /\ accepts \in [Daemon -> BOOLEAN]
  /\ cpc \in [Client -> {"first", "first-hello", "spawn", "poll", "poll-hello", "reap",
                         "connect", "hello", "ok", "error"}]
  /\ child \in [Client -> Daemon \cup {Nil}]
  /\ peer \in [Client -> Daemon \cup {Nil}]

\* Two daemons never listen at the same time, through every start, crash and
\* shutdown: the lock is taken before the socket is bound and given back after
\* the listener is closed.
OneListener == \A d, e \in Daemon : accepts[d] /\ accepts[e] => d = e

\* shutdown has removed the socket path after it gave back the lock.
LateRemoval == \E e \in Daemon : down[e] \in {"pid", "end"}

\* A daemon that serves can be found: the socket path names its socket, though
\* every daemon begins by removing what the path names, a dead one leaves its
\* socket behind and a stopping one removes it twice (Listen, shutdown).  Only
\* the second removal of a shutdown, without the lock, can hide a daemon.
Reachable ==
  \A d \in Daemon : main[d] = "serve" /\ down[d] = "no" => sock = d \/ LateRemoval

\* A client that finds no daemon gets one: nothing fails and no process dies,
\* so no client ends with an error (ensureDaemonDetached).  (It does not hold for
\* two clients: see the README.)
GetsDaemon == \A c \in Client : cpc[c] # "error"

\* A client is never left hanging, whatever becomes of the daemons: it comes to
\* a daemon's answer or to an error, by the end of the daemon it has started or
\* by the deadline (ensureDaemonDetached, Connect).
\* (With no process left to start, a client is at the bound of the model.)
Spent == \A d \in Daemon : main[d] # "none"

ClientEnds ==
  \A c \in Client : <>(cpc[c] \in {"ok", "error"} \/ (cpc[c] = "spawn" /\ Spent))
=============================================================================
