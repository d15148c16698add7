------------------------------ MODULE Registry ------------------------------
(***************************************************************************)
(* The sessions of one daemon and the state files that outlive them        *)
(* (server_attach.go, dead_state.go, persist.go, the shutdown of           *)
(* server.go), with state persistence on.                                  *)
(*                                                                         *)
(*   handlers   one request at a time each: create, attach, restore, prune *)
(*   watchers   one per committed session: final save, removal, auto-exit  *)
(*   saver      the periodic save of every session in the map              *)
(*   shutdown   by a signal or by auto-exit: a last save, then close all   *)
(*                                                                         *)
(* s.mu is held across several steps by shutdown only; every other         *)
(* critical section of it is one step.  p.mu is held for a whole save.     *)
(*                                                                         *)
(* A session's screen is the number of outputs it has seen, and a saved    *)
(* state says whose screen it is and how far it had come.  A write goes    *)
(* to the temporary file first: it truncates it, fills it and renames it,  *)
(* and a writer keeps writing to the file it opened wherever it was moved. *)
(***************************************************************************)
EXTENDS Integers, FiniteSets

CONSTANTS
  Names,      \* session names
  Sess,       \* bound: sessions that are ever started
  Handler,    \* connections with a control request
  Kinds,      \* requests they make
  Faults,     \* what may fail: see FaultKinds
  AutoExit,   \* auto_exit of the configuration
  MaxOut,     \* bound: outputs of a session
  MaxTick,    \* bound: periodic saves
  MaxStart,   \* bound: starts of the daemon
  Nil, NoFile, Torn

FaultKinds == {"start", "attach", "remove", "write", "crash", "signal", "clean"}

ASSUME RegistryAssumption ==
  /\ Kinds \subseteq {"create", "force", "attach", "restore", "prune"}
  /\ Faults \subseteq FaultKinds
  /\ AutoExit \in BOOLEAN
  /\ MaxOut \in Nat /\ MaxTick \in Nat /\ MaxStart \in Nat
  /\ Nil \notin Names \cup Sess \cup Handler
  /\ NoFile # Torn
  /\ Sess \cap Handler = {}
  /\ {"saver", "stop"} \cap (Sess \cup Handler \cup {Nil}) = {}

State == [by : Sess, at : 0 .. MaxOut]

ASSUME FileAssumption == {NoFile, Torn, Nil} \cap State = {}

\* Everyone that writes state files.
Writer == {"saver", "stop"} \cup Sess \cup Handler

VARIABLES
  \* session objects
  life,      \* "none", "run", "done" (s.done is closed), "closed" (close() too)
  sname,     \* Session.Name
  out,       \* the screen
  base,      \* the state it was restored from, or NoFile
  writers,   \* the clients whose writeLoop has not ended
  watch,     \* watchSession
  \* the server
  sessions,  \* name -> session or Nil
  stop,      \* "no", "saving", "cancelled", "closing", "reset", "down"
  starts, ticks,
  \* state files, and the writes in progress
  file, tmp, \* name -> State, NoFile or Torn
  wr,
  pmu,       \* holder of p.mu, or Nil
  queue,     \* saveAllWith: sessions of the copied map still to be saved
  req        \* the request of each handler, where it is and what it has read

sessVars  == <<life, sname, out, base, writers, watch>>
fileVars  == <<file, tmp>>
writeVars == <<wr, pmu, queue>>
countVars == <<starts, ticks>>

vars == <<sessVars, sessions, stop, countVars, fileVars, writeVars, req>>

-----------------------------------------------------------------------------
Idle == [pc |-> "idle", n |-> Nil, data |-> NoFile, at |-> "gone"]

Write == [pc : {"idle", "open", "fill", "rename"}, n : Names \cup {Nil},
          data : State \cup {NoFile}, at : {"tmp", "file", "gone"}]

\* mine: the session this handler has started; target: the one it attaches to;
\* rd: the state a restore has read; after: what follows the close of mine;
\* todo: the names left to prune.
NoReq == [pc |-> "idle", kind |-> "none", n |-> Nil, mine |-> Nil, target |-> Nil,
          rd |-> NoFile, after |-> "idle", todo |-> {}]

RequestState ==
  [pc : {"idle", "lookup", "prepare", "start", "insert", "commit", "join", "attached",
         "abandon", "close", "rollback", "writing", "names", "dir", "prune"},
   kind : {"none", "create", "force", "attach", "restore", "prune"},
   n : Names \cup {Nil}, mine : Sess \cup {Nil}, target : Sess \cup {Nil},
   rd : State \cup {NoFile}, after : {"idle", "join", "rollback"}, todo : SUBSET Names]

\* Mutant: the entry of an ended session is set to nil and not deleted.
LiveOrNil == {sessions[n] : n \in Names}

\* The sessions in the map, as listed or copied under s.mu.
Live == {sessions[n] : n \in Names} \ {Nil}

cancelled == stop \notin {"no", "saving"}

alive == stop # "down"

muFree == stop # "closing"

\* Mutant: the terminal is cleared at the end of run(), before the final save.
snapshotCleared(s) == [by |-> s, at |-> IF life[s] = "run" THEN out[s] ELSE 0]

\* Session.snapshot fails once the terminal has been closed.
snapshot(s) == [by |-> s, at |-> out[s]]

Init ==
  /\ life = [s \in Sess |-> "none"]
  /\ sname = [s \in Sess |-> Nil]
  /\ out = [s \in Sess |-> 0]
  /\ base = [s \in Sess |-> NoFile]
  /\ writers = [s \in Sess |-> {}]
  /\ watch = [s \in Sess |-> "no"]
  /\ sessions = [n \in Names |-> Nil]
  /\ stop = "no" /\ starts = 1 /\ ticks = 0
  /\ file = [n \in Names |-> NoFile]
  /\ tmp = [n \in Names |-> NoFile]
  /\ wr = [w \in Writer |-> Idle]
  /\ pmu = Nil
  /\ queue = [w \in {"saver", "stop"} |-> {}]
  /\ req = [h \in Handler |-> NoReq]

-----------------------------------------------------------------------------
\* Writing and removing state files (writeStateInDir, cleanState)

\* The writers of n that have the file open which is now at place p.
moved(p, q, n) ==
  [w \in Writer |-> IF wr[w].n = n /\ wr[w].pc = "fill" /\ wr[w].at = p
                      THEN [wr[w] EXCEPT !.at = q] ELSE wr[w]]

removeFile(n) ==
  /\ file' = [file EXCEPT ![n] = NoFile]
  /\ wr' = moved("file", "gone", n)

\* Mutant: no temporary file.
WriteOpenInPlace(w) ==
  /\ wr[w].pc = "open"
  /\ file' = [file EXCEPT ![wr[w].n] = Torn]
  /\ wr' = [wr EXCEPT ![w].pc = "fill", ![w].at = "file"]
  /\ UNCHANGED <<sessVars, sessions, stop, countVars, tmp, pmu, queue, req>>

\* os.WriteFile, first half: open with O_TRUNC.
WriteOpen(w) ==
  /\ wr[w].pc = "open"
  /\ tmp' = [tmp EXCEPT ![wr[w].n] = Torn]
  /\ wr' = [wr EXCEPT ![w].pc = "fill", ![w].at = "tmp"]
  /\ UNCHANGED <<sessVars, sessions, stop, countVars, file, pmu, queue, req>>

\* w writes d to the file that it has open, wherever that is now.
fillWith(w, d) ==
  /\ tmp' = IF wr[w].at = "tmp" THEN [tmp EXCEPT ![wr[w].n] = d] ELSE tmp
  /\ file' = IF wr[w].at = "file" THEN [file EXCEPT ![wr[w].n] = d] ELSE file

WriteFill(w) ==
  /\ wr[w].pc = "fill"
  /\ fillWith(w, wr[w].data)
  /\ wr' = [wr EXCEPT ![w].pc = "rename"]
  /\ UNCHANGED <<sessVars, sessions, stop, countVars, pmu, queue, req>>

\* The end of writeStateInDir, and with it of saveSession (which gives p.mu
\* back) or of rollbackRestoreDeadSession.
written(w) ==
  /\ pmu' = IF pmu = w THEN Nil ELSE pmu
  /\ watch' = [s \in Sess |-> IF s = w THEN "remove" ELSE watch[s]]
  /\ req' = [h \in Handler |-> IF h = w THEN NoReq ELSE req[h]]
  /\ UNCHANGED <<life, sname, out, base, writers, sessions, stop, countVars, queue>>

WriteRename(w) ==
  LET n == wr[w].n IN
  /\ wr[w].pc = "rename"
  /\ IF tmp[n] = NoFile
       THEN wr' = [wr EXCEPT ![w] = Idle] /\ UNCHANGED fileVars
       ELSE /\ file' = [file EXCEPT ![n] = tmp[n]]
            /\ tmp' = [tmp EXCEPT ![n] = NoFile]
            /\ wr' = [v \in Writer |->
                        IF v = w THEN Idle
                        ELSE IF wr[v].n # n \/ wr[v].pc # "fill" THEN wr[v]
                        ELSE [wr[v] EXCEPT !.at = IF @ = "tmp" THEN "file" ELSE "gone"]]
  /\ written(w)

\* An error: before the temporary file is there, in the middle of it (which
\* stays), or at the rename, after which it is removed.
WriteFail(w) ==
  /\ "write" \in Faults
  /\ \/ /\ wr[w].pc = "open"
        /\ UNCHANGED fileVars /\ wr' = [wr EXCEPT ![w] = Idle]
     \/ /\ wr[w].pc = "fill"
        /\ fillWith(w, Torn) /\ wr' = [wr EXCEPT ![w] = Idle]
     \/ /\ wr[w].pc = "rename"
        /\ tmp' = [tmp EXCEPT ![wr[w].n] = NoFile] /\ UNCHANGED file
        /\ wr' = [moved("tmp", "gone", wr[w].n) EXCEPT ![w] = Idle]
  /\ written(w)

WriteStep(w) == WriteOpen(w) \/ WriteFill(w) \/ WriteRename(w) \/ WriteFail(w)

\* saveSession: the lock, the snapshot and the encoding.
BeginSave(w, s) ==
  /\ pmu = Nil
  /\ pmu' = w
  /\ wr' = [wr EXCEPT ![w] = [pc |-> "open", n |-> sname[s], data |-> snapshot(s), at |-> "gone"]]

-----------------------------------------------------------------------------
\* The periodic save

Tick ==
  /\ stop = "no" /\ ticks < MaxTick
  /\ queue["saver"] = {} /\ wr["saver"].pc = "idle"
  /\ ticks' = ticks + 1
  /\ queue' = [queue EXCEPT !["saver"] = Live]
  /\ UNCHANGED <<sessVars, sessions, stop, starts, fileVars, wr, pmu, req>>

\* saveAllWith, one session of the copy; an error is kept for the report.
SaveNext(w) ==
  /\ alive /\ wr[w].pc = "idle"
  /\ \E s \in queue[w] :
       /\ queue' = [queue EXCEPT ![w] = @ \ {s}]
       /\ IF life[s] = "closed" THEN pmu = Nil /\ UNCHANGED <<wr, pmu>> ELSE BeginSave(w, s)
  /\ UNCHANGED <<sessVars, sessions, stop, countVars, fileVars, req>>

-----------------------------------------------------------------------------
\* A session's own steps

Output(s) ==
  /\ life[s] = "run" /\ out[s] < MaxOut
  /\ out' = [out EXCEPT ![s] = @ + 1]
  /\ UNCHANGED <<life, sname, base, writers, watch, sessions, stop, countVars, fileVars,
                 writeVars, req>>

\* The shell exits, or handleKill has sent it SIGHUP: run() ends.
Exit(s) ==
  /\ life[s] = "run"
  /\ life' = [life EXCEPT ![s] = "done"]
  /\ UNCHANGED <<sname, out, base, writers, watch, sessions, stop, countVars, fileVars,
                 writeVars, req>>

\* Mutant: the final save is left to the periodic one.
WatchDoneUnsaved(s) ==
  /\ watch[s] = "wait" /\ life[s] \in {"done", "closed"}
  /\ watch' = [watch EXCEPT ![s] = "remove"]
  /\ UNCHANGED <<life, sname, out, base, writers, sessions, stop, countVars, fileVars,
                 writeVars, req>>

\* watchSession: s.done is closed.  The context is looked at before p.mu is
\* asked for.
WatchDone(s) ==
  /\ watch[s] = "wait" /\ life[s] \in {"done", "closed"}
  /\ watch' = [watch EXCEPT ![s] = IF cancelled THEN "remove" ELSE "save"]
  /\ UNCHANGED <<life, sname, out, base, writers, sessions, stop, countVars, fileVars,
                 writeVars, req>>

WatchSave(s) ==
  /\ watch[s] = "save"
  /\ IF life[s] = "closed"
       THEN pmu = Nil /\ watch' = [watch EXCEPT ![s] = "remove"] /\ UNCHANGED <<wr, pmu>>
       ELSE BeginSave(s, s) /\ watch' = [watch EXCEPT ![s] = "writing"]
  /\ UNCHANGED <<life, sname, out, base, writers, sessions, stop, countVars, fileVars,
                 queue, req>>

\* Mutant: emptiness is looked at before the removal.
WatchRemoveEarly(s) ==
  /\ watch[s] = "remove" /\ muFree
  /\ sessions' = [sessions EXCEPT ![sname[s]] = Nil]
  /\ watch' = [watch EXCEPT ![s] =
                 IF AutoExit /\ \A n \in Names : sessions[n] = Nil THEN "drain" ELSE "end"]
  /\ UNCHANGED <<life, sname, out, base, writers, stop, countVars, fileVars, writeVars, req>>

\* delete by name, and the check for emptiness.
WatchRemove(s) ==
  /\ watch[s] = "remove" /\ muFree
  /\ sessions' = [sessions EXCEPT ![sname[s]] = Nil]
  /\ watch' = [watch EXCEPT ![s] =
                 IF AutoExit /\ \A n \in Names : sessions'[n] = Nil THEN "drain" ELSE "end"]
  /\ UNCHANGED <<life, sname, out, base, writers, stop, countVars, fileVars, writeVars, req>>

\* Shutdown, once: p.stop(), and saveAll copies the map.
beginShutdown ==
  IF stop = "no" THEN stop' = "saving" /\ queue' = [queue EXCEPT !["stop"] = Live]
                 ELSE UNCHANGED <<stop, queue>>

\* waitClients has returned: Shutdown.
WatchDrain(s) ==
  /\ watch[s] = "drain" /\ writers[s] = {} /\ muFree
  /\ watch' = [watch EXCEPT ![s] = "end"]
  /\ beginShutdown
  /\ UNCHANGED <<life, sname, out, base, writers, sessions, countVars, fileVars, wr, pmu, req>>

-----------------------------------------------------------------------------
\* Shutdown and the end of the process

Signal ==
  /\ "signal" \in Faults /\ stop = "no"
  /\ beginShutdown
  /\ UNCHANGED <<sessVars, sessions, countVars, fileVars, wr, pmu, req>>

\* saveAll is over: s.cancel(), then the listener and the lock.
Cancel ==
  /\ stop = "saving" /\ queue["stop"] = {} /\ wr["stop"].pc = "idle"
  /\ stop' = "cancelled"
  /\ UNCHANGED <<sessVars, sessions, countVars, fileVars, writeVars, req>>

LockSessions ==
  /\ stop = "cancelled"
  /\ stop' = "closing"
  /\ UNCHANGED <<sessVars, sessions, countVars, fileVars, writeVars, req>>

\* Session.close: it returns when run(), the child and the writers have ended.
closeSession(s) ==
  /\ life' = [life EXCEPT ![s] = "closed"]
  /\ writers' = [writers EXCEPT ![s] = {}]

\* The requests after s was closed: its clients' connections are closed with it.
disconnect(s) ==
  [h \in Handler |-> IF req[h].pc = "attached" /\ req[h].target = s THEN NoReq ELSE req[h]]

CloseNext ==
  /\ stop = "closing"
  /\ \E s \in Live :
       /\ life[s] # "closed"
       /\ closeSession(s)
       /\ req' = disconnect(s)
  /\ UNCHANGED <<sname, out, base, watch, sessions, stop, countVars, fileVars, writeVars>>

ResetSessions ==
  /\ stop = "closing" /\ \A s \in Live : life[s] = "closed"
  /\ sessions' = [n \in Names |-> Nil]
  /\ stop' = "reset"
  /\ UNCHANGED <<sessVars, countVars, fileVars, writeVars, req>>

\* What is left when the process is gone: the files.
processGone ==
  /\ stop' = "down"
  /\ life' = [s \in Sess |-> IF life[s] = "none" THEN "none" ELSE "closed"]
  /\ writers' = [s \in Sess |-> {}]
  /\ watch' = [s \in Sess |-> IF life[s] = "none" THEN "no" ELSE "end"]
  /\ sessions' = [n \in Names |-> Nil]
  /\ wr' = [w \in Writer |-> Idle]
  /\ pmu' = Nil
  /\ queue' = [w \in {"saver", "stop"} |-> {}]
  /\ req' = [h \in Handler |-> NoReq]
  /\ UNCHANGED <<sname, out, base, countVars, fileVars>>

\* Accept fails on the closed listener, Listen returns and main with it,
\* whether shutdown has gone on or not.
ProcessExit == stop \in {"cancelled", "closing", "reset"} /\ processGone

Crash == "crash" \in Faults /\ alive /\ processGone

\* cleanStaleTmp, of this daemon or of one that will find the lock taken.
cleanStaleTmp ==
  /\ tmp' = [n \in Names |-> NoFile]
  /\ wr' = [w \in Writer |-> IF wr[w].at = "tmp" THEN [wr[w] EXCEPT !.at = "gone"] ELSE wr[w]]

Restart ==
  /\ stop = "down" /\ starts < MaxStart
  /\ cleanStaleTmp
  /\ stop' = "no" /\ starts' = starts + 1
  /\ UNCHANGED <<sessVars, sessions, ticks, file, pmu, queue, req>>

OtherDaemon ==
  /\ "clean" \in Faults /\ alive
  /\ cleanStaleTmp
  /\ UNCHANGED <<sessVars, sessions, stop, countVars, file, pmu, queue, req>>

-----------------------------------------------------------------------------
\* Requests

\* reserveSessionName keeps a name that is given.  An unnamed create or attach
\* gets one that is neither in the map nor among the state files, one of those
\* that it may as well have given.
Request(h) ==
  /\ alive /\ muFree /\ req[h].pc = "idle"
  /\ \E k \in Kinds, n \in Names :
       req' = [req EXCEPT ![h] = [NoReq EXCEPT !.pc = IF k = "prune" THEN "names" ELSE "lookup",
                                               !.kind = k, !.n = n]]
  /\ UNCHANGED <<sessVars, sessions, stop, countVars, fileVars, writeVars>>

at(h, l) == req[h].pc = l

goto(h, l) == req' = [req EXCEPT ![h].pc = l]

finish(h) == req' = [req EXCEPT ![h] = NoReq]

\* Is the name in the map?  An attach goes to that session, the others fail.
Lookup(h) ==
  LET s == sessions[req[h].n] IN
  /\ at(h, "lookup") /\ muFree
  /\ IF s = Nil THEN goto(h, "prepare")
     ELSE IF req[h].kind = "attach"
       THEN req' = [req EXCEPT ![h].pc = "join", ![h].target = s]
       ELSE finish(h)
  /\ UNCHANGED <<sessVars, sessions, stop, countVars, fileVars, writeVars>>

\* prepareCreateDeadSession without force, and readDeadSession of an attach:
\* a state that is there, readable or not, is an error.
PrepareNew(h) ==
  /\ at(h, "prepare") /\ req[h].kind \in {"create", "attach"}
  /\ IF file[req[h].n] = NoFile THEN goto(h, "start") ELSE finish(h)
  /\ UNCHANGED <<sessVars, sessions, stop, countVars, fileVars, writeVars>>

\* prepareCreateDeadSession with force.
PrepareForce(h) ==
  /\ at(h, "prepare") /\ req[h].kind = "force"
  /\ removeFile(req[h].n)
  /\ goto(h, "start")
  /\ UNCHANGED <<sessVars, sessions, stop, countVars, tmp, pmu, queue>>

\* prepareRestoreDeadSession, after its look at the map.
PrepareRestore(h) ==
  LET f == file[req[h].n] IN
  /\ at(h, "prepare") /\ req[h].kind = "restore"
  /\ IF f \in {NoFile, Torn} THEN finish(h)
     ELSE req' = [req EXCEPT ![h].pc = "start", ![h].rd = f]
  /\ UNCHANGED <<sessVars, sessions, stop, countVars, fileVars, writeVars>>

\* newSession or restoreSession.
Start(h) ==
  /\ at(h, "start")
  /\ \E s \in Sess :
       /\ life[s] = "none"
       /\ life' = [life EXCEPT ![s] = "run"]
       /\ sname' = [sname EXCEPT ![s] = req[h].n]
       /\ base' = [base EXCEPT ![s] = req[h].rd]
       /\ req' = [req EXCEPT ![h].pc = "insert", ![h].mine = s]
  /\ UNCHANGED <<out, writers, watch, sessions, stop, countVars, fileVars, writeVars>>

\* Mutant: the name is not looked up again.
InsertBlind(h) ==
  LET s == req[h].mine IN
  /\ at(h, "insert") /\ muFree
  /\ sessions' = [sessions EXCEPT ![req[h].n] = s]
  /\ IF req[h].kind \in {"create", "force"}
       THEN finish(h) /\ watch' = [watch EXCEPT ![s] = "wait"]
       ELSE /\ req' = [req EXCEPT ![h].target = s,
                         ![h].pc = IF req[h].kind = "attach" THEN "join" ELSE "commit"]
            /\ UNCHANGED watch
  /\ UNCHANGED <<life, sname, out, base, writers, stop, countVars, fileVars, writeVars>>

\* insertSessionOrExisting: the name is free.  addSession starts the watcher.
Insert(h) ==
  LET s == req[h].mine IN
  /\ at(h, "insert") /\ muFree /\ sessions[req[h].n] = Nil
  /\ sessions' = [sessions EXCEPT ![req[h].n] = s]
  /\ IF req[h].kind \in {"create", "force"}
       THEN finish(h) /\ watch' = [watch EXCEPT ![s] = "wait"]
       ELSE /\ req' = [req EXCEPT ![h].target = s,
                         ![h].pc = IF req[h].kind = "attach" THEN "join" ELSE "commit"]
            /\ UNCHANGED watch
  /\ UNCHANGED <<life, sname, out, base, writers, stop, countVars, fileVars, writeVars>>

\* insertSessionOrExisting: an attach goes on with the session it finds.
InsertExisting(h) ==
  /\ at(h, "insert") /\ muFree /\ sessions[req[h].n] # Nil
  /\ req' = [req EXCEPT ![h].pc = "close", ![h].target = sessions[req[h].n],
                        ![h].after = IF req[h].kind = "attach" THEN "join" ELSE "idle"]
  /\ UNCHANGED <<sessVars, sessions, stop, countVars, fileVars, writeVars>>

\* commitRestoreDeadSession.
Commit(h) ==
  /\ at(h, "commit")
  /\ removeFile(req[h].n)
  /\ goto(h, "join")
  /\ UNCHANGED <<sessVars, sessions, stop, countVars, tmp, pmu, queue>>

CommitFail(h) ==
  /\ at(h, "commit") /\ "remove" \in Faults
  /\ goto(h, "abandon")
  /\ UNCHANGED <<sessVars, sessions, stop, countVars, fileVars, writeVars>>

\* sess.attach succeeds; the creator starts the watcher.
Join(h) ==
  LET t == req[h].target IN
  /\ at(h, "join") /\ life[t] = "run"
  /\ writers' = [writers EXCEPT ![t] = @ \cup {h}]
  /\ watch' = IF t = req[h].mine THEN [watch EXCEPT ![t] = "wait"] ELSE watch
  /\ goto(h, "attached")
  /\ UNCHANGED <<life, sname, out, base, sessions, stop, countVars, fileVars, writeVars>>

\* Mutant: the state is not written back.
JoinFailNoRollback(h) ==
  /\ at(h, "join")
  /\ life[req[h].target] # "run" \/ "attach" \in Faults
  /\ IF req[h].target # req[h].mine THEN finish(h)
     ELSE req' = [req EXCEPT ![h].pc = "abandon",
                             ![h].after = "idle"]
  /\ UNCHANGED <<sessVars, sessions, stop, countVars, fileVars, writeVars>>

\* sess.attach fails: the session has ended, or its screen cannot be dumped.
JoinFail(h) ==
  /\ at(h, "join")
  /\ life[req[h].target] # "run" \/ "attach" \in Faults
  /\ IF req[h].target # req[h].mine THEN finish(h)
     ELSE req' = [req EXCEPT ![h].pc = "abandon",
                             ![h].after = IF req[h].kind = "restore" THEN "rollback" ELSE "idle"]
  /\ UNCHANGED <<sessVars, sessions, stop, countVars, fileVars, writeVars>>

\* removeSession: by name.
Abandon(h) ==
  /\ at(h, "abandon") /\ muFree
  /\ sessions' = [sessions EXCEPT ![req[h].n] = Nil]
  /\ goto(h, "close")
  /\ UNCHANGED <<sessVars, stop, countVars, fileVars, writeVars>>

\* sess.close of the session that was not wanted, or not obtained.
CloseOwn(h) ==
  /\ at(h, "close")
  /\ closeSession(req[h].mine)
  /\ req' = [disconnect(req[h].mine) EXCEPT ![h] =
               IF req[h].after = "idle" THEN NoReq
               ELSE [req[h] EXCEPT !.pc = req[h].after, !.mine = Nil]]
  /\ UNCHANGED <<sname, out, base, watch, sessions, stop, countVars, fileVars, writeVars>>

\* rollbackRestoreDeadSession: a write outside p.mu.
Rollback(h) ==
  /\ at(h, "rollback")
  /\ wr' = [wr EXCEPT ![h] = [pc |-> "open", n |-> req[h].n, data |-> req[h].rd, at |-> "gone"]]
  /\ goto(h, "writing")
  /\ UNCHANGED <<sessVars, sessions, stop, countVars, fileVars, pmu, queue>>

\* The client leaves, or has read the end of its session.
Leave(h) ==
  /\ at(h, "attached")
  /\ writers' = [writers EXCEPT ![req[h].target] = @ \ {h}]
  /\ finish(h)
  /\ UNCHANGED <<life, sname, out, base, watch, sessions, stop, countVars, fileVars, writeVars>>

\* newSession fails, or a state file cannot be removed: an error is all the
\* client gets.
RequestFail(h) ==
  /\ \/ at(h, "start") /\ "start" \in Faults
     \/ at(h, "prepare") /\ req[h].kind = "force" /\ "remove" \in Faults
     \/ at(h, "prune") /\ "remove" \in Faults
  /\ finish(h)
  /\ UNCHANGED <<sessVars, sessions, stop, countVars, fileVars, writeVars>>

\* pruneDeadSessions: the live names, then the directory, then one by one.
PruneNames(h) ==
  /\ at(h, "names") /\ muFree
  /\ req' = [req EXCEPT ![h].pc = "dir", ![h].todo = {n \in Names : sessions[n] = Nil}]
  /\ UNCHANGED <<sessVars, sessions, stop, countVars, fileVars, writeVars>>

PruneDir(h) ==
  LET dead == {n \in req[h].todo : file[n] # NoFile} IN
  /\ at(h, "dir")
  /\ IF dead = {} THEN finish(h) ELSE req' = [req EXCEPT ![h].pc = "prune", ![h].todo = dead]
  /\ UNCHANGED <<sessVars, sessions, stop, countVars, fileVars, writeVars>>

PruneNext(h) ==
  /\ at(h, "prune")
  /\ \E n \in req[h].todo :
       /\ removeFile(n)
       /\ IF req[h].todo = {n} THEN finish(h) ELSE req' = [req EXCEPT ![h].todo = @ \ {n}]
  /\ UNCHANGED <<sessVars, sessions, stop, countVars, tmp, pmu, queue>>

HandlerStep(h) ==
  \/ Lookup(h) \/ PrepareNew(h) \/ PrepareForce(h) \/ PrepareRestore(h)
  \/ Start(h) \/ Insert(h) \/ InsertExisting(h) \/ Commit(h) \/ Join(h) \/ JoinFail(h)
  \/ Abandon(h) \/ CloseOwn(h) \/ Rollback(h) \/ Leave(h)
  \/ RequestFail(h) \/ CommitFail(h)
  \/ PruneNames(h) \/ PruneDir(h) \/ PruneNext(h)

WatcherStep(s) == WatchDone(s) \/ WatchSave(s) \/ WatchRemove(s) \/ WatchDrain(s)

ShutdownStep == Cancel \/ LockSessions \/ CloseNext \/ ResetSessions \/ ProcessExit

Next ==
  \/ \E h \in Handler : Request(h) \/ HandlerStep(h)
  \/ \E s \in Sess : Output(s) \/ Exit(s) \/ WatcherStep(s)
  \/ \E w \in Writer : WriteStep(w)
  \/ \E w \in {"saver", "stop"} : SaveNext(w)
  \/ Tick \/ Signal \/ ShutdownStep \/ Crash \/ Restart \/ OtherDaemon

\* Goroutines are scheduled, a client reads what it is sent, and shells exit.
Fairness ==
  /\ \A h \in Handler : WF_vars(HandlerStep(h))
  /\ \A s \in Sess : WF_vars(Exit(s)) /\ WF_vars(WatcherStep(s))
  /\ \A w \in Writer : WF_vars(WriteStep(w))
  /\ \A w \in {"saver", "stop"} : WF_vars(SaveNext(w))
  /\ WF_vars(ShutdownStep)

Spec == Init /\ [][Next]_vars

FairSpec == Spec /\ Fairness

-----------------------------------------------------------------------------
\* Properties

TypeOK ==
  /\ life \in [Sess -> {"none", "run", "done", "closed"}]
  /\ sname \in [Sess -> Names \cup {Nil}]
  /\ out \in [Sess -> 0 .. MaxOut]
  /\ base \in [Sess -> State \cup {NoFile}]
  /\ writers \in [Sess -> SUBSET Handler]
  /\ watch \in [Sess -> {"no", "wait", "save", "writing", "remove", "drain", "end"}]
  /\ sessions \in [Names -> Sess \cup {Nil}]
  /\ stop \in {"no", "saving", "cancelled", "closing", "reset", "down"}
  /\ starts \in 0 .. MaxStart + 1 /\ ticks \in 0 .. MaxTick
  /\ file \in [Names -> State \cup {NoFile, Torn}]
  /\ tmp \in [Names -> State \cup {NoFile, Torn}]
  /\ wr \in [Writer -> Write]
  /\ pmu \in Writer \cup {Nil}
  /\ queue \in [{"saver", "stop"} -> SUBSET Sess]
  /\ req \in [Handler -> RequestState]

\* Until shutdown empties the map, a running session is in it under its own
\* name, or in the hands of the one handler that will insert it or close it:
\* a deletion by name (watchSession, removeSession) never takes away another
\* session, and two sessions never share a name.
NoLostSession ==
  stop \notin {"reset", "down"} =>
    \A s \in Sess : life[s] = "run" =>
      \/ sessions[sname[s]] = s
      \/ \E h \in Handler : req[h].mine = s /\ req[h].pc \in {"insert", "close"}

\* A state file is never seen half written, whoever saves, whenever the
\* process dies (writeStateInDir under p.mu).
WholeFile == \A n \in Names : file[n] # Torn

\* A save never takes a session's state file back to an older screen of it:
\* the snapshot is taken under p.mu (saveSession).
NoStaleSave ==
  [][\A n \in Names :
       /\ file[n] \notin {NoFile, Torn} /\ file'[n] \notin {NoFile, Torn}
       /\ file[n].by = file'[n].by
       => file[n].at <= file'[n].at]_vars


\* The watcher goes on to take its session off the map with the last screen of
\* it on disk (watchSession).  A save that has begun is carried through whatever
\* happens to the server meanwhile; only an error of the write, or another
\* daemon that took the temporary file away, makes up for it.  No save has
\* begun only if the context was cancelled first.
LastScreenSaved ==
  [][\A s \in Sess : watch[s] # "remove" /\ watch'[s] = "remove" =>
       IF watch[s] = "writing"
         THEN WriteFail(s) \/ tmp[sname[s]] = NoFile \/ file'[sname[s]] = snapshot(s)
         ELSE cancelled]_vars

\* What a session left behind can be restored until it is pruned, discarded by
\* a forced create or restored: it goes away only by these, or under a later
\* screen of the session restored from it.  (README.md of the repository: "its
\* saved state can be restored with `ht restore <name>` or removed with
\* `ht prune`"; without force a create is refused.  Not so with two
\* creates of one name, nor with a periodic save: see the README.)
Ended(f) == f \notin {NoFile, Torn} /\ watch[f.by] \in {"drain", "end"}

Discards(h, n) ==
  \/ at(h, "prune") /\ n \in req[h].todo
  \/ at(h, "prepare") /\ req[h].kind = "force" /\ req[h].n = n
  \/ at(h, "commit") /\ req[h].n = n

SavedStateKept ==
  [][\A n \in Names : Ended(file[n]) /\ file'[n] # file[n] =>
       IF file'[n] \in {NoFile, Torn} THEN \E h \in Handler : Discards(h, n)
                                      ELSE base[file'[n].by] = file[n]]_vars

\* A restore that fails, at whichever of its steps, leaves the state it has
\* read as it was (prepare, commit and rollback of dead_state.go).
FailedRestoreKeeps ==
  [][\A h \in Handler :
       /\ req[h].rd # NoFile /\ ~at(h, "attached") /\ req'[h].pc = "idle" /\ stop' # "down"
       => file'[req[h].n] = req[h].rd]_vars

\* A session whose create, attach or restore failed leaves no state behind.
\* (Not with a periodic save in between: see the README.)
FailedLeavesNothing ==
  \A n \in Names : file[n] \notin {NoFile, Torn} =>
    ~(life[file[n].by] = "closed" /\ watch[file[n].by] = "no")

\* Auto-exit begins a shutdown only when no session is there.
AutoExitSpares ==
  [][(\E s \in Sess : watch[s] = "drain" /\ watch'[s] = "end") /\ stop' = "saving" /\ stop = "no"
       => Live = {}]_vars

\* A daemon with auto_exit that has lost its last session goes down.  (Not when
\* the last attach has failed: see the README.)
Deserted == Live = {} /\ \E s \in Sess : life[s] = "done"

AutoExitHappens == []<>~Deserted \/ <>(stop = "down")
=============================================================================
