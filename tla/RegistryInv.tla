----------------------------- MODULE RegistryInv -----------------------------
(***************************************************************************)
(* The inductive invariants of Registry.  MapInv holds in every reachable  *)
(* state and implies NoLostSession, and so does LastInv for the final      *)
(* saves.  SaveInv holds where nothing restores, and KeepInv while nobody  *)
(* else is at the state file of a restore (Apart): they imply what is said *)
(* of the state files.                                                     *)
(***************************************************************************)
EXTENDS Registry

\* shutdown has not emptied the map.
mapped == stop \notin {"reset", "down"}

\* watchSession before and after the end of its session.
Watching == {"wait", "save", "writing", "remove"}
Ending   == {"save", "writing", "remove", "drain", "end"}

\* The map and the watchers: a session is listed under its own name, is
\* watched from its listing on at the latest, and stays listed as long as its
\* watcher has not removed it.
MapOrder ==
  /\ \A n \in Names : sessions[n] # Nil => sname[sessions[n]] = n /\ life[sessions[n]] # "none"
  /\ \A s \in Sess : life[s] = "none" => watch[s] = "no"
  /\ \A s \in Sess : life[s] # "none" => sname[s] \in Names
  /\ \A s \in Sess : watch[s] \in Ending => life[s] \in {"done", "closed"}
  /\ mapped => \A s \in Sess : watch[s] \in Watching => sessions[sname[s]] = s

\* What a handler knows of the session that it has started: nobody else has
\* it, nobody watches it, and from its insertion on it has its place in the map.
OwnOrder(h) ==
  LET r == req[h] IN
  /\ r.pc # "idle" => r.n \in Names
  /\ r.mine # Nil => life[r.mine] # "none" /\ sname[r.mine] = r.n
  /\ r.pc \in {"idle", "lookup", "prepare", "start", "rollback", "writing", "names", "dir",
               "prune"} => r.mine = Nil
  /\ r.pc \in {"insert", "commit", "abandon", "close"} => r.mine # Nil
  /\ r.pc \in {"commit", "abandon"} => r.target = r.mine
  /\ r.pc \in {"join", "attached"} => r.target # Nil /\ r.mine \in {Nil, r.target}
  /\ r.pc = "close" => r.target # Nil
  /\ r.mine # Nil /\ r.pc \in {"insert", "commit", "join", "abandon", "close"} =>
       watch[r.mine] = "no"
  /\ mapped /\ r.mine # Nil /\ r.pc \in {"commit", "join", "abandon"} => sessions[r.n] = r.mine

OwnOnce ==
  \A g, h \in Handler : req[g].mine # Nil /\ req[g].mine = req[h].mine => g = h

\* A write belongs to a watcher or a rollback that waits for it.
WriteOwner ==
  /\ \A s \in Sess : wr[s].pc # "idle" => watch[s] = "writing"
  /\ \A h \in Handler : wr[h].pc # "idle" => req[h].pc = "writing"

\* No process, no session.
DownOrder ==
  stop = "down" =>
    /\ \A s \in Sess : life[s] \in {"none", "closed"} /\ watch[s] \in {"no", "end"}
    /\ \A n \in Names : sessions[n] = Nil
    /\ \A h \in Handler : req[h] = NoReq
    /\ \A w \in Writer : wr[w] = Idle
    /\ pmu = Nil

MapInv ==
  /\ TypeOK /\ MapOrder /\ (\A h \in Handler : OwnOrder(h)) /\ OwnOnce
  /\ WriteOwner /\ DownOrder /\ NoLostSession

-----------------------------------------------------------------------------
\* Without a restore, every write holds p.mu.

\* No request restores, so none commits a restore or rolls one back.
Restores(r) == r.kind = "restore" \/ r.pc \in {"commit", "rollback", "writing"} \/ r.after = "rollback"

NoRestoring ==
  \A h \in Handler :
    /\ ~Restores(req[h])
    /\ req[h].pc \in {"lookup", "prepare", "start", "insert"} =>
         req[h].kind \in {"create", "force", "attach"}

OneWrite == \A w \in Writer : wr[w].pc # "idle" => pmu = w

\* What is queued for a save has been started, so it has a name.
QueueStarted == \A w \in {"saver", "stop"} : \A s \in queue[w] : life[s] # "none"

\* A write under way has a screen of a session that is no newer than the
\* session and no older than the state file; its temporary file is its own, or
\* has been cleaned away.
WriteData(w) ==
  LET x == wr[w] IN
  x.pc # "idle" =>
    /\ x.n \in Names /\ x.data \in State /\ x.data.at <= out[x.data.by]
    /\ file[x.n] # NoFile /\ file[x.n].by = x.data.by => file[x.n].at <= x.data.at
    /\ x.pc = "fill" => x.at = "tmp" \/ (x.at = "gone" /\ tmp[x.n] = NoFile)
    /\ x.pc = "rename" => tmp[x.n] \in {NoFile, x.data}

FileData ==
  \A n \in Names : file[n] # NoFile => file[n] \in State /\ file[n].at <= out[file[n].by]

SaveInv ==
  NoRestoring /\ OneWrite /\ QueueStarted /\ (\A w \in Writer : WriteData(w)) /\ FileData

-----------------------------------------------------------------------------
\* The final save of each session: whatever else goes on.

\* A session that is not yet inserted is not in the map, so shutdown does not
\* close it.
InsertFresh(h) ==
  req[h].pc = "insert" => sessions[req[h].n] # req[h].mine /\ life[req[h].mine] # "closed"

\* Only a shutdown closes a session that is watched.
ClosedLate ==
  \A s \in Sess : watch[s] \in {"wait", "save"} /\ life[s] = "closed" => cancelled

\* A watcher writes the last screen of its own session, under its name.
FinalSave ==
  \A s \in Sess : watch[s] = "writing" =>
    wr[s].pc # "idle" /\ wr[s].n = sname[s] /\ wr[s].data = snapshot(s)

LastInv == (\A h \in Handler : InsertFresh(h)) /\ ClosedLate /\ FinalSave

-----------------------------------------------------------------------------
\* A restore, while nobody else is at the state file of its name.

Restoring(h) ==
  /\ req[h].kind = "restore"
  /\ req[h].pc \in {"start", "insert", "commit", "abandon", "close", "rollback", "writing"}

\* From its reading of the state file to its end no other writer writes to that
\* name, and no other handler is about to remove its file.
Apart ==
  \A h \in Handler : Restoring(h) =>
    /\ \A w \in Writer \ {h} : wr[w].n # req[h].n
    /\ \A g \in Handler \ {h} : ~Discards(g, req[h].n)

\* What a handler has read, it has read to restore it.
ReadOrder(h) ==
  LET r == req[h] IN
  /\ r.pc \in {"idle", "lookup", "prepare", "names", "dir", "prune"} => r.rd = NoFile
  /\ r.rd # NoFile => r.kind = "restore"
  /\ r.pc \in {"lookup", "prepare", "start", "insert"} => r.kind \notin {"none", "prune"}
  /\ r.pc \in {"commit", "rollback", "writing"} => r.kind = "restore"
  /\ r.pc \in {"join", "attached"} /\ r.kind = "restore" => r.mine # Nil
  /\ r.pc \in {"lookup", "prepare", "start", "insert", "commit"} => r.after = "idle"
  /\ r.after = "join" => r.kind = "attach"
  /\ r.after = "rollback" => r.kind = "restore"

\* The state file is the one that was read until it is committed, and again
\* when it has been written back.
KeptOrder(h) ==
  LET r == req[h] IN
  /\ r.kind = "restore" /\ r.pc \in {"start", "insert", "commit"} => file[r.n] = r.rd
  /\ r.kind = "restore" /\ r.pc \in {"abandon", "close"} /\ r.after = "idle" => file[r.n] = r.rd
  /\ r.pc = "writing" =>
       /\ wr[h].pc # "idle" /\ wr[h].n = r.n /\ wr[h].data = r.rd
       /\ wr[h].pc = "fill" => wr[h].at = "tmp"
       /\ wr[h].pc = "rename" => tmp[r.n] = r.rd

KeepInv == \A h \in Handler : ReadOrder(h) /\ KeptOrder(h)
=============================================================================
