--------------------------- MODULE RegistryProofs ---------------------------
(***************************************************************************)
(* For any number of names, sessions, outputs and restarts of the daemon:  *)
(*                                                                         *)
(*   MapInv     no running session is ever lost from the map, whoever      *)
(*              works and whatever fails                                   *)
(*   SaveInv    where nothing restores, a state file is whole and never    *)
(*              goes back to an older screen, whoever saves                *)
(*   LastInv    a watcher that saves its session saves its last screen     *)
(*   KeepInv    a restore keeps the state that it has read, while nobody   *)
(*              else writes or removes the state file of that name         *)
(***************************************************************************)
EXTENDS RegistryInv, TLAPS

\* TypeOK, by the variables that change together.
TypeSess ==
  /\ life \in [Sess -> {"none", "run", "done", "closed"}]
  /\ sname \in [Sess -> Names \cup {Nil}]
  /\ out \in [Sess -> 0 .. MaxOut]
  /\ base \in [Sess -> State \cup {NoFile}]
  /\ writers \in [Sess -> SUBSET Handler]
  /\ watch \in [Sess -> {"no", "wait", "save", "writing", "remove", "drain", "end"}]

TypeServer ==
  /\ sessions \in [Names -> Sess \cup {Nil}]
  /\ stop \in {"no", "saving", "cancelled", "closing", "reset", "down"}
  /\ starts \in 0 .. MaxStart + 1 /\ ticks \in 0 .. MaxTick
  /\ queue \in [{"saver", "stop"} -> SUBSET Sess]

TypeFile ==
  /\ file \in [Names -> State \cup {NoFile, Torn}]
  /\ tmp \in [Names -> State \cup {NoFile, Torn}]

TypeWrite == wr \in [Writer -> Write] /\ pmu \in Writer \cup {Nil}

TypeReq == req \in [Handler -> RequestState]

Types == TypeSess /\ TypeServer /\ TypeFile /\ TypeWrite /\ TypeReq

LEMMA TypesOK == Types <=> TypeOK
  BY DEF Types, TypeOK, TypeSess, TypeServer, TypeFile, TypeWrite, TypeReq

LEMMA TypesInit == Init => Types
<1> SUFFICES ASSUME Init PROVE Types
  OBVIOUS
<1> USE RegistryAssumption DEF Init
<1>1. TypeSess BY DEF TypeSess
<1>2. TypeServer BY DEF TypeServer
<1>3. TypeFile BY DEF TypeFile
<1>4. TypeWrite BY DEF TypeWrite, Write, Idle
<1>5. TypeReq BY DEF TypeReq, RequestState, NoReq
<1> QED BY <1>1, <1>2, <1>3, <1>4, <1>5 DEF Types

-----------------------------------------------------------------------------
\* A state that is read or written

LEMMA NoReqType == NoReq \in RequestState
  BY DEF NoReq, RequestState

LEMMA IdleType == Idle \in Write
  BY DEF Idle, Write

LEMMA SnapshotType == TypeSess => \A s \in Sess : snapshot(s) \in State
  BY DEF TypeSess, snapshot, State

LEMMA MovedType ==
  ASSUME TypeWrite, NEW p, NEW q \in {"tmp", "file", "gone"}, NEW n
  PROVE  /\ moved(p, q, n) \in [Writer -> Write]
         /\ \A w \in Writer : moved(p, q, n)[w].pc = wr[w].pc
  BY DEF TypeWrite, moved, Write

LEMMA CleanType ==
  ASSUME TypeFile, TypeWrite, cleanStaleTmp
  PROVE  /\ tmp' \in [Names -> State \cup {NoFile, Torn}]
         /\ wr' \in [Writer -> Write]
         /\ \A w \in Writer : wr'[w].pc = wr[w].pc
  BY DEF cleanStaleTmp, TypeFile, TypeWrite, Write

LEMMA WrittenType ==
  ASSUME TypeSess, TypeWrite, TypeReq, NEW w \in Writer, written(w)
  PROVE  /\ watch' \in [Sess -> {"no", "wait", "save", "writing", "remove", "drain", "end"}]
         /\ pmu' \in Writer \cup {Nil} /\ TypeReq'
  BY NoReqType DEF written, TypeSess, TypeWrite, TypeReq

-----------------------------------------------------------------------------
\* Every step keeps the types


\* A request record after the edits that the actions make

Places == {"idle", "lookup", "prepare", "start", "insert", "commit", "join", "attached",
           "abandon", "close", "rollback", "writing", "names", "dir", "prune"}

\* The request of h after its step: where it is, its session and its target.
\* Every other request is left alone.
Others(h) == TypeReq' /\ \A g \in Handler : g # h => req'[g] = req[g]

Now(h, l, m, t) ==
  /\ req'[h].pc = l /\ req'[h].mine = m /\ req'[h].target = t
  /\ req'[h].n = req[h].n /\ req'[h].kind = req[h].kind

Goes(h, l) == Now(h, l, req[h].mine, req[h].target)

Kept(h) == req'[h].rd = req[h].rd /\ req'[h].after = req[h].after /\ req'[h].todo = req[h].todo

LEMMA Edited ==
  ASSUME TypeReq, NEW h \in Handler, NEW r \in RequestState, req' = [req EXCEPT ![h] = r]
  PROVE  Others(h) /\ req'[h] = r
  BY DEF TypeReq, Others

LEMMA Gone ==
  ASSUME TypeReq, NEW h \in Handler, finish(h)
  PROVE  Others(h) /\ req'[h] = NoReq
  BY NoReqType, Edited DEF finish

LEMMA Going ==
  ASSUME TypeReq, NEW h \in Handler, NEW l \in Places, goto(h, l)
  PROVE  Others(h) /\ Goes(h, l) /\ Kept(h)
<1> DEFINE r == [req[h] EXCEPT !.pc = l]
<1>1. req[h] \in RequestState BY DEF TypeReq
<1>2. r \in RequestState BY <1>1 DEF RequestState, Places
<1>3. req' = [req EXCEPT ![h] = r] BY DEF goto, TypeReq
<1>4. r.pc = l /\ r.mine = req[h].mine /\ r.target = req[h].target /\ r.n = req[h].n
      /\ r.kind = req[h].kind /\ r.rd = req[h].rd /\ r.after = req[h].after
      /\ r.todo = req[h].todo
  BY <1>1 DEF RequestState
<1> HIDE DEF r
<1> QED BY <1>2, <1>3, <1>4, Edited DEF Goes, Now, Kept

LEMMA Targeting ==
  ASSUME TypeReq, NEW h \in Handler, NEW l \in Places, NEW t \in Sess,
         req' = [req EXCEPT ![h].pc = l, ![h].target = t]
  PROVE  Others(h) /\ Now(h, l, req[h].mine, t) /\ Kept(h)
<1> DEFINE r == [req[h] EXCEPT !.pc = l, !.target = t]
<1>1. req[h] \in RequestState BY DEF TypeReq
<1>2. r \in RequestState BY <1>1 DEF RequestState, Places
<1>3. req' = [req EXCEPT ![h] = r] BY DEF TypeReq
<1>4. r.pc = l /\ r.mine = req[h].mine /\ r.target = t /\ r.n = req[h].n
      /\ r.kind = req[h].kind /\ r.rd = req[h].rd /\ r.after = req[h].after
      /\ r.todo = req[h].todo
  BY <1>1 DEF RequestState
<1> HIDE DEF r
<1> QED BY <1>2, <1>3, <1>4, Edited DEF Now, Kept

LEMMA Listing ==
  ASSUME TypeReq, NEW h \in Handler, NEW l \in Places, NEW t \in Sess,
         req' = [req EXCEPT ![h].target = t, ![h].pc = l]
  PROVE  Others(h) /\ Now(h, l, req[h].mine, t) /\ Kept(h)
<1>1. req' = [req EXCEPT ![h].pc = l, ![h].target = t] BY DEF TypeReq, RequestState
<1> QED BY <1>1, Targeting

LEMMA Reading ==
  ASSUME TypeReq, NEW h \in Handler, NEW l \in Places, NEW f \in State,
         req' = [req EXCEPT ![h].pc = l, ![h].rd = f]
  PROVE  /\ Others(h) /\ Goes(h, l) /\ req'[h].rd = f
         /\ req'[h].after = req[h].after /\ req'[h].todo = req[h].todo
<1> DEFINE r == [req[h] EXCEPT !.pc = l, !.rd = f]
<1>1. req[h] \in RequestState BY DEF TypeReq
<1>2. r \in RequestState BY <1>1 DEF RequestState, Places
<1>3. req' = [req EXCEPT ![h] = r] BY DEF TypeReq
<1>4. r.pc = l /\ r.mine = req[h].mine /\ r.target = req[h].target /\ r.n = req[h].n
      /\ r.kind = req[h].kind /\ r.rd = f /\ r.after = req[h].after
      /\ r.todo = req[h].todo
  BY <1>1 DEF RequestState
<1> HIDE DEF r
<1> QED BY <1>2, <1>3, <1>4, Edited DEF Goes, Now

LEMMA Owning ==
  ASSUME TypeReq, NEW h \in Handler, NEW l \in Places, NEW s \in Sess,
         req' = [req EXCEPT ![h].pc = l, ![h].mine = s]
  PROVE  Others(h) /\ Now(h, l, s, req[h].target) /\ Kept(h)
<1> DEFINE r == [req[h] EXCEPT !.pc = l, !.mine = s]
<1>1. req[h] \in RequestState BY DEF TypeReq
<1>2. r \in RequestState BY <1>1 DEF RequestState, Places
<1>3. req' = [req EXCEPT ![h] = r] BY DEF TypeReq
<1>4. r.pc = l /\ r.mine = s /\ r.target = req[h].target /\ r.n = req[h].n
      /\ r.kind = req[h].kind /\ r.rd = req[h].rd /\ r.after = req[h].after
      /\ r.todo = req[h].todo
  BY <1>1 DEF RequestState
<1> HIDE DEF r
<1> QED BY <1>2, <1>3, <1>4, Edited DEF Now, Kept

LEMMA Undoing ==
  ASSUME TypeReq, NEW h \in Handler, NEW l \in Places, NEW a \in {"idle", "join", "rollback"},
         req' = [req EXCEPT ![h].pc = l, ![h].after = a]
  PROVE  /\ Others(h) /\ Goes(h, l) /\ req'[h].after = a
         /\ req'[h].rd = req[h].rd /\ req'[h].todo = req[h].todo
<1> DEFINE r == [req[h] EXCEPT !.pc = l, !.after = a]
<1>1. req[h] \in RequestState BY DEF TypeReq
<1>2. r \in RequestState BY <1>1 DEF RequestState, Places
<1>3. req' = [req EXCEPT ![h] = r] BY DEF TypeReq
<1>4. r.pc = l /\ r.mine = req[h].mine /\ r.target = req[h].target /\ r.n = req[h].n
      /\ r.kind = req[h].kind /\ r.rd = req[h].rd /\ r.after = a
      /\ r.todo = req[h].todo
  BY <1>1 DEF RequestState
<1> HIDE DEF r
<1> QED BY <1>2, <1>3, <1>4, Edited DEF Goes, Now

LEMMA Yielding ==
  ASSUME TypeReq, NEW h \in Handler, NEW l \in Places, NEW t \in Sess, NEW a \in {"idle", "join"},
         req' = [req EXCEPT ![h].pc = l, ![h].target = t, ![h].after = a]
  PROVE  /\ Others(h) /\ Now(h, l, req[h].mine, t) /\ req'[h].after = a
         /\ req'[h].rd = req[h].rd /\ req'[h].todo = req[h].todo
<1> DEFINE r == [req[h] EXCEPT !.pc = l, !.target = t, !.after = a]
<1>1. req[h] \in RequestState BY DEF TypeReq
<1>2. r \in RequestState BY <1>1 DEF RequestState, Places
<1>3. req' = [req EXCEPT ![h] = r] BY DEF TypeReq
<1>4. r.pc = l /\ r.mine = req[h].mine /\ r.target = t /\ r.n = req[h].n
      /\ r.kind = req[h].kind /\ r.rd = req[h].rd /\ r.after = a
      /\ r.todo = req[h].todo
  BY <1>1 DEF RequestState
<1> HIDE DEF r
<1> QED BY <1>2, <1>3, <1>4, Edited DEF Now

LEMMA Pruning ==
  ASSUME TypeReq, NEW h \in Handler, NEW l \in Places, NEW ns \in SUBSET Names,
         req' = [req EXCEPT ![h].pc = l, ![h].todo = ns]
  PROVE  /\ Others(h) /\ Goes(h, l) /\ req'[h].todo = ns
         /\ req'[h].rd = req[h].rd /\ req'[h].after = req[h].after
<1> DEFINE r == [req[h] EXCEPT !.pc = l, !.todo = ns]
<1>1. req[h] \in RequestState BY DEF TypeReq
<1>2. r \in RequestState BY <1>1 DEF RequestState, Places
<1>3. req' = [req EXCEPT ![h] = r] BY DEF TypeReq
<1>4. r.pc = l /\ r.mine = req[h].mine /\ r.target = req[h].target /\ r.n = req[h].n
      /\ r.kind = req[h].kind /\ r.rd = req[h].rd /\ r.after = req[h].after
      /\ r.todo = ns
  BY <1>1 DEF RequestState
<1> HIDE DEF r
<1> QED BY <1>2, <1>3, <1>4, Edited DEF Goes, Now

-----------------------------------------------------------------------------
\* Steps of a handler that leave the sessions and the map alone

Sessions == <<sessVars, sessions, stop, countVars, pmu, queue>>

LEMMA Quiet ==
  ASSUME MapInv, NEW h \in Handler, Others(h), UNCHANGED Sessions, stop # "down", TypeFile',
         wr' \in [Writer -> Write],
         \A w \in Writer : w # h => wr'[w].pc = wr[w].pc,
         wr'[h].pc # "idle" => req'[h].pc = "writing",
         req'[h].mine \in {Nil, req[h].mine},
         req[h].pc \in {"insert", "close"} =>
           req'[h].mine = req[h].mine /\ req'[h].pc \in {"insert", "close"},
         OwnOrder(h)'
  PROVE  MapInv'
<1> USE DEF MapInv
<1>1. /\ life' = life /\ sname' = sname /\ out' = out /\ base' = base /\ writers' = writers
      /\ watch' = watch /\ sessions' = sessions /\ stop' = stop /\ starts' = starts
      /\ ticks' = ticks /\ pmu' = pmu /\ queue' = queue
  BY DEF Sessions, sessVars, countVars
<1>2. TypeOK'
  BY <1>1, TypesOK DEF Types, TypeSess, TypeServer, TypeFile, TypeWrite, TypeReq, TypeOK, Others
<1>3. MapOrder'
  BY <1>1 DEF MapOrder, mapped
<1>4. \A g \in Handler : OwnOrder(g)'
  <2> SUFFICES ASSUME NEW g \in Handler, g # h PROVE OwnOrder(g)'
    OBVIOUS
  <2> QED BY <1>1 DEF OwnOrder, mapped, Others
<1>5. OwnOnce'
  BY DEF OwnOnce, Others
<1>6. WriteOwner'
  <2>1. \A w \in Writer : wr[w].pc # wr'[w].pc => w = h OBVIOUS
  <2>2. h \notin Sess /\ Sess \subseteq Writer /\ Handler \subseteq Writer
    BY RegistryAssumption DEF Writer
  <2> QED BY <1>1, <2>1, <2>2 DEF WriteOwner, Others
<1>7. DownOrder'
  BY <1>1 DEF DownOrder
<1>8. NoLostSession'
  <2> SUFFICES ASSUME stop \notin {"reset", "down"}, NEW s \in Sess, life[s] = "run",
                      sessions[sname[s]] # s
               PROVE  \E g \in Handler : req'[g].mine = s /\ req'[g].pc \in {"insert", "close"}
    BY <1>1 DEF NoLostSession
  <2>1. PICK g \in Handler : req[g].mine = s /\ req[g].pc \in {"insert", "close"}
    BY DEF NoLostSession
  <2> QED BY <2>1 DEF Others
<1> QED BY <1>2, <1>3, <1>4, <1>5, <1>6, <1>7, <1>8

\* The same where only the request changes.
LEMMA QuietReq ==
  ASSUME MapInv, NEW h \in Handler, Others(h), UNCHANGED <<Sessions, fileVars, wr>>,
         stop # "down",
         req[h].pc # "writing",
         req'[h].mine \in {Nil, req[h].mine},
         req[h].pc \in {"insert", "close"} =>
           req'[h].mine = req[h].mine /\ req'[h].pc \in {"insert", "close"},
         OwnOrder(h)'
  PROVE  MapInv'
<1>1. TypeFile' /\ wr' \in [Writer -> Write]
  BY DEF MapInv, TypeOK, TypeFile, fileVars
<1>2. wr[h].pc = "idle" BY DEF MapInv, WriteOwner
<1> QED BY <1>1, <1>2, Quiet

\* What a request that has begun says of the rest.
LEMMA Begun ==
  ASSUME MapInv, NEW h \in Handler, req[h].pc # "idle"
  PROVE  /\ stop # "down" /\ TypeReq /\ TypeFile /\ TypeWrite
         /\ req[h] \in RequestState /\ req[h].n \in Names
         /\ sessions[req[h].n] \in Sess \cup {Nil}
         /\ req[h].mine \in Sess \cup {Nil} /\ req[h].target \in Sess \cup {Nil}
<1>1. NoReq.pc = "idle" BY DEF NoReq
<1>2. stop # "down" BY <1>1 DEF MapInv, DownOrder
<1>3. req[h].n \in Names BY DEF MapInv, OwnOrder
<1>4. TypeOK /\ req[h] \in RequestState BY DEF MapInv, TypeOK
<1> QED BY <1>2, <1>3, <1>4 DEF TypeOK, TypeReq, TypeFile, TypeWrite, RequestState

LEMMA OwnNoReq ==
  ASSUME NEW h \in Handler, req'[h] = NoReq
  PROVE  OwnOrder(h)' /\ req'[h].mine = Nil
  BY DEF OwnOrder, NoReq

LEMMA QuietFinish ==
  ASSUME MapInv, NEW h \in Handler, UNCHANGED <<Sessions, fileVars, wr>>, finish(h),
         req[h].pc \notin {"idle", "insert", "close", "writing"}
  PROVE  MapInv'
<1>1. Others(h) /\ req'[h] = NoReq BY Begun, Gone
<1> QED BY <1>1, Begun, OwnNoReq, QuietReq

LEMMA RequestStep ==
  ASSUME MapInv, NEW h \in Handler, Request(h)
  PROVE  MapInv'
<1> USE DEF at
<1>1. PICK k \in Kinds, n \in Names :
        req' = [req EXCEPT ![h] = [NoReq EXCEPT !.pc = IF k = "prune" THEN "names" ELSE "lookup",
                                               !.kind = k, !.n = n]]
  BY DEF Request
<1> DEFINE r == [NoReq EXCEPT !.pc = IF k = "prune" THEN "names" ELSE "lookup",
                              !.kind = k, !.n = n]
<1>2. r \in RequestState /\ r.pc \in {"names", "lookup"} /\ r.mine = Nil /\ r.n \in Names
  BY RegistryAssumption DEF RequestState, NoReq
<1>3. req' = [req EXCEPT ![h] = r] BY <1>1
<1> HIDE DEF r
<1>4. TypeReq BY DEF MapInv, TypeOK, TypeReq
<1>5. Others(h) /\ req'[h] = r BY <1>2, <1>3, <1>4, Edited
<1>6. OwnOrder(h)' BY <1>2, <1>5 DEF OwnOrder
<1>7. UNCHANGED <<Sessions, fileVars, wr>> BY DEF Request, Sessions, writeVars
<1>8. stop # "down" /\ req[h].pc = "idle" BY DEF Request, alive
<1> QED BY <1>2, <1>5, <1>6, <1>7, <1>8, QuietReq

LEMMA LookupStep ==
  ASSUME MapInv, NEW h \in Handler, Lookup(h)
  PROVE  MapInv'
<1> DEFINE s == sessions[req[h].n]
<1>1. req[h].pc = "lookup" /\ req[h].mine = Nil BY DEF Lookup, at, MapInv, OwnOrder
<1>2. UNCHANGED <<Sessions, fileVars, wr>> BY DEF Lookup, Sessions, writeVars
<1>3. req[h].n \in Names /\ TypeReq /\ s \in Sess \cup {Nil} BY <1>1, Begun
<1>4. CASE finish(h)
  BY <1>1, <1>2, <1>4, QuietFinish
<1>5. CASE goto(h, "prepare")
  <2>1. Others(h) /\ Goes(h, "prepare") BY <1>3, <1>5, Going DEF Places
  <2>2. OwnOrder(h)' BY <1>1, <1>3, <2>1 DEF OwnOrder, Goes, Now
  <2> QED BY <1>1, <1>2, <2>1, <2>2, Begun, QuietReq DEF Goes, Now
<1>6. CASE s # Nil /\ req' = [req EXCEPT ![h].pc = "join", ![h].target = s]
  <2>1. Others(h) /\ Now(h, "join", req[h].mine, s) BY <1>3, <1>6, Targeting DEF Places
  <2>2. OwnOrder(h)' BY <1>1, <1>3, <1>6, <2>1 DEF OwnOrder, Now
  <2> QED BY <1>1, <1>2, <2>1, <2>2, Begun, QuietReq DEF Now
<1> QED BY <1>4, <1>5, <1>6 DEF Lookup

LEMMA PrepareNewStep ==
  ASSUME MapInv, NEW h \in Handler, PrepareNew(h)
  PROVE  MapInv'
<1>1. req[h].pc = "prepare" /\ req[h].mine = Nil BY DEF PrepareNew, at, MapInv, OwnOrder
<1>2. UNCHANGED <<Sessions, fileVars, wr>> BY DEF PrepareNew, Sessions, writeVars
<1>3. req[h].n \in Names /\ TypeReq BY <1>1, Begun
<1>4. CASE finish(h)
  BY <1>1, <1>2, <1>4, QuietFinish
<1>5. CASE goto(h, "start")
  <2>1. Others(h) /\ Goes(h, "start") BY <1>3, <1>5, Going DEF Places
  <2>2. OwnOrder(h)' BY <1>1, <1>3, <2>1 DEF OwnOrder, Goes, Now
  <2> QED BY <1>1, <1>2, <2>1, <2>2, Begun, QuietReq DEF Goes, Now
<1> QED BY <1>4, <1>5 DEF PrepareNew

LEMMA PrepareRestoreStep ==
  ASSUME MapInv, NEW h \in Handler, PrepareRestore(h)
  PROVE  MapInv'
<1> DEFINE f == file[req[h].n]
<1>1. req[h].pc = "prepare" /\ req[h].mine = Nil BY DEF PrepareRestore, at, MapInv, OwnOrder
<1>2. UNCHANGED <<Sessions, fileVars, wr>> BY DEF PrepareRestore, Sessions, writeVars
<1>3. req[h].n \in Names /\ TypeReq /\ f \in State \cup {NoFile, Torn}
  BY <1>1, Begun DEF TypeFile
<1>4. CASE finish(h)
  BY <1>1, <1>2, <1>4, QuietFinish
<1>5. CASE f \in State /\ req' = [req EXCEPT ![h].pc = "start", ![h].rd = f]
  <2> HIDE DEF f
  <2>1. Others(h) /\ Goes(h, "start") BY <1>3, <1>5, Reading DEF Places
  <2>2. OwnOrder(h)' BY <1>1, <1>3, <2>1 DEF OwnOrder, Goes, Now
  <2> QED BY <1>1, <1>2, <2>1, <2>2, Begun, QuietReq DEF Goes, Now
<1> QED BY <1>3, <1>4, <1>5 DEF PrepareRestore

LEMMA InsertExistingStep ==
  ASSUME MapInv, NEW h \in Handler, InsertExisting(h)
  PROVE  MapInv'
<1>1. req[h].pc = "insert" /\ req[h].mine # Nil BY DEF InsertExisting, at, MapInv, OwnOrder
<1>2. UNCHANGED <<Sessions, fileVars, wr>> BY DEF InsertExisting, Sessions, writeVars
<1>3. req[h].n \in Names /\ TypeReq /\ sessions[req[h].n] \in Sess
  BY <1>1, Begun DEF InsertExisting
<1>4. Others(h) /\ Now(h, "close", req[h].mine, sessions[req[h].n])
  BY <1>3, Yielding DEF InsertExisting, Places
<1>5. OwnOrder(h)'
  BY <1>1, <1>2, <1>3, <1>4, RegistryAssumption DEF MapInv, OwnOrder, Now, Sessions, sessVars
<1> QED BY <1>1, <1>2, <1>4, <1>5, Begun, QuietReq DEF Now

LEMMA CommitFailStep ==
  ASSUME MapInv, NEW h \in Handler, CommitFail(h)
  PROVE  MapInv'
<1>1. req[h].pc = "commit" /\ req[h].mine # Nil BY DEF CommitFail, at, MapInv, OwnOrder
<1>2. UNCHANGED <<Sessions, fileVars, wr>> BY DEF CommitFail, Sessions, writeVars
<1>3. req[h].n \in Names /\ TypeReq BY <1>1, Begun
<1>4. Others(h) /\ Goes(h, "abandon") BY <1>3, Going DEF CommitFail, Places
<1>5. OwnOrder(h)'
  BY <1>1, <1>2, <1>3, <1>4 DEF MapInv, OwnOrder, Goes, Now, Sessions, sessVars, mapped
<1> QED BY <1>1, <1>2, <1>4, <1>5, Begun, QuietReq DEF Goes, Now

LEMMA JoinFailStep ==
  ASSUME MapInv, NEW h \in Handler, JoinFail(h)
  PROVE  MapInv'
<1> DEFINE a == IF req[h].kind = "restore" THEN "rollback" ELSE "idle"
<1>1. req[h].pc = "join" /\ req[h].target # Nil BY DEF JoinFail, at, MapInv, OwnOrder
<1>2. UNCHANGED <<Sessions, fileVars, wr>> BY DEF JoinFail, Sessions, writeVars
<1>3. req[h].n \in Names /\ TypeReq BY <1>1, Begun
<1>4. CASE finish(h)
  BY <1>1, <1>2, <1>4, QuietFinish
<1>5. CASE req[h].target = req[h].mine /\ req' = [req EXCEPT ![h].pc = "abandon", ![h].after = a]
  <2>1. Others(h) /\ Goes(h, "abandon") BY <1>3, <1>5, Undoing DEF Places
  <2>2. OwnOrder(h)'
    BY <1>1, <1>2, <1>3, <1>5, <2>1 DEF MapInv, OwnOrder, Goes, Now, Sessions, sessVars, mapped
  <2> QED BY <1>1, <1>2, <2>1, <2>2, Begun, QuietReq DEF Goes, Now
<1> QED BY <1>4, <1>5 DEF JoinFail

LEMMA RequestFailStep ==
  ASSUME MapInv, NEW h \in Handler, RequestFail(h)
  PROVE  MapInv'
<1>1. req[h].pc \in {"start", "prepare", "prune"} /\ finish(h) BY DEF RequestFail, at
<1>2. UNCHANGED <<Sessions, fileVars, wr>> BY DEF RequestFail, Sessions, writeVars
<1> QED BY <1>1, <1>2, QuietFinish

LEMMA PruneNamesStep ==
  ASSUME MapInv, NEW h \in Handler, PruneNames(h)
  PROVE  MapInv'
<1>1. req[h].pc = "names" /\ req[h].mine = Nil BY DEF PruneNames, at, MapInv, OwnOrder
<1>2. UNCHANGED <<Sessions, fileVars, wr>> BY DEF PruneNames, Sessions, writeVars
<1>3. req[h].n \in Names /\ TypeReq BY <1>1, Begun
<1>4. {n \in Names : sessions[n] = Nil} \in SUBSET Names OBVIOUS
<1>5. Others(h) /\ Goes(h, "dir") BY <1>3, <1>4, Pruning DEF PruneNames, Places
<1>6. OwnOrder(h)' BY <1>1, <1>3, <1>5 DEF OwnOrder, Goes, Now
<1> QED BY <1>1, <1>2, <1>5, <1>6, Begun, QuietReq DEF Goes, Now

LEMMA PruneDirStep ==
  ASSUME MapInv, NEW h \in Handler, PruneDir(h)
  PROVE  MapInv'
<1> DEFINE dead == {n \in req[h].todo : file[n] # NoFile}
<1>1. req[h].pc = "dir" /\ req[h].mine = Nil BY DEF PruneDir, at, MapInv, OwnOrder
<1>2. UNCHANGED <<Sessions, fileVars, wr>> BY DEF PruneDir, Sessions, writeVars
<1>3. req[h].n \in Names /\ TypeReq /\ dead \in SUBSET Names BY <1>1, Begun DEF RequestState
<1>4. CASE finish(h)
  BY <1>1, <1>2, <1>4, QuietFinish
<1>5. CASE req' = [req EXCEPT ![h].pc = "prune", ![h].todo = dead]
  <2>1. Others(h) /\ Goes(h, "prune") BY <1>3, <1>5, Pruning DEF Places
  <2>2. OwnOrder(h)' BY <1>1, <1>3, <2>1 DEF OwnOrder, Goes, Now
  <2> QED BY <1>1, <1>2, <2>1, <2>2, Begun, QuietReq DEF Goes, Now
<1> QED BY <1>4, <1>5 DEF PruneDir

-----------------------------------------------------------------------------
\* Steps of a handler on the files

LEMMA Removing ==
  ASSUME MapInv, NEW h \in Handler, NEW n \in Names, removeFile(n), tmp' = tmp,
         req[h].pc # "writing"
  PROVE  /\ TypeFile' /\ wr' \in [Writer -> Write]
         /\ \A w \in Writer : wr'[w].pc = wr[w].pc
         /\ wr'[h].pc = "idle"
<1>1. TypeFile /\ TypeWrite BY DEF MapInv, TypeOK, TypeFile, TypeWrite
<1>2. TypeFile' BY <1>1 DEF removeFile, TypeFile
<1>3. wr' \in [Writer -> Write] /\ \A w \in Writer : wr'[w].pc = wr[w].pc
  BY <1>1, MovedType DEF removeFile
<1>4. wr[h].pc = "idle" /\ h \in Writer BY DEF MapInv, WriteOwner, Writer
<1> QED BY <1>2, <1>3, <1>4

LEMMA PrepareForceStep ==
  ASSUME MapInv, NEW h \in Handler, PrepareForce(h)
  PROVE  MapInv'
<1>1. req[h].pc = "prepare" /\ req[h].mine = Nil BY DEF PrepareForce, at, MapInv, OwnOrder
<1>2. UNCHANGED Sessions /\ tmp' = tmp /\ removeFile(req[h].n) BY DEF PrepareForce, Sessions
<1>3. req[h].n \in Names /\ TypeReq BY <1>1, Begun
<1>4. Others(h) /\ Goes(h, "start") BY <1>3, Going DEF PrepareForce, Places
<1>5. OwnOrder(h)' BY <1>1, <1>3, <1>4 DEF OwnOrder, Goes, Now
<1>6. /\ TypeFile' /\ wr' \in [Writer -> Write]
      /\ \A w \in Writer : wr'[w].pc = wr[w].pc
      /\ wr'[h].pc = "idle"
  BY <1>1, <1>2, <1>3, Removing
<1> QED BY <1>1, <1>2, <1>4, <1>5, <1>6, Begun, Quiet DEF Goes, Now

LEMMA CommitStep ==
  ASSUME MapInv, NEW h \in Handler, Commit(h)
  PROVE  MapInv'
<1>1. req[h].pc = "commit" /\ req[h].mine # Nil BY DEF Commit, at, MapInv, OwnOrder
<1>2. UNCHANGED Sessions /\ tmp' = tmp /\ removeFile(req[h].n) BY DEF Commit, Sessions
<1>3. req[h].n \in Names /\ TypeReq BY <1>1, Begun
<1>4. Others(h) /\ Goes(h, "join") BY <1>3, Going DEF Commit, Places
<1>5. OwnOrder(h)'
  BY <1>1, <1>2, <1>3, <1>4 DEF MapInv, OwnOrder, Goes, Now, Sessions, sessVars, mapped
<1>6. /\ TypeFile' /\ wr' \in [Writer -> Write]
      /\ \A w \in Writer : wr'[w].pc = wr[w].pc
      /\ wr'[h].pc = "idle"
  BY <1>1, <1>2, <1>3, Removing
<1> QED BY <1>1, <1>2, <1>4, <1>5, <1>6, Begun, Quiet DEF Goes, Now

LEMMA PruningOne ==
  ASSUME TypeReq, NEW h \in Handler, req[h].pc = "prune", NEW n,
         req' = [req EXCEPT ![h].todo = @ \ {n}]
  PROVE  /\ Others(h) /\ Goes(h, "prune") /\ req'[h].todo = req[h].todo \ {n}
         /\ req'[h].rd = req[h].rd /\ req'[h].after = req[h].after
<1> DEFINE ns == req[h].todo \ {n}
<1>1. req[h] \in RequestState BY DEF TypeReq
<1>2. [req[h] EXCEPT !.pc = "prune"] = req[h] BY <1>1 DEF RequestState
<1>3. [req EXCEPT ![h].pc = "prune"] = req BY <1>2 DEF TypeReq
<1>4. req' = [req EXCEPT ![h].pc = "prune", ![h].todo = ns] BY <1>3
<1>5. ns \in SUBSET Names BY <1>1 DEF RequestState
<1> QED BY <1>4, <1>5, Pruning DEF Places

LEMMA PruneNextStep ==
  ASSUME MapInv, NEW h \in Handler, PruneNext(h)
  PROVE  MapInv'
<1>1. req[h].pc = "prune" /\ req[h].mine = Nil BY DEF PruneNext, at, MapInv, OwnOrder
<1>2. UNCHANGED Sessions /\ tmp' = tmp BY DEF PruneNext, Sessions
<1>3. req[h].n \in Names /\ TypeReq /\ req[h] \in RequestState /\ req[h].todo \subseteq Names
  BY <1>1, Begun DEF RequestState
<1>4. PICK n \in req[h].todo :
        /\ removeFile(n)
        /\ finish(h) \/ req' = [req EXCEPT ![h].todo = @ \ {n}]
  BY DEF PruneNext
<1>5. /\ TypeFile' /\ wr' \in [Writer -> Write]
      /\ \A w \in Writer : wr'[w].pc = wr[w].pc
      /\ wr'[h].pc = "idle"
  BY <1>1, <1>2, <1>3, <1>4, Removing
<1>6. CASE finish(h)
  <2>1. Others(h) /\ req'[h] = NoReq BY <1>3, <1>6, Gone
  <2> QED BY <1>1, <1>2, <1>5, <2>1, Begun, OwnNoReq, Quiet
<1>7. CASE req' = [req EXCEPT ![h].todo = @ \ {n}]
  <2>3. Others(h) /\ Goes(h, "prune") BY <1>1, <1>3, <1>7, PruningOne
  <2>4. OwnOrder(h)' BY <1>1, <1>3, <2>3 DEF OwnOrder, Goes, Now
  <2> QED BY <1>1, <1>2, <1>5, <2>3, <2>4, Begun, Quiet DEF Goes, Now
<1> QED BY <1>4, <1>6, <1>7

LEMMA RollbackStep ==
  ASSUME MapInv, NEW h \in Handler, Rollback(h)
  PROVE  MapInv'
<1>1. req[h].pc = "rollback" /\ req[h].mine = Nil BY DEF Rollback, at, MapInv, OwnOrder
<1>2. UNCHANGED <<Sessions, fileVars>> BY DEF Rollback, Sessions
<1>3. /\ req[h].n \in Names /\ TypeReq /\ TypeFile /\ TypeWrite /\ req[h] \in RequestState
      /\ h \in Writer
  BY <1>1, Begun DEF Writer
<1>4. Others(h) /\ Goes(h, "writing") BY <1>3, Going DEF Rollback, Places
<1>5. OwnOrder(h)' BY <1>1, <1>3, <1>4 DEF OwnOrder, Goes, Now
<1> DEFINE d == [pc |-> "open", n |-> req[h].n, data |-> req[h].rd, at |-> "gone"]
<1>6. d \in Write BY <1>3 DEF Write, RequestState
<1>7. wr' = [wr EXCEPT ![h] = d] BY DEF Rollback
<1> HIDE DEF d
<1>8. wr' \in [Writer -> Write] /\ \A w \in Writer : w # h => wr'[w].pc = wr[w].pc
  BY <1>3, <1>6, <1>7 DEF TypeWrite
<1>9. TypeFile' BY <1>2, <1>3 DEF TypeFile, fileVars
<1> QED BY <1>1, <1>2, <1>4, <1>5, <1>8, <1>9, Begun, Quiet DEF Goes, Now

-----------------------------------------------------------------------------
\* Steps of a handler on the sessions and the map

\* No two handlers, and no handler and watcher, have the same session.
LEMMA StartStep ==
  ASSUME MapInv, NEW h \in Handler, Start(h)
  PROVE  MapInv'
<1> USE DEF MapInv
<1>1. req[h].pc = "start" /\ req[h].mine = Nil BY DEF Start, at, OwnOrder
<1>2. PICK s \in Sess :
        /\ life[s] = "none"
        /\ life' = [life EXCEPT ![s] = "run"]
        /\ sname' = [sname EXCEPT ![s] = req[h].n]
        /\ base' = [base EXCEPT ![s] = req[h].rd]
        /\ req' = [req EXCEPT ![h].pc = "insert", ![h].mine = s]
  BY DEF Start
<1>3. /\ out' = out /\ writers' = writers /\ watch' = watch /\ sessions' = sessions
      /\ stop' = stop /\ starts' = starts /\ ticks' = ticks /\ file' = file /\ tmp' = tmp
      /\ wr' = wr /\ pmu' = pmu /\ queue' = queue
  BY DEF Start, countVars, fileVars, writeVars
<1>4. /\ req[h].n \in Names /\ TypeReq /\ req[h] \in RequestState /\ stop # "down"
      /\ req[h].rd \in State \cup {NoFile}
  BY <1>1, Begun DEF RequestState
<1>5. Others(h) /\ Now(h, "insert", s, req[h].target) BY <1>2, <1>4, Owning DEF Places
<1>6. TypeOK /\ s # Nil BY RegistryAssumption
<1>7. TypeOK' BY <1>2, <1>3, <1>4, <1>5, <1>6 DEF TypeOK, Others, TypeReq
<1>8. watch[s] = "no" BY <1>2 DEF MapOrder
<1>9. (\A n \in Names : sessions[n] # s) /\ \A g \in Handler : req[g].mine # s
  BY <1>2, <1>6 DEF MapOrder, OwnOrder
<1>10. MapOrder'
  BY <1>2, <1>3, <1>4, <1>6, <1>8, <1>9 DEF MapOrder, mapped, TypeOK, Ending, Watching
<1>11. \A g \in Handler : OwnOrder(g)'
  <2>1. ASSUME NEW g \in Handler, g # h PROVE OwnOrder(g)'
    BY <1>2, <1>3, <1>5, <1>6, <1>9, <2>1 DEF OwnOrder, Others, mapped, TypeOK
  <2>2. OwnOrder(h)'
    BY <1>2, <1>3, <1>4, <1>5, <1>6, <1>8 DEF OwnOrder, Now, TypeOK
  <2> QED BY <2>1, <2>2
<1>12. OwnOnce' BY <1>5, <1>9 DEF OwnOnce, Others, Now
<1>13. WriteOwner' BY <1>1, <1>3, <1>5 DEF WriteOwner, Others, Now
<1>14. DownOrder' BY <1>3, <1>4 DEF DownOrder
<1>15. NoLostSession'
  <2> SUFFICES ASSUME stop \notin {"reset", "down"}, NEW t \in Sess, life'[t] = "run"
               PROVE  \/ sessions[sname'[t]] = t
                      \/ \E g \in Handler : req'[g].mine = t /\ req'[g].pc \in {"insert", "close"}
    BY <1>3 DEF NoLostSession
  <2>1. CASE t = s BY <1>5, <2>1 DEF Now
  <2>2. CASE t # s
    <3>1. life[t] = "run" /\ sname'[t] = sname[t] BY <1>2, <1>6, <2>2 DEF TypeOK
    <3>2. CASE sessions[sname[t]] = t BY <3>1, <3>2
    <3>3. CASE \E g \in Handler : req[g].mine = t /\ req[g].pc \in {"insert", "close"}
      BY <1>1, <1>5, <3>3 DEF Others
    <3> QED BY <3>1, <3>2, <3>3 DEF NoLostSession
  <2> QED BY <2>1, <2>2
<1> QED BY <1>7, <1>10, <1>11, <1>12, <1>13, <1>14, <1>15

LEMMA InsertStep ==
  ASSUME MapInv, NEW h \in Handler, Insert(h)
  PROVE  MapInv'
<1> USE DEF MapInv
<1> DEFINE s == req[h].mine
           n == req[h].n
<1>1. /\ req[h].pc = "insert" /\ s # Nil /\ sname[s] = n /\ life[s] # "none" /\ watch[s] = "no"
      /\ stop # "closing" /\ sessions[n] = Nil /\ sessions' = [sessions EXCEPT ![n] = s]
  BY DEF Insert, at, OwnOrder, muFree
<1>2. /\ life' = life /\ sname' = sname /\ out' = out /\ base' = base /\ writers' = writers
      /\ stop' = stop /\ starts' = starts /\ ticks' = ticks /\ file' = file /\ tmp' = tmp
      /\ wr' = wr /\ pmu' = pmu /\ queue' = queue
  BY DEF Insert, countVars, fileVars, writeVars
<1>3. n \in Names /\ TypeReq /\ s \in Sess /\ stop # "down" /\ TypeOK
  BY <1>1, Begun
<1>4. (\A g \in Handler : g # h => req[g].mine # s) /\ \A m \in Names : sessions[m] # s
  <2>1. \A g \in Handler : g # h => req[g].mine # s BY <1>1 DEF OwnOnce
  <2>2. \A m \in Names : sessions[m] = s => m = n BY <1>1, <1>3 DEF MapOrder
  <2> QED BY <1>1, <2>1, <2>2
<1>5. /\ Others(h)
      /\ \/ req'[h] = NoReq /\ watch' = [watch EXCEPT ![s] = "wait"]
         \/ (Now(h, "join", s, s) \/ Now(h, "commit", s, s)) /\ watch' = watch
  <2>1. CASE finish(h) /\ watch' = [watch EXCEPT ![s] = "wait"] BY <1>3, <2>1, Gone
  <2> DEFINE l == IF req[h].kind = "attach" THEN "join" ELSE "commit"
  <2>2. CASE req' = [req EXCEPT ![h].target = s, ![h].pc = l] /\ watch' = watch
    <3>1. l \in Places BY DEF Places
    <3> QED BY <1>3, <2>2, <3>1, Listing DEF Places
  <2> QED BY <2>1, <2>2 DEF Insert
<1> HIDE DEF s, n
<1>6. TypeOK'
  BY <1>1, <1>2, <1>3, <1>5 DEF TypeOK, Others, TypeReq
<1>7. MapOrder'
  <2>1. /\ \A t \in Sess : t # s => watch'[t] = watch[t]
        /\ watch'[s] \in {"no", "wait"}
        /\ \A m \in Names : m # n => sessions'[m] = sessions[m]
        /\ sessions'[n] = s
    BY <1>1, <1>3, <1>5 DEF TypeOK
  <2>2. \A m \in Names : sessions'[m] # Nil => sname[sessions'[m]] = m /\ life[sessions'[m]] # "none"
    BY <1>1, <2>1 DEF MapOrder
  <2>3. \A t \in Sess : life[t] = "none" => watch'[t] = "no" BY <1>1, <2>1 DEF MapOrder
  <2>4. \A t \in Sess : watch'[t] \in Ending => life[t] \in {"done", "closed"}
    BY <2>1 DEF MapOrder, Ending
  <2>5. ASSUME stop \notin {"reset", "down"}, NEW t \in Sess, watch'[t] \in Watching, t # s
        PROVE  sessions'[sname[t]] = t
    <3>1. watch[t] \in Watching /\ sname[t] \in Names /\ t # Nil
      BY <2>1, <2>5, RegistryAssumption DEF MapOrder, Watching
    <3>2. sessions[sname[t]] = t BY <2>5, <3>1 DEF MapOrder, mapped
    <3> QED BY <1>1, <2>1, <3>1, <3>2
  <2> QED BY <1>1, <1>2, <2>1, <2>2, <2>3, <2>4, <2>5 DEF MapOrder, mapped
<1>8. \A g \in Handler : OwnOrder(g)'
  <2>1. ASSUME NEW g \in Handler, g # h PROVE OwnOrder(g)'
    <3>1. req'[g] = req[g] /\ req[g].mine # s BY <1>4, <1>5, <2>1 DEF Others
    <3>2. req[g].mine # Nil => req[g].mine \in Sess BY <1>3 DEF TypeOK, RequestState
    <3>3. \A t \in Sess : t # s => watch'[t] = watch[t] BY <1>3, <1>5 DEF TypeOK
    <3>4. \A m \in Names : sessions[m] # Nil => sessions'[m] = sessions[m]
      BY <1>1, <1>3 DEF TypeOK
    <3>5. req[g].mine # Nil /\ req[g].pc \in {"commit", "join", "abandon"} => req[g].n \in Names
      BY DEF OwnOrder
    <3> QED BY <1>2, <3>1, <3>2, <3>3, <3>4, <3>5 DEF OwnOrder, mapped
  <2>2. OwnOrder(h)'
    <3>1. CASE req'[h] = NoReq BY <3>1, OwnNoReq
    <3>2. CASE (Now(h, "join", s, s) \/ Now(h, "commit", s, s)) /\ watch' = watch
      BY <1>1, <1>2, <1>3, <3>2 DEF OwnOrder, Now, TypeOK, n
    <3> QED BY <1>5, <3>1, <3>2
  <2> QED BY <2>1, <2>2
<1>9. req'[h].mine \in {Nil, s} /\ req'[h].pc # "insert" BY <1>5, OwnNoReq DEF Now, NoReq
<1>10. OwnOnce' BY <1>4, <1>5, <1>9 DEF OwnOnce, Others, s
<1>11. WriteOwner'
  <2>1. wr[h].pc = "idle" /\ wr[s].pc = "idle" BY <1>1, <1>3 DEF WriteOwner
  <2> QED BY <1>2, <1>3, <1>5, <2>1 DEF WriteOwner, Others, TypeOK
<1>12. DownOrder' BY <1>2, <1>3 DEF DownOrder
<1>13. NoLostSession'
  <2> SUFFICES ASSUME stop \notin {"reset", "down"}, NEW t \in Sess, life[t] = "run"
               PROVE  \/ sessions'[sname[t]] = t
                      \/ \E g \in Handler : req'[g].mine = t /\ req'[g].pc \in {"insert", "close"}
    BY <1>2 DEF NoLostSession
  <2>1. sname[t] \in Names BY DEF MapOrder
  <2>2. CASE sessions[sname[t]] = t
    BY <1>1, <1>3, <2>1, <2>2, RegistryAssumption DEF TypeOK
  <2>3. CASE \E g \in Handler : req[g].mine = t /\ req[g].pc \in {"insert", "close"}
    <3>1. PICK g \in Handler : req[g].mine = t /\ req[g].pc \in {"insert", "close"} BY <2>3
    <3>2. CASE g = h BY <1>1, <1>3, <3>1, <3>2 DEF TypeOK, s
    <3>3. CASE g # h BY <1>5, <3>1, <3>3 DEF Others
    <3> QED BY <3>2, <3>3
  <2> QED BY <2>2, <2>3 DEF NoLostSession
<1> QED BY <1>6, <1>7, <1>8, <1>10, <1>11, <1>12, <1>13

LEMMA JoinStep ==
  ASSUME MapInv, NEW h \in Handler, Join(h)
  PROVE  MapInv'
<1> USE DEF MapInv
<1> DEFINE t == req[h].target
<1>1. req[h].pc = "join" /\ t # Nil /\ req[h].mine \in {Nil, t} /\ life[t] = "run"
  BY DEF Join, at, OwnOrder
<1>2. /\ life' = life /\ sname' = sname /\ out' = out /\ base' = base /\ sessions' = sessions
      /\ stop' = stop /\ starts' = starts /\ ticks' = ticks /\ file' = file /\ tmp' = tmp
      /\ wr' = wr /\ pmu' = pmu /\ queue' = queue
      /\ writers' = [writers EXCEPT ![t] = @ \cup {h}]
  BY DEF Join, countVars, fileVars, writeVars
<1>3. req[h].n \in Names /\ TypeReq /\ t \in Sess /\ stop # "down" /\ TypeOK
  BY <1>1, Begun
<1>4. watch' = IF t = req[h].mine THEN [watch EXCEPT ![t] = "wait"] ELSE watch
  BY DEF Join
<1>5. Others(h) /\ Goes(h, "attached") BY <1>3, Going DEF Join, Places
<1> HIDE DEF t
<1>6. t = req[h].mine =>
        /\ watch[t] = "no" /\ sname[t] = req[h].n
        /\ mapped => sessions[sname[t]] = t
        /\ \A g \in Handler : g # h => req[g].mine # t
  BY <1>1, <1>3 DEF OwnOrder, OwnOnce, t
<1>7. /\ \A u \in Sess : u # t => watch'[u] = watch[u]
      /\ watch'[t] = watch[t] \/ (t = req[h].mine /\ watch'[t] = "wait")
  BY <1>3, <1>4 DEF TypeOK
<1>8. TypeOK'
  BY <1>2, <1>3, <1>4, <1>5 DEF TypeOK, Others, TypeReq
<1>9. MapOrder'
  BY <1>1, <1>2, <1>3, <1>6, <1>7 DEF MapOrder, mapped, Ending, Watching
<1>10. \A g \in Handler : OwnOrder(g)'
  <2>1. ASSUME NEW g \in Handler, g # h PROVE OwnOrder(g)'
    <3>1. req'[g] = req[g] BY <1>5, <2>1 DEF Others
    <3>2. req[g].mine # Nil => req[g].mine \in Sess /\ watch'[req[g].mine] = watch[req[g].mine]
      BY <1>3, <1>6, <1>7, <2>1 DEF TypeOK, RequestState
    <3> QED BY <1>2, <3>1, <3>2 DEF OwnOrder, mapped
  <2>2. OwnOrder(h)'
    BY <1>1, <1>2, <1>3, <1>5 DEF OwnOrder, Goes, Now, t
  <2> QED BY <2>1, <2>2
<1>11. OwnOnce' BY <1>5 DEF OwnOnce, Others, Goes, Now
<1>12. WriteOwner'
  <2>1. wr[h].pc = "idle" /\ (t = req[h].mine => wr[t].pc = "idle")
    BY <1>1, <1>3, <1>6 DEF WriteOwner
  <2> QED BY <1>2, <1>5, <1>7, <2>1 DEF WriteOwner, Others
<1>13. DownOrder' BY <1>2, <1>3 DEF DownOrder
<1>14. NoLostSession'
  <2> SUFFICES ASSUME stop \notin {"reset", "down"}, NEW u \in Sess, life[u] = "run",
                      sessions[sname[u]] # u
               PROVE  \E g \in Handler : req'[g].mine = u /\ req'[g].pc \in {"insert", "close"}
    BY <1>2 DEF NoLostSession
  <2>1. PICK g \in Handler : req[g].mine = u /\ req[g].pc \in {"insert", "close"}
    BY DEF NoLostSession
  <2> QED BY <1>1, <1>5, <2>1 DEF Others
<1> QED BY <1>8, <1>9, <1>10, <1>11, <1>12, <1>13, <1>14

\* removeSession takes away the handler's own session: nobody else has put
\* one in its place.
LEMMA AbandonStep ==
  ASSUME MapInv, NEW h \in Handler, Abandon(h)
  PROVE  MapInv'
<1> USE DEF MapInv
<1> DEFINE s == req[h].mine
           n == req[h].n
<1>1. /\ req[h].pc = "abandon" /\ s # Nil /\ sname[s] = n /\ life[s] # "none" /\ watch[s] = "no"
      /\ stop # "closing" /\ sessions' = [sessions EXCEPT ![n] = Nil]
  BY DEF Abandon, at, OwnOrder, muFree
<1>2. /\ life' = life /\ sname' = sname /\ out' = out /\ base' = base /\ writers' = writers
      /\ watch' = watch
      /\ stop' = stop /\ starts' = starts /\ ticks' = ticks /\ file' = file /\ tmp' = tmp
      /\ wr' = wr /\ pmu' = pmu /\ queue' = queue
  BY DEF Abandon, sessVars, countVars, fileVars, writeVars
<1>3. n \in Names /\ TypeReq /\ s \in Sess /\ stop # "down" /\ TypeOK
  BY <1>1, Begun
<1>4. Others(h) /\ Goes(h, "close") BY <1>3, Going DEF Abandon, Places
<1>5. mapped => sessions[n] = s BY <1>1 DEF OwnOrder
<1>6. /\ \A m \in Names : m # n => sessions'[m] = sessions[m]
      /\ sessions'[n] = Nil
  BY <1>1, <1>3 DEF TypeOK
<1> HIDE DEF s, n
<1>7. \A g \in Handler : g # h => req[g].mine # s BY <1>1 DEF OwnOnce, s
<1>8. TypeOK'
  BY <1>1, <1>2, <1>3, <1>4 DEF TypeOK, Others, TypeReq
<1>9. MapOrder'
  <2>1. ASSUME mapped, NEW t \in Sess, watch[t] \in Watching PROVE sessions'[sname[t]] = t
    <3>1. sname[t] \in Names /\ sessions[sname[t]] = t /\ t # s
      BY <1>1, <2>1 DEF MapOrder, Watching
    <3> QED BY <1>5, <1>6, <2>1, <3>1
  <2>2. \A m \in Names : sessions'[m] # Nil => sname[sessions'[m]] = m /\ life[sessions'[m]] # "none"
    BY <1>6 DEF MapOrder
  <2> QED BY <1>2, <2>1, <2>2 DEF MapOrder, mapped
<1>10. \A g \in Handler : OwnOrder(g)'
  <2>1. ASSUME NEW g \in Handler, g # h PROVE OwnOrder(g)'
    <3>1. req'[g] = req[g] /\ req[g].mine # s BY <1>4, <1>7, <2>1 DEF Others
    <3>2. ASSUME mapped, req[g].mine # Nil, req[g].pc \in {"commit", "join", "abandon"}
          PROVE  sessions'[req[g].n] = req[g].mine
      <4>1. req[g].n \in Names /\ sessions[req[g].n] = req[g].mine BY <3>2 DEF OwnOrder
      <4> QED BY <1>5, <1>6, <3>1, <3>2, <4>1
    <3> QED BY <1>2, <3>1, <3>2 DEF OwnOrder, mapped
  <2>2. OwnOrder(h)'
    BY <1>1, <1>2, <1>3, <1>4 DEF OwnOrder, Goes, Now, s, n
  <2> QED BY <2>1, <2>2
<1>11. OwnOnce' BY <1>4 DEF OwnOnce, Others, Goes, Now
<1>12. WriteOwner'
  <2>1. wr[h].pc = "idle" BY <1>1 DEF WriteOwner
  <2> QED BY <1>2, <1>4, <2>1 DEF WriteOwner, Others
<1>13. DownOrder' BY <1>2, <1>3 DEF DownOrder
<1>14. NoLostSession'
  <2> SUFFICES ASSUME stop \notin {"reset", "down"}, NEW t \in Sess, life[t] = "run"
               PROVE  \/ sessions'[sname[t]] = t
                      \/ \E g \in Handler : req'[g].mine = t /\ req'[g].pc \in {"insert", "close"}
    BY <1>2 DEF NoLostSession
  <2>1. CASE t = s BY <1>4, <2>1 DEF Goes, Now, s
  <2>2. CASE t # s
    <3>1. sname[t] \in Names BY DEF MapOrder
    <3>2. CASE sessions[sname[t]] = t BY <1>5, <1>6, <2>2, <3>1, <3>2 DEF mapped
    <3>3. CASE \E g \in Handler : req[g].mine = t /\ req[g].pc \in {"insert", "close"}
      BY <1>1, <1>4, <3>3 DEF Others
    <3> QED BY <3>2, <3>3 DEF NoLostSession
  <2> QED BY <2>1, <2>2
<1> QED BY <1>8, <1>9, <1>10, <1>11, <1>12, <1>13, <1>14

\* The clients of a closed session go, the others stay.
LEMMA Disconnected ==
  ASSUME TypeReq, NEW s
  PROVE  /\ disconnect(s) \in [Handler -> RequestState]
         /\ \A g \in Handler : \/ disconnect(s)[g] = req[g]
                               \/ req[g].pc = "attached" /\ disconnect(s)[g] = NoReq
  BY NoReqType DEF TypeReq, disconnect

\* What is left of MapInv when a session is closed.
LEMMA Closing ==
  ASSUME MapInv, NEW s \in Sess, life[s] # "none", closeSession(s), TypeReq',
         UNCHANGED <<sname, out, base, watch, sessions, stop, countVars, fileVars, writeVars>>,
         stop # "down",
         \A g \in Handler : \/ req'[g] = req[g]
                            \/ req[g].pc = "attached" /\ req'[g] = NoReq
                            \/ req[g].pc = "close" /\ req[g].mine = s /\ req'[g].mine = Nil
                               /\ OwnOrder(g)'
  PROVE  MapInv'
<1> USE DEF MapInv
<1>1. /\ sname' = sname /\ out' = out /\ base' = base /\ watch' = watch /\ sessions' = sessions
      /\ stop' = stop /\ starts' = starts /\ ticks' = ticks /\ file' = file /\ tmp' = tmp
      /\ wr' = wr /\ pmu' = pmu /\ queue' = queue
      /\ life' = [life EXCEPT ![s] = "closed"] /\ writers' = [writers EXCEPT ![s] = {}]
  BY DEF countVars, fileVars, writeVars, closeSession
<1>2. /\ life'[s] = "closed"
      /\ \A t \in Sess : t # s => life'[t] = life[t]
  BY <1>1 DEF TypeOK
<1>3. TypeOK' BY <1>1 DEF TypeOK, TypeReq
<1>4. MapOrder' BY <1>1, <1>2 DEF MapOrder, mapped, TypeOK
<1>5. \A g \in Handler : OwnOrder(g)'
  <2> SUFFICES ASSUME NEW g \in Handler PROVE OwnOrder(g)'
    OBVIOUS
  <2>1. CASE req'[g] = NoReq BY <2>1, OwnNoReq
  <2>2. CASE req'[g] = req[g]
    <3>1. req[g].mine \in Sess \cup {Nil} BY DEF TypeOK, RequestState
    <3> QED BY <1>1, <1>2, <2>2, <3>1 DEF OwnOrder, mapped
  <2> QED BY <2>1, <2>2
<1>6. \A g \in Handler : req'[g].mine \in {Nil, req[g].mine} BY DEF NoReq
<1>7. OwnOnce' BY <1>6 DEF OwnOnce
<1>8. WriteOwner' BY <1>1, <1>2 DEF WriteOwner
<1>9. DownOrder' BY <1>1 DEF DownOrder
<1>10. NoLostSession'
  <2> SUFFICES ASSUME stop \notin {"reset", "down"}, NEW u \in Sess, life'[u] = "run",
                      sessions[sname[u]] # u
               PROVE  \E g \in Handler : req'[g].mine = u /\ req'[g].pc \in {"insert", "close"}
    BY <1>1 DEF NoLostSession
  <2>1. u # s /\ life[u] = "run" BY <1>2
  <2>2. PICK g \in Handler : req[g].mine = u /\ req[g].pc \in {"insert", "close"}
    BY <2>1 DEF NoLostSession
  <2> QED BY <2>1, <2>2
<1> QED BY <1>3, <1>4, <1>5, <1>7, <1>8, <1>9, <1>10

LEMMA CloseOwnStep ==
  ASSUME MapInv, NEW h \in Handler, CloseOwn(h)
  PROVE  MapInv'
<1> DEFINE s == req[h].mine
           r == IF req[h].after = "idle" THEN NoReq
                ELSE [req[h] EXCEPT !.pc = req[h].after, !.mine = Nil]
<1>1. /\ req[h].pc = "close" /\ s # Nil /\ life[s] # "none" /\ req[h].target # Nil
  BY DEF CloseOwn, at, MapInv, OwnOrder
<1>2. req[h].n \in Names /\ TypeReq /\ s \in Sess /\ stop # "down" /\ req[h] \in RequestState
  BY <1>1, Begun
<1>3. r \in RequestState /\ r.mine = Nil BY <1>2, NoReqType DEF RequestState, NoReq
<1>4. r = NoReq \/ (r.pc \in {"join", "rollback"} /\ r.n = req[h].n /\ r.target = req[h].target)
  BY <1>2 DEF RequestState
<1>5. closeSession(s) /\ req' = [disconnect(s) EXCEPT ![h] = r]
      /\ UNCHANGED <<sname, out, base, watch, sessions, stop, countVars, fileVars, writeVars>>
  BY DEF CloseOwn
<1> HIDE DEF s, r
<1>6. TypeReq' /\ req'[h] = r /\ \A g \in Handler : g # h => req'[g] = disconnect(s)[g]
  BY <1>2, <1>3, <1>5, Disconnected DEF TypeReq
<1>7. OwnOrder(h)' BY <1>1, <1>2, <1>3, <1>4, <1>6, OwnNoReq DEF OwnOrder
<1>8. \A g \in Handler : g # h =>
        req'[g] = req[g] \/ (req[g].pc = "attached" /\ req'[g] = NoReq)
  BY <1>2, <1>6, Disconnected
<1>9. req[h].pc = "close" /\ req[h].mine = s /\ req'[h].mine = Nil BY <1>1, <1>3, <1>6 DEF s
<1> QED BY <1>1, <1>2, <1>5, <1>6, <1>7, <1>8, <1>9, Closing

LEMMA LeaveStep ==
  ASSUME MapInv, NEW h \in Handler, Leave(h)
  PROVE  MapInv'
<1> USE DEF MapInv
<1>1. req[h].pc = "attached" /\ req[h].target # Nil BY DEF Leave, at, OwnOrder
<1>2. /\ life' = life /\ sname' = sname /\ out' = out /\ base' = base /\ watch' = watch
      /\ sessions' = sessions
      /\ stop' = stop /\ starts' = starts /\ ticks' = ticks /\ file' = file /\ tmp' = tmp
      /\ wr' = wr /\ pmu' = pmu /\ queue' = queue
      /\ writers' = [writers EXCEPT ![req[h].target] = @ \ {h}]
  BY DEF Leave, countVars, fileVars, writeVars
<1>3. TypeReq /\ stop # "down" /\ TypeOK /\ req[h].target \in Sess BY <1>1, Begun
<1>4. Others(h) /\ req'[h] = NoReq BY <1>3, Gone DEF Leave
<1>5. TypeOK' BY <1>2, <1>3, <1>4 DEF TypeOK, Others, TypeReq
<1>6. MapOrder' BY <1>2 DEF MapOrder, mapped
<1>7. \A g \in Handler : OwnOrder(g)'
  <2>1. ASSUME NEW g \in Handler, g # h PROVE OwnOrder(g)'
    BY <1>2, <1>4, <2>1 DEF OwnOrder, mapped, Others
  <2> QED BY <1>4, <2>1, OwnNoReq
<1>8. OwnOnce' BY <1>4, OwnNoReq DEF OwnOnce, Others
<1>9. WriteOwner' BY <1>1, <1>2, <1>4 DEF WriteOwner, Others
<1>10. DownOrder' BY <1>2, <1>3 DEF DownOrder
<1>11. NoLostSession' BY <1>1, <1>2, <1>4 DEF NoLostSession, Others
<1> QED BY <1>5, <1>6, <1>7, <1>8, <1>9, <1>10, <1>11

LEMMA HandlerMap ==
  ASSUME MapInv, NEW h \in Handler, HandlerStep(h)
  PROVE  MapInv'
  BY LookupStep, PrepareNewStep, PrepareForceStep, PrepareRestoreStep, StartStep, InsertStep,
     InsertExistingStep, CommitStep, CommitFailStep, JoinStep, JoinFailStep, AbandonStep,
     CloseOwnStep, RollbackStep, LeaveStep, RequestFailStep, PruneNamesStep, PruneDirStep,
     PruneNextStep DEF HandlerStep

-----------------------------------------------------------------------------
\* Steps of a session and of its watcher

LEMMA OutputStep ==
  ASSUME MapInv, NEW s \in Sess, Output(s)
  PROVE  MapInv'
<1> USE DEF MapInv
<1>1. /\ life' = life /\ sname' = sname /\ base' = base /\ writers' = writers /\ watch' = watch
      /\ sessions' = sessions /\ stop' = stop /\ starts' = starts /\ ticks' = ticks
      /\ file' = file /\ tmp' = tmp /\ wr' = wr /\ pmu' = pmu /\ queue' = queue /\ req' = req
      /\ out' = [out EXCEPT ![s] = @ + 1] /\ out[s] < MaxOut
  BY DEF Output, countVars, fileVars, writeVars
<1>2. TypeOK' BY <1>1, RegistryAssumption DEF TypeOK
<1>3. MapOrder' BY <1>1 DEF MapOrder, mapped
<1>4. \A g \in Handler : OwnOrder(g)' BY <1>1 DEF OwnOrder, mapped
<1>5. OwnOnce' /\ WriteOwner' BY <1>1 DEF OwnOnce, WriteOwner
<1>6. DownOrder' /\ NoLostSession' BY <1>1 DEF DownOrder, NoLostSession
<1> QED BY <1>2, <1>3, <1>4, <1>5, <1>6

LEMMA ExitStep ==
  ASSUME MapInv, NEW s \in Sess, Exit(s)
  PROVE  MapInv'
<1> USE DEF MapInv
<1>1. /\ sname' = sname /\ out' = out /\ base' = base /\ writers' = writers /\ watch' = watch
      /\ sessions' = sessions /\ stop' = stop /\ starts' = starts /\ ticks' = ticks
      /\ file' = file /\ tmp' = tmp /\ wr' = wr /\ pmu' = pmu /\ queue' = queue /\ req' = req
      /\ life' = [life EXCEPT ![s] = "done"] /\ life[s] = "run"
  BY DEF Exit, countVars, fileVars, writeVars
<1>2. /\ life'[s] = "done"
      /\ \A t \in Sess : t # s => life'[t] = life[t]
  BY <1>1 DEF TypeOK
<1>3. TypeOK' BY <1>1 DEF TypeOK
<1>4. MapOrder' BY <1>1, <1>2 DEF MapOrder, mapped, TypeOK
<1>5. \A g \in Handler : OwnOrder(g)'
  <2>1. \A g \in Handler : req[g].mine \in Sess \cup {Nil} BY DEF TypeOK, RequestState
  <2> QED BY <1>1, <1>2, <2>1 DEF OwnOrder, mapped
<1>6. OwnOnce' /\ WriteOwner' BY <1>1 DEF OwnOnce, WriteOwner
<1>7. stop # "down" BY <1>1 DEF DownOrder
<1>8. DownOrder' /\ NoLostSession' BY <1>1, <1>2, <1>7 DEF DownOrder, NoLostSession
<1> QED BY <1>3, <1>4, <1>5, <1>6, <1>8

\* A step of a watcher that leaves the map as it is.
LEMMA Watched ==
  ASSUME MapInv, NEW s \in Sess, NEW v \in Ending,
         watch[s] \in {"wait", "save", "writing", "drain"}, life[s] \in {"done", "closed"},
         watch' = [watch EXCEPT ![s] = v],
         v \in Watching => watch[s] \in Watching,
         UNCHANGED <<life, sname, out, base, writers, sessions, countVars, fileVars, req>>,
         stop' \in {"no", "saving", "cancelled", "closing", "reset"}, mapped' => mapped,
         queue' \in [{"saver", "stop"} -> SUBSET Sess],
         wr' \in [Writer -> Write], pmu' \in Writer \cup {Nil},
         \A w \in Writer : w # s => wr'[w].pc = wr[w].pc,
         wr'[s].pc # "idle" => v = "writing"
  PROVE  MapInv'
<1> USE DEF MapInv
<1>1. /\ life' = life /\ sname' = sname /\ out' = out /\ base' = base /\ writers' = writers
      /\ sessions' = sessions /\ starts' = starts /\ ticks' = ticks
      /\ file' = file /\ tmp' = tmp /\ req' = req
  BY DEF countVars, fileVars
<1>2. /\ watch'[s] = v
      /\ \A t \in Sess : t # s => watch'[t] = watch[t]
  BY DEF TypeOK
<1>3. TypeOK' BY <1>1 DEF TypeOK, Ending
<1>4. MapOrder' BY <1>1, <1>2 DEF MapOrder, mapped
<1>5. \A g \in Handler : OwnOrder(g)'
  <2>1. \A g \in Handler : req[g].mine \in Sess \cup {Nil} BY DEF TypeOK, RequestState
  <2> QED BY <1>1, <1>2, <2>1 DEF OwnOrder, mapped
<1>6. OwnOnce' BY <1>1 DEF OwnOnce
<1>7. WriteOwner'
  <2>1. Sess \subseteq Writer /\ Handler \subseteq Writer /\ s \notin Handler
    BY RegistryAssumption DEF Writer
  <2> QED BY <1>1, <1>2, <2>1 DEF WriteOwner
<1>8. DownOrder' /\ NoLostSession'
  BY <1>1 DEF DownOrder, NoLostSession, mapped
<1> QED BY <1>3, <1>4, <1>5, <1>6, <1>7, <1>8

LEMMA SaveType ==
  ASSUME MapInv, NEW w \in Writer, NEW s \in Sess, BeginSave(w, s)
  PROVE  /\ wr' \in [Writer -> Write] /\ pmu' \in Writer \cup {Nil}
         /\ \A v \in Writer : v # w => wr'[v] = wr[v]
<1>1. TypeSess /\ TypeWrite /\ sname[s] \in Names \cup {Nil}
  BY DEF MapInv, TypeOK, TypeSess, TypeWrite
<1> DEFINE d == [pc |-> "open", n |-> sname[s], data |-> snapshot(s), at |-> "gone"]
<1>2. d \in Write BY <1>1, SnapshotType DEF Write
<1>3. wr' = [wr EXCEPT ![w] = d] /\ pmu' = w BY DEF BeginSave
<1> HIDE DEF d
<1> QED BY <1>1, <1>2, <1>3 DEF TypeWrite

LEMMA LiveType ==
  ASSUME MapInv
  PROVE  Live \subseteq Sess /\ \A s \in Live : life[s] # "none"
<1>1. sessions \in [Names -> Sess \cup {Nil}] BY DEF MapInv, TypeOK
<1>2. \A n \in Names : sessions[n] # Nil => life[sessions[n]] # "none" BY DEF MapInv, MapOrder
<1> QED BY <1>1, <1>2 DEF Live

LEMMA ShutdownType ==
  ASSUME MapInv, beginShutdown
  PROVE  /\ queue' \in [{"saver", "stop"} -> SUBSET Sess]
         /\ stop' = stop \/ (stop' = "saving" /\ stop = "no")
<1>1. queue \in [{"saver", "stop"} -> SUBSET Sess] BY DEF MapInv, TypeOK
<1>2. Live \in SUBSET Sess BY LiveType
<1>3. CASE stop = "no"
  <2>1. stop' = "saving" /\ queue' = [queue EXCEPT !["stop"] = Live] BY <1>3 DEF beginShutdown
  <2> QED BY <1>1, <1>2, <1>3, <2>1
<1>4. CASE stop # "no" BY <1>1, <1>4 DEF beginShutdown
<1> QED BY <1>3, <1>4

LEMMA WatcherMap ==
  ASSUME MapInv, NEW s \in Sess, WatchDone(s) \/ WatchSave(s) \/ WatchDrain(s)
  PROVE  MapInv'
<1>1. watch[s] \in {"wait", "save", "drain"} /\ life[s] \in {"done", "closed"}
  BY DEF WatchDone, WatchSave, WatchDrain, MapInv, MapOrder, Ending
<1>2. stop \in {"no", "saving", "cancelled", "closing", "reset"} /\ wr[s].pc = "idle" /\ s \in Writer
  BY <1>1 DEF MapInv, DownOrder, WriteOwner, TypeOK, Writer
<1>3. TypeOK /\ queue \in [{"saver", "stop"} -> SUBSET Sess] /\ wr \in [Writer -> Write]
      /\ pmu \in Writer \cup {Nil}
  BY DEF MapInv, TypeOK
<1>4. CASE WatchDone(s)
  <2> DEFINE v == IF cancelled THEN "remove" ELSE "save"
  <2>1. v \in Ending /\ v \in Watching /\ watch[s] \in Watching
    BY <1>4 DEF Ending, Watching, WatchDone
  <2>2. /\ watch' = [watch EXCEPT ![s] = v]
        /\ UNCHANGED <<life, sname, out, base, writers, sessions, countVars, fileVars, req>>
        /\ stop' = stop /\ queue' = queue /\ wr' = wr /\ pmu' = pmu
    BY <1>4 DEF WatchDone, writeVars
  <2> HIDE DEF v
  <2> QED BY <1>1, <1>2, <1>3, <2>1, <2>2, Watched DEF mapped
<1>5. CASE WatchSave(s)
  <2>1. /\ UNCHANGED <<life, sname, out, base, writers, sessions, countVars, fileVars, req>>
        /\ stop' = stop /\ queue' = queue /\ watch[s] = "save"
    BY <1>5 DEF WatchSave
  <2>2. CASE watch' = [watch EXCEPT ![s] = "remove"] /\ wr' = wr /\ pmu' = pmu
    BY <1>1, <1>2, <1>3, <2>1, <2>2, Watched DEF mapped, Ending, Watching
  <2>3. CASE BeginSave(s, s) /\ watch' = [watch EXCEPT ![s] = "writing"]
    <3>1. /\ wr' \in [Writer -> Write] /\ pmu' \in Writer \cup {Nil}
          /\ \A v \in Writer : v # s => wr'[v] = wr[v]
      BY <1>2, <2>3, SaveType
    <3> QED BY <1>1, <1>2, <1>3, <2>1, <2>3, <3>1, Watched DEF mapped, Ending, Watching
  <2> QED BY <1>5, <2>2, <2>3 DEF WatchSave
<1>6. CASE WatchDrain(s)
  <2>1. /\ UNCHANGED <<life, sname, out, base, writers, sessions, countVars, fileVars, req>>
        /\ wr' = wr /\ pmu' = pmu /\ watch[s] = "drain" /\ watch' = [watch EXCEPT ![s] = "end"]
        /\ beginShutdown
    BY <1>6 DEF WatchDrain
  <2>2. /\ queue' \in [{"saver", "stop"} -> SUBSET Sess]
        /\ stop' = stop \/ (stop' = "saving" /\ stop = "no")
    BY <2>1, ShutdownType
  <2> QED BY <1>1, <1>2, <1>3, <2>1, <2>2, Watched DEF mapped, Ending, Watching
<1> QED BY <1>4, <1>5, <1>6

\* The watcher deletes by name: the name is still its own session's.
LEMMA WatchRemoveStep ==
  ASSUME MapInv, NEW s \in Sess, WatchRemove(s)
  PROVE  MapInv'
<1> USE DEF MapInv
<1>1. /\ watch[s] = "remove" /\ sessions' = [sessions EXCEPT ![sname[s]] = Nil]
      /\ life' = life /\ sname' = sname /\ out' = out /\ base' = base /\ writers' = writers
      /\ stop' = stop /\ starts' = starts /\ ticks' = ticks
      /\ file' = file /\ tmp' = tmp /\ wr' = wr /\ pmu' = pmu /\ queue' = queue /\ req' = req
  BY DEF WatchRemove, countVars, fileVars, writeVars
<1>2. PICK v \in {"drain", "end"} : watch' = [watch EXCEPT ![s] = v]
  BY DEF WatchRemove
<1>3. /\ life[s] \in {"done", "closed"} /\ sname[s] \in Names /\ stop # "down"
      /\ mapped => sessions[sname[s]] = s
  BY <1>1 DEF MapOrder, Ending, Watching, DownOrder
<1>4. /\ \A m \in Names : m # sname[s] => sessions'[m] = sessions[m]
      /\ sessions'[sname[s]] = Nil
  BY <1>1, <1>3 DEF TypeOK
<1>5. /\ watch'[s] = v
      /\ \A t \in Sess : t # s => watch'[t] = watch[t]
  BY <1>2 DEF TypeOK
<1>6. TypeOK' BY <1>1, <1>2, <1>3 DEF TypeOK
<1>7. MapOrder'
  <2>1. ASSUME mapped, NEW t \in Sess, watch'[t] \in Watching PROVE sessions'[sname[t]] = t
    <3>1. t # s /\ watch[t] \in Watching BY <1>5, <2>1 DEF Watching
    <3>2. sname[t] \in Names /\ sessions[sname[t]] = t
      BY <2>1, <3>1 DEF MapOrder, Watching
    <3> QED BY <1>3, <1>4, <2>1, <3>1, <3>2
  <2>2. \A m \in Names : sessions'[m] # Nil => sname[sessions'[m]] = m /\ life[sessions'[m]] # "none"
    BY <1>3, <1>4 DEF MapOrder
  <2>3. /\ \A t \in Sess : life[t] = "none" => watch'[t] = "no"
        /\ \A t \in Sess : watch'[t] \in Ending => life[t] \in {"done", "closed"}
    BY <1>3, <1>5 DEF MapOrder
  <2> QED BY <1>1, <2>1, <2>2, <2>3 DEF MapOrder, mapped
<1>8. \A g \in Handler : OwnOrder(g)'
  <2> SUFFICES ASSUME NEW g \in Handler PROVE OwnOrder(g)'
    OBVIOUS
  <2>1. req[g].mine \in Sess \cup {Nil} BY DEF TypeOK, RequestState
  <2>2. ASSUME mapped, req[g].mine # Nil, req[g].pc \in {"commit", "join", "abandon"}
        PROVE  sessions'[req[g].n] = req[g].mine
    <3>1. req[g].n \in Names /\ sessions[req[g].n] = req[g].mine /\ watch[req[g].mine] = "no"
      BY <2>2 DEF OwnOrder
    <3> QED BY <1>1, <1>3, <1>4, <2>2, <3>1
  <2>3. req[g].mine # Nil /\ req[g].pc \in {"insert", "commit", "join", "abandon", "close"}
          => watch'[req[g].mine] = "no"
    BY <1>1, <1>5, <2>1 DEF OwnOrder
  <2> QED BY <1>1, <2>2, <2>3 DEF OwnOrder, mapped
<1>9. OwnOnce' BY <1>1 DEF OwnOnce
<1>10. WriteOwner' BY <1>1, <1>5 DEF WriteOwner
<1>11. DownOrder' BY <1>1, <1>3 DEF DownOrder
<1>12. NoLostSession'
  <2> SUFFICES ASSUME mapped, NEW t \in Sess, life[t] = "run", sessions'[sname[t]] # t
               PROVE  \E g \in Handler : req[g].mine = t /\ req[g].pc \in {"insert", "close"}
    BY <1>1 DEF NoLostSession, mapped
  <2>1. t # s /\ sname[t] \in Names BY <1>3 DEF MapOrder
  <2>2. sessions[sname[t]] # t BY <1>3, <1>4, <2>1
  <2> QED BY <2>2 DEF NoLostSession, mapped
<1> QED BY <1>6, <1>7, <1>8, <1>9, <1>10, <1>11, <1>12

-----------------------------------------------------------------------------
\* Steps of a write

LEMMA Writers ==
  /\ Sess \subseteq Writer /\ Handler \subseteq Writer /\ "saver" \in Writer /\ "stop" \in Writer
  /\ \A s \in Sess : s \notin Handler /\ s # "saver" /\ s # "stop"
  /\ \A h \in Handler : h # "saver" /\ h # "stop"
  /\ Nil \notin Writer
  BY RegistryAssumption DEF Writer

\* A write that goes on.
LEMMA WriteGoesOn ==
  ASSUME MapInv, NEW w \in Writer, wr[w].pc # "idle",
         UNCHANGED <<sessVars, sessions, stop, countVars, pmu, queue, req>>,
         TypeFile', wr' \in [Writer -> Write],
         \A v \in Writer : v # w => wr'[v].pc = wr[v].pc
  PROVE  MapInv'
<1> USE DEF MapInv
<1>1. /\ life' = life /\ sname' = sname /\ out' = out /\ base' = base /\ writers' = writers
      /\ watch' = watch /\ sessions' = sessions /\ stop' = stop /\ starts' = starts
      /\ ticks' = ticks /\ pmu' = pmu /\ queue' = queue /\ req' = req
  BY DEF sessVars, countVars
<1>2. TypeOK' BY <1>1 DEF TypeFile, TypeOK
<1>3. MapOrder' BY <1>1 DEF MapOrder, mapped
<1>4. \A g \in Handler : OwnOrder(g)' BY <1>1 DEF OwnOrder, mapped
<1>5. OwnOnce' /\ NoLostSession' BY <1>1 DEF OwnOnce, NoLostSession
<1>6. WriteOwner' BY <1>1, Writers DEF WriteOwner
<1>7. stop # "down" BY DEF DownOrder, Idle
<1>8. DownOrder' BY <1>1, <1>7 DEF DownOrder
<1> QED BY <1>2, <1>3, <1>4, <1>5, <1>6, <1>8

LEMMA WriteEnds ==
  ASSUME MapInv, NEW w \in Writer, wr[w].pc # "idle", written(w),
         TypeFile', wr' \in [Writer -> Write], wr'[w] = Idle,
         \A v \in Writer : v # w => wr'[v].pc = wr[v].pc
  PROVE  MapInv'
<1> USE DEF MapInv
<1>1. /\ life' = life /\ sname' = sname /\ out' = out /\ base' = base /\ writers' = writers
      /\ sessions' = sessions /\ stop' = stop /\ starts' = starts
      /\ ticks' = ticks /\ queue' = queue
      /\ watch' = [s \in Sess |-> IF s = w THEN "remove" ELSE watch[s]]
      /\ req' = [h \in Handler |-> IF h = w THEN NoReq ELSE req[h]]
  BY DEF written, countVars
<1>2. \A s \in Sess : \/ watch'[s] = watch[s] /\ s # w
                      \/ watch[s] = "writing" /\ watch'[s] = "remove" /\ s = w
  BY <1>1 DEF WriteOwner
<1>3. \A g \in Handler : \/ req'[g] = req[g] /\ g # w
                         \/ req[g].pc = "writing" /\ req'[g] = NoReq /\ g = w
  BY <1>1 DEF WriteOwner
<1>4. TypeSess /\ TypeWrite /\ TypeReq BY DEF TypeOK, TypeSess, TypeWrite, TypeReq
<1>5. /\ watch' \in [Sess -> {"no", "wait", "save", "writing", "remove", "drain", "end"}]
      /\ pmu' \in Writer \cup {Nil} /\ TypeReq'
  BY <1>4, WrittenType
<1>6. TypeOK' BY <1>1, <1>5 DEF TypeFile, TypeReq, TypeOK
<1>7. MapOrder' BY <1>1, <1>2 DEF MapOrder, mapped, Watching, Ending
<1>8. \A g \in Handler : OwnOrder(g)'
  <2> SUFFICES ASSUME NEW g \in Handler PROVE OwnOrder(g)'
    OBVIOUS
  <2>1. CASE req'[g] = NoReq BY <2>1, OwnNoReq
  <2>2. CASE req'[g] = req[g]
    <3>1. req[g].mine \in Sess \cup {Nil} BY DEF TypeOK, RequestState
    <3> QED BY <1>1, <1>2, <2>2, <3>1 DEF OwnOrder, mapped
  <2> QED BY <1>3, <2>1, <2>2
<1>9. OwnOnce' BY <1>3 DEF OwnOnce, NoReq
<1>10. WriteOwner'
  <2>1. wr'[w].pc = "idle" BY DEF Idle
  <2> QED BY <1>2, <1>3, <2>1, Writers DEF WriteOwner
<1>11. stop # "down" BY DEF DownOrder, Idle
<1>12. DownOrder' BY <1>1, <1>11 DEF DownOrder
<1>13. NoLostSession' BY <1>1, <1>3 DEF NoLostSession
<1> QED BY <1>6, <1>7, <1>8, <1>9, <1>10, <1>12, <1>13

LEMMA WriteMap ==
  ASSUME MapInv, NEW w \in Writer, WriteStep(w)
  PROVE  MapInv'
<1> DEFINE n == wr[w].n
<1>1. TypeFile /\ TypeWrite /\ wr[w] \in Write BY DEF MapInv, TypeOK, TypeFile, TypeWrite
<1>2. CASE WriteOpen(w)
  <2>1. UNCHANGED <<sessVars, sessions, stop, countVars, file, pmu, queue, req>>
        /\ wr[w].pc = "open" /\ tmp' = [tmp EXCEPT ![n] = Torn]
        /\ wr' = [wr EXCEPT ![w].pc = "fill", ![w].at = "tmp"]
    BY <1>2 DEF WriteOpen
  <2> DEFINE d == [wr[w] EXCEPT !.pc = "fill", !.at = "tmp"]
  <2>2. d \in Write BY <1>1 DEF Write
  <2>3. wr' = [wr EXCEPT ![w] = d] BY <1>1, <2>1 DEF TypeWrite
  <2> HIDE DEF d
  <2>4. wr' \in [Writer -> Write] /\ \A v \in Writer : v # w => wr'[v] = wr[v]
    BY <1>1, <2>2, <2>3 DEF TypeWrite
  <2>5. TypeFile' BY <1>1, <2>1 DEF TypeFile
  <2> QED BY <2>1, <2>4, <2>5, WriteGoesOn
<1>3. CASE WriteFill(w)
  <2>1. UNCHANGED <<sessVars, sessions, stop, countVars, pmu, queue, req>>
        /\ wr[w].pc = "fill"
        /\ tmp' = (IF wr[w].at = "tmp" THEN [tmp EXCEPT ![n] = wr[w].data] ELSE tmp)
        /\ file' = (IF wr[w].at = "file" THEN [file EXCEPT ![n] = wr[w].data] ELSE file)
        /\ wr' = [wr EXCEPT ![w].pc = "rename"]
    BY <1>3 DEF WriteFill, fillWith
  <2> DEFINE d == [wr[w] EXCEPT !.pc = "rename"]
  <2>2. d \in Write BY <1>1 DEF Write
  <2>3. wr' = [wr EXCEPT ![w] = d] BY <1>1, <2>1 DEF TypeWrite
  <2> HIDE DEF d
  <2>4. wr' \in [Writer -> Write] /\ \A v \in Writer : v # w => wr'[v] = wr[v]
    BY <1>1, <2>2, <2>3 DEF TypeWrite
  <2>5. wr[w].data \in State \cup {NoFile, Torn} BY <1>1 DEF Write
  <2>6. TypeFile' BY <1>1, <2>1, <2>5 DEF TypeFile
  <2> QED BY <2>1, <2>4, <2>6, WriteGoesOn
<1>4. CASE WriteRename(w)
  <2>1. wr[w].pc = "rename" /\ written(w) BY <1>4 DEF WriteRename
  <2>2. CASE wr' = [wr EXCEPT ![w] = Idle] /\ UNCHANGED fileVars
    <3>1. wr' \in [Writer -> Write] /\ wr'[w] = Idle /\ \A v \in Writer : v # w => wr'[v] = wr[v]
      BY <1>1, <2>2, IdleType DEF TypeWrite
    <3>2. TypeFile' BY <1>1, <2>2 DEF TypeFile, fileVars
    <3> QED BY <2>1, <3>1, <3>2, WriteEnds
  <2>3. CASE /\ file' = [file EXCEPT ![n] = tmp[n]]
             /\ tmp' = [tmp EXCEPT ![n] = NoFile]
             /\ wr' = [v \in Writer |->
                         IF v = w THEN Idle
                         ELSE IF wr[v].n # n \/ wr[v].pc # "fill" THEN wr[v]
                         ELSE [wr[v] EXCEPT !.at = IF @ = "tmp" THEN "file" ELSE "gone"]]
    <3>1. TypeFile' BY <1>1, <2>3 DEF TypeFile
    <3>2. \A v \in Writer : LET d == [wr[v] EXCEPT !.at = IF @ = "tmp" THEN "file" ELSE "gone"]
                            IN  d \in Write /\ d.pc = wr[v].pc
      BY <1>1 DEF TypeWrite, Write
    <3>3. /\ wr' \in [Writer -> Write] /\ wr'[w] = Idle
          /\ \A v \in Writer : v # w => wr'[v].pc = wr[v].pc
      BY <1>1, <2>3, <3>2, IdleType DEF TypeWrite
    <3> QED BY <2>1, <3>1, <3>3, WriteEnds
  <2> QED BY <1>4, <2>2, <2>3 DEF WriteRename
<1>5. CASE WriteFail(w)
  <2>1. wr[w].pc # "idle" /\ written(w) BY <1>5 DEF WriteFail
  <2>2. moved("tmp", "gone", n) \in [Writer -> Write]
        /\ \A v \in Writer : moved("tmp", "gone", n)[v].pc = wr[v].pc
    BY <1>1, MovedType DEF TypeWrite
  <2>3. \/ wr' = [wr EXCEPT ![w] = Idle]
        \/ wr' = [moved("tmp", "gone", n) EXCEPT ![w] = Idle]
    BY <1>5 DEF WriteFail
  <2>4. /\ wr' \in [Writer -> Write] /\ wr'[w] = Idle
        /\ \A v \in Writer : v # w => wr'[v].pc = wr[v].pc
    BY <1>1, <2>2, <2>3, IdleType DEF TypeWrite
  <2>5. TypeFile' BY <1>1, <1>5 DEF WriteFail, fillWith, TypeFile, fileVars
  <2> QED BY <2>1, <2>4, <2>5, WriteEnds
<1> QED BY <1>2, <1>3, <1>4, <1>5 DEF WriteStep

-----------------------------------------------------------------------------
\* Steps of the server

\* A step that leaves the sessions, the map and the requests alone.
LEMMA ServerFrame ==
  ASSUME MapInv, UNCHANGED <<sessVars, sessions, req>>, TypeServer', TypeFile', TypeWrite',
         mapped' => mapped, stop' = "down" => stop = "down" /\ UNCHANGED <<wr, pmu>>,
         \A w \in Sess \cup Handler : wr'[w].pc = wr[w].pc
  PROVE  MapInv'
<1> USE DEF MapInv
<1>1. /\ life' = life /\ sname' = sname /\ out' = out /\ base' = base /\ writers' = writers
      /\ watch' = watch /\ sessions' = sessions /\ req' = req
  BY DEF sessVars
<1>2. TypeOK' BY <1>1 DEF TypeFile, TypeServer, TypeWrite, TypeOK
<1>3. MapOrder' BY <1>1 DEF MapOrder
<1>4. \A g \in Handler : OwnOrder(g)' BY <1>1 DEF OwnOrder
<1>5. OwnOnce' /\ NoLostSession' BY <1>1 DEF OwnOnce, NoLostSession, mapped
<1>6. WriteOwner' BY <1>1 DEF WriteOwner
<1>7. DownOrder' BY <1>1 DEF DownOrder
<1> QED BY <1>2, <1>3, <1>4, <1>5, <1>6, <1>7

LEMMA SaverStep ==
  ASSUME MapInv,
         \/ \E w \in {"saver", "stop"} : SaveNext(w)
         \/ Tick \/ Signal \/ Cancel \/ LockSessions
  PROVE  MapInv'
<1>1. TypeServer /\ TypeFile /\ TypeWrite
  BY DEF MapInv, TypeOK, TypeServer, TypeFile, TypeWrite
<1>2. ASSUME NEW w \in {"saver", "stop"}, SaveNext(w) PROVE MapInv'
  <2>1. UNCHANGED <<sessVars, sessions, stop, countVars, fileVars, req>> /\ stop # "down"
    BY <1>2 DEF SaveNext, alive
  <2>2. PICK s \in queue[w] :
          /\ queue' = [queue EXCEPT ![w] = @ \ {s}]
          /\ UNCHANGED <<wr, pmu>> \/ BeginSave(w, s)
    BY <1>2 DEF SaveNext
  <2>3. s \in Sess /\ w \in Writer /\ w \notin Sess \cup Handler
    BY <1>1, Writers DEF TypeServer
  <2>4. TypeWrite' /\ \A v \in Sess \cup Handler : wr'[v].pc = wr[v].pc
    BY <1>1, <2>2, <2>3, SaveType, Writers DEF TypeWrite
  <2>5. TypeServer' /\ TypeFile'
    BY <1>1, <2>1, <2>2 DEF TypeServer, TypeFile, countVars, fileVars
  <2> QED BY <2>1, <2>4, <2>5, ServerFrame DEF mapped
<1>3. CASE Tick
  <2>1. UNCHANGED <<sessVars, sessions, stop, starts, fileVars, wr, pmu, req>> /\ stop = "no"
        /\ ticks < MaxTick /\ ticks' = ticks + 1 /\ queue' = [queue EXCEPT !["saver"] = Live]
    BY <1>3 DEF Tick
  <2>2. Live \in SUBSET Sess BY LiveType
  <2>3. TypeServer' BY <1>1, <2>1, <2>2, RegistryAssumption DEF TypeServer
  <2>4. TypeFile' /\ TypeWrite' BY <1>1, <2>1 DEF TypeFile, fileVars, TypeWrite
  <2> QED BY <2>1, <2>3, <2>4, ServerFrame DEF mapped
<1>4. CASE Signal
  <2>1. UNCHANGED <<sessVars, sessions, countVars, fileVars, wr, pmu, req>> /\ beginShutdown
    BY <1>4 DEF Signal
  <2>2. /\ queue' \in [{"saver", "stop"} -> SUBSET Sess]
        /\ stop' = stop \/ (stop' = "saving" /\ stop = "no")
    BY <2>1, ShutdownType
  <2>3. TypeServer' /\ TypeFile' /\ TypeWrite'
    BY <1>1, <2>1, <2>2 DEF TypeServer, TypeFile, TypeWrite, fileVars, countVars
  <2> QED BY <2>1, <2>2, <2>3, ServerFrame DEF mapped
<1>5. CASE Cancel \/ LockSessions
  <2>1. /\ UNCHANGED <<sessVars, sessions, countVars, fileVars, writeVars, req>>
        /\ stop \in {"saving", "cancelled"} /\ stop' \in {"cancelled", "closing"}
    BY <1>5 DEF Cancel, LockSessions
  <2>2. TypeServer' /\ TypeFile' /\ TypeWrite' /\ UNCHANGED <<wr, pmu>>
    BY <1>1, <2>1 DEF TypeServer, TypeFile, TypeWrite, fileVars, countVars, writeVars
  <2> QED BY <2>1, <2>2, ServerFrame DEF mapped
<1> QED BY <1>2, <1>3, <1>4, <1>5

LEMMA CloseNextStep ==
  ASSUME MapInv, CloseNext
  PROVE  MapInv'
<1>1. PICK s \in Live : closeSession(s) /\ req' = disconnect(s) BY DEF CloseNext
<1>2. s \in Sess /\ life[s] # "none" BY LiveType
<1>3. TypeReq BY DEF MapInv, TypeOK, TypeReq
<1>4. TypeReq' /\ \A g \in Handler : \/ req'[g] = req[g]
                                     \/ req[g].pc = "attached" /\ req'[g] = NoReq
  BY <1>1, <1>3, Disconnected DEF TypeReq
<1>5. UNCHANGED <<sname, out, base, watch, sessions, stop, countVars, fileVars, writeVars>>
      /\ stop # "down"
  BY DEF CloseNext
<1> QED BY <1>1, <1>2, <1>4, <1>5, Closing

\* Once every session of the map is closed, the map is emptied.
LEMMA ResetStep ==
  ASSUME MapInv, ResetSessions
  PROVE  MapInv'
<1> USE DEF MapInv
<1>1. /\ life' = life /\ sname' = sname /\ out' = out /\ base' = base /\ writers' = writers
      /\ watch' = watch /\ starts' = starts /\ ticks' = ticks
      /\ file' = file /\ tmp' = tmp /\ wr' = wr /\ pmu' = pmu /\ queue' = queue /\ req' = req
      /\ sessions' = [n \in Names |-> Nil] /\ stop' = "reset"
  BY DEF ResetSessions, sessVars, countVars, fileVars, writeVars
<1>2. TypeOK' BY <1>1 DEF TypeOK
<1>3. MapOrder' BY <1>1 DEF MapOrder, mapped
<1>4. \A g \in Handler : OwnOrder(g)' BY <1>1 DEF OwnOrder, mapped
<1>5. OwnOnce' /\ WriteOwner' BY <1>1 DEF OwnOnce, WriteOwner
<1>6. DownOrder' /\ NoLostSession' BY <1>1 DEF DownOrder, NoLostSession
<1> QED BY <1>2, <1>3, <1>4, <1>5, <1>6

LEMMA GoneStep ==
  ASSUME MapInv, processGone
  PROVE  MapInv'
<1> USE DEF MapInv
<1>1. /\ stop' = "down" /\ sname' = sname /\ out' = out /\ base' = base
      /\ starts' = starts /\ ticks' = ticks /\ file' = file /\ tmp' = tmp
      /\ life' = [s \in Sess |-> IF life[s] = "none" THEN "none" ELSE "closed"]
      /\ writers' = [s \in Sess |-> {}]
      /\ watch' = [s \in Sess |-> IF life[s] = "none" THEN "no" ELSE "end"]
      /\ sessions' = [n \in Names |-> Nil]
      /\ wr' = [w \in Writer |-> Idle]
      /\ pmu' = Nil
      /\ queue' = [w \in {"saver", "stop"} |-> {}]
      /\ req' = [h \in Handler |-> NoReq]
  BY DEF processGone, countVars, fileVars
<1>2. TypeOK' BY <1>1, NoReqType, IdleType DEF TypeOK
<1>3. MapOrder' BY <1>1 DEF MapOrder, mapped
<1>4. \A g \in Handler : OwnOrder(g)' BY <1>1, OwnNoReq
<1>5. OwnOnce' /\ WriteOwner' BY <1>1, Writers DEF OwnOnce, WriteOwner, NoReq, Idle
<1>6. DownOrder' BY <1>1 DEF DownOrder
<1>7. NoLostSession' BY <1>1 DEF NoLostSession
<1> QED BY <1>2, <1>3, <1>4, <1>5, <1>6, <1>7

LEMMA CleanStep ==
  ASSUME MapInv, Restart \/ OtherDaemon
  PROVE  MapInv'
<1>1. TypeServer /\ TypeFile /\ TypeWrite
  BY DEF MapInv, TypeOK, TypeServer, TypeFile, TypeWrite
<1>2. /\ cleanStaleTmp /\ UNCHANGED <<sessVars, sessions, ticks, file, pmu, queue, req>>
      /\ stop' # "down"
  BY DEF Restart, OtherDaemon, alive, countVars
<1>3. /\ TypeFile' /\ TypeWrite'
      /\ \A w \in Writer : wr'[w].pc = wr[w].pc
  BY <1>1, <1>2, CleanType DEF TypeFile, TypeWrite
<1>4. CASE OtherDaemon
  <2>1. UNCHANGED <<stop, countVars>> BY <1>4 DEF OtherDaemon
  <2>2. TypeServer' BY <1>1, <1>2, <2>1 DEF TypeServer, countVars
  <2> QED BY <1>2, <1>3, <2>1, <2>2, ServerFrame, Writers DEF mapped
<1>5. CASE Restart
  <2> USE DEF MapInv
  <2>1. stop = "down" /\ stop' = "no" /\ starts' = starts + 1 /\ starts < MaxStart
    BY <1>5 DEF Restart
  <2>2. TypeServer' BY <1>1, <1>2, <2>1, RegistryAssumption DEF TypeServer
  <2>3. /\ life' = life /\ sname' = sname /\ out' = out /\ base' = base /\ writers' = writers
        /\ watch' = watch /\ sessions' = sessions /\ req' = req
    BY <1>2 DEF sessVars
  <2>4. /\ \A s \in Sess : life[s] \in {"none", "closed"} /\ watch[s] \in {"no", "end"}
        /\ \A h \in Handler : req[h] = NoReq
    BY <2>1 DEF DownOrder
  <2>5. TypeOK' BY <1>3, <2>2, <2>3 DEF TypeFile, TypeServer, TypeWrite, TypeOK
  <2>6. MapOrder' BY <2>3, <2>4 DEF MapOrder, Watching
  <2>7. \A g \in Handler : OwnOrder(g)' BY <2>3, <2>4, OwnNoReq
  <2>8. OwnOnce' /\ NoLostSession' BY <2>3, <2>4 DEF OwnOnce, NoLostSession
  <2>9. WriteOwner' BY <1>3, <2>3, Writers DEF WriteOwner
  <2>10. DownOrder' BY <2>1 DEF DownOrder
  <2> QED BY <2>5, <2>6, <2>7, <2>8, <2>9, <2>10
<1> QED BY <1>4, <1>5

-----------------------------------------------------------------------------
LEMMA MapInit == Init => MapInv
<1> SUFFICES ASSUME Init PROVE MapInv
  OBVIOUS
<1>1. TypeOK BY TypesInit, TypesOK
<1>2. MapOrder BY DEF Init, MapOrder, Ending, Watching
<1>3. \A h \in Handler : OwnOrder(h) BY DEF Init, OwnOrder, NoReq
<1>4. OwnOnce /\ WriteOwner BY Writers DEF Init, OwnOnce, WriteOwner, NoReq, Idle
<1>5. DownOrder /\ NoLostSession BY DEF Init, DownOrder, NoLostSession
<1> QED BY <1>1, <1>2, <1>3, <1>4, <1>5 DEF MapInv

LEMMA MapNext == MapInv /\ [Next]_vars => MapInv'
<1> SUFFICES ASSUME MapInv, [Next]_vars PROVE MapInv'
  OBVIOUS
<1>1. CASE UNCHANGED vars
  <2>1. /\ UNCHANGED <<sessVars, sessions, req, stop, wr, pmu>> /\ TypeServer' /\ TypeFile' /\ TypeWrite'
    BY <1>1 DEF vars, countVars, fileVars, writeVars, MapInv, TypeOK, TypeServer, TypeFile, TypeWrite
  <2> QED BY <2>1, ServerFrame DEF mapped
<1>2. ASSUME NEW h \in Handler, Request(h) \/ HandlerStep(h) PROVE MapInv'
  BY <1>2, RequestStep, HandlerMap
<1>3. ASSUME NEW s \in Sess, Output(s) \/ Exit(s) \/ WatcherStep(s) PROVE MapInv'
  BY <1>3, OutputStep, ExitStep, WatcherMap, WatchRemoveStep DEF WatcherStep
<1>4. ASSUME NEW w \in Writer, WriteStep(w) PROVE MapInv'
  BY <1>4, WriteMap
<1>5. CASE (\E w \in {"saver", "stop"} : SaveNext(w)) \/ Tick \/ Signal \/ Cancel \/ LockSessions
  BY <1>5, SaverStep
<1>6. CASE ProcessExit \/ Crash
  BY <1>6, GoneStep DEF ProcessExit, Crash
<1> QED
  BY <1>1, <1>2, <1>3, <1>4, <1>5, <1>6, CloseNextStep, ResetStep, CleanStep
     DEF Next, ShutdownStep

LEMMA MapInvariant == Spec => []MapInv
  BY MapInit, MapNext, PTL DEF Spec

\* The variables of the daemon keep their types through every request, save,
\* shutdown, crash and restart.
THEOREM RegistryTypes == Spec => []TypeOK
<1>1. MapInv => TypeOK BY DEF MapInv
<1> QED BY <1>1, MapInvariant, PTL

\* No running session is ever lost: for any number of names, sessions and
\* handlers, with every fault, the two deletions by name (watchSession and
\* removeSession) only ever take away the session that they mean.
THEOREM RegistryNoLostSession == Spec => []NoLostSession
<1>1. MapInv => NoLostSession BY DEF MapInv
<1> QED BY <1>1, MapInvariant, PTL

-----------------------------------------------------------------------------
\* Without a restore: one write at a time

Safe(r) ==
  /\ ~Restores(r)
  /\ r.pc \in {"lookup", "prepare", "start", "insert"} => r.kind \in {"create", "force", "attach"}

LEMMA SafeNoReq == Safe(NoReq)
  BY DEF Safe, Restores, NoReq

LEMMA SafeStep ==
  ASSUME "restore" \notin Kinds, MapInv, NoRestoring, NEW h \in Handler,
         Request(h) \/ HandlerStep(h)
  PROVE  NoRestoring'
<1> USE DEF at
<1>1. TypeReq /\ req[h] \in RequestState BY DEF MapInv, TypeOK, TypeReq
<1>2. Safe(req[h]) BY DEF NoRestoring, Safe
<1>3. ASSUME finish(h) PROVE NoRestoring'
  BY <1>1, <1>3, Gone, SafeNoReq DEF NoRestoring, Safe, Others
<1>4. ASSUME Others(h), Safe(req'[h]) PROVE NoRestoring'
  BY <1>4 DEF NoRestoring, Safe, Others
<1>5. ASSUME NEW l \in Places, goto(h, l), l \notin {"commit", "rollback", "writing"},
             l = "start" => req[h].pc = "prepare",
             l = "prepare" => req[h].pc = "lookup",
             l \notin {"insert", "lookup"}
      PROVE  NoRestoring'
  <2>1. Others(h) /\ Goes(h, l) /\ Kept(h) BY <1>1, <1>5, Going
  <2>2. Safe(req'[h]) BY <1>2, <1>5, <2>1 DEF Safe, Restores, Goes, Now, Kept
  <2> QED BY <1>4, <2>1, <2>2
<1>6. CASE Request(h)
  <2>1. PICK k \in Kinds, n \in Names :
          req' = [req EXCEPT ![h] = [NoReq EXCEPT !.pc = IF k = "prune" THEN "names" ELSE "lookup",
                                                 !.kind = k, !.n = n]]
    BY <1>6 DEF Request
  <2> DEFINE r == [NoReq EXCEPT !.pc = IF k = "prune" THEN "names" ELSE "lookup",
                                !.kind = k, !.n = n]
  <2>2. r \in RequestState /\ Safe(r)
    BY RegistryAssumption DEF RequestState, NoReq, Safe, Restores
  <2>3. req' = [req EXCEPT ![h] = r] BY <2>1
  <2> HIDE DEF r
  <2> QED BY <1>1, <1>4, <2>2, <2>3, Edited
<1>7. CASE Lookup(h)
  <2>1. CASE req[h].kind = "attach" /\ sessions[req[h].n] # Nil
             /\ req' = [req EXCEPT ![h].pc = "join", ![h].target = sessions[req[h].n]]
    <3>1. sessions[req[h].n] \in Sess BY <1>7, <2>1, Begun DEF Lookup
    <3>2. Others(h) /\ Now(h, "join", req[h].mine, sessions[req[h].n]) /\ Kept(h)
      BY <1>1, <2>1, <3>1, Targeting DEF Places
    <3>3. Safe(req'[h]) BY <1>2, <3>2 DEF Safe, Restores, Now, Kept
    <3> QED BY <1>4, <3>2, <3>3
  <2> QED BY <1>3, <1>5, <1>7, <2>1 DEF Lookup, Places
<1>8. CASE PrepareNew(h) BY <1>3, <1>5, <1>8 DEF PrepareNew, Places
<1>9. CASE PrepareForce(h) BY <1>5, <1>9 DEF PrepareForce, Places
<1>10. CASE PrepareRestore(h) BY <1>2, <1>10 DEF PrepareRestore, Safe, Restores
<1>11. CASE Start(h)
  <2>1. PICK s \in Sess : req' = [req EXCEPT ![h].pc = "insert", ![h].mine = s]
    BY <1>11 DEF Start
  <2>2. Others(h) /\ Now(h, "insert", s, req[h].target) /\ Kept(h)
    BY <1>1, <2>1, Owning DEF Places
  <2>3. Safe(req'[h]) BY <1>2, <1>11, <2>2 DEF Start, Safe, Restores, Now, Kept
  <2> QED BY <1>4, <2>2, <2>3
<1>12. CASE Insert(h)
  <2>1. req[h].pc = "insert" /\ req[h].mine \in Sess
    BY <1>12, Begun DEF Insert, MapInv, OwnOrder
  <2>2. CASE req[h].kind = "attach"
             /\ req' = [req EXCEPT ![h].target = req[h].mine, ![h].pc = "join"]
    <3>1. Others(h) /\ Now(h, "join", req[h].mine, req[h].mine) /\ Kept(h)
      BY <1>1, <2>1, <2>2, Listing DEF Places
    <3>2. Safe(req'[h]) BY <1>2, <3>1 DEF Safe, Restores, Now, Kept
    <3> QED BY <1>4, <3>1, <3>2
  <2>3. CASE finish(h) BY <1>3, <2>3
  <2>4. req[h].kind \in {"create", "force", "attach"} BY <1>2, <2>1 DEF Safe
  <2> QED BY <1>12, <2>2, <2>3, <2>4 DEF Insert
<1>13. CASE InsertExisting(h)
  <2> DEFINE a == IF req[h].kind = "attach" THEN "join" ELSE "idle"
  <2>1. sessions[req[h].n] \in Sess /\ a \in {"idle", "join"} BY <1>13, Begun DEF InsertExisting
  <2>2. req' = [req EXCEPT ![h].pc = "close", ![h].target = sessions[req[h].n], ![h].after = a]
    BY <1>13 DEF InsertExisting
  <2> HIDE DEF a
  <2>3. /\ Others(h) /\ Now(h, "close", req[h].mine, sessions[req[h].n]) /\ req'[h].after = a
    BY <1>1, <2>1, <2>2, Yielding DEF Places
  <2>4. Safe(req'[h]) BY <1>2, <2>1, <2>3 DEF Safe, Restores, Now
  <2> QED BY <1>4, <2>3, <2>4
<1>14. CASE Commit(h) \/ CommitFail(h) \/ Rollback(h)
  BY <1>2, <1>14 DEF Commit, CommitFail, Rollback, Safe, Restores
<1>15. CASE Join(h) BY <1>5, <1>15 DEF Join, Places
<1>16. CASE JoinFail(h)
  <2>1. CASE req' = [req EXCEPT ![h].pc = "abandon", ![h].after = "idle"]
    <3>1. Others(h) /\ Goes(h, "abandon") /\ req'[h].after = "idle"
      BY <1>1, <2>1, Undoing DEF Places
    <3>2. Safe(req'[h]) BY <1>2, <3>1 DEF Safe, Restores, Goes, Now
    <3> QED BY <1>4, <3>1, <3>2
  <2>2. req[h].kind # "restore" BY <1>2 DEF Safe, Restores
  <2> QED BY <1>3, <1>16, <2>1, <2>2 DEF JoinFail
<1>17. CASE Abandon(h) BY <1>5, <1>17 DEF Abandon, Places
<1>18. CASE CloseOwn(h)
  <2> DEFINE r == IF req[h].after = "idle" THEN NoReq
                  ELSE [req[h] EXCEPT !.pc = req[h].after, !.mine = Nil]
  <2>1. r \in RequestState /\ Safe(r)
    <3>1. req[h].after \in {"idle", "join"} BY <1>1, <1>2 DEF RequestState, Safe, Restores
    <3>2. CASE req[h].after = "idle" BY <3>2, NoReqType, SafeNoReq
    <3>3. CASE req[h].after = "join"
      <4>1. r = [req[h] EXCEPT !.pc = "join", !.mine = Nil] BY <3>3
      <4>2. r \in RequestState /\ r.pc = "join" /\ r.kind = req[h].kind /\ r.after = req[h].after
        BY <1>1, <4>1 DEF RequestState
      <4> QED BY <1>2, <4>2 DEF Safe, Restores
    <3> QED BY <3>1, <3>2, <3>3
  <2>2. req' = [disconnect(req[h].mine) EXCEPT ![h] = r] BY <1>18 DEF CloseOwn
  <2> HIDE DEF r
  <2>3. req'[h] = r /\ \A g \in Handler : g # h => req'[g] = disconnect(req[h].mine)[g]
    BY <1>1, <2>2, Disconnected
  <2>4. \A g \in Handler : g # h => req'[g] = req[g] \/ req'[g] = NoReq
    BY <1>1, <2>3, Disconnected
  <2> QED BY <2>1, <2>3, <2>4, SafeNoReq DEF NoRestoring, Safe
<1>19. CASE Leave(h) \/ RequestFail(h) BY <1>3, <1>19 DEF Leave, RequestFail
<1>20. CASE PruneNames(h)
  <2>1. {n \in Names : sessions[n] = Nil} \in SUBSET Names OBVIOUS
  <2>2. Others(h) /\ Goes(h, "dir") /\ req'[h].after = req[h].after
    BY <1>1, <1>20, <2>1, Pruning DEF PruneNames, Places
  <2>3. Safe(req'[h]) BY <1>2, <2>2 DEF Safe, Restores, Goes, Now
  <2> QED BY <1>4, <2>2, <2>3
<1>21. CASE PruneDir(h)
  <2> DEFINE dead == {n \in req[h].todo : file[n] # NoFile}
  <2>1. dead \in SUBSET Names BY <1>1 DEF RequestState
  <2>2. CASE req' = [req EXCEPT ![h].pc = "prune", ![h].todo = dead]
    <3>1. Others(h) /\ Goes(h, "prune") /\ req'[h].after = req[h].after
      BY <1>1, <2>1, <2>2, Pruning DEF Places
    <3>2. Safe(req'[h]) BY <1>2, <3>1 DEF Safe, Restores, Goes, Now
    <3> QED BY <1>4, <3>1, <3>2
  <2> QED BY <1>3, <1>21, <2>2 DEF PruneDir
<1>22. CASE PruneNext(h)
  <2>1. PICK n \in req[h].todo : finish(h) \/ req' = [req EXCEPT ![h].todo = @ \ {n}]
    BY <1>22 DEF PruneNext
  <2>2. CASE req' = [req EXCEPT ![h].todo = @ \ {n}]
    <3>1. Others(h) /\ Goes(h, "prune") /\ req'[h].after = req[h].after
      BY <1>1, <1>22, <2>2, PruningOne DEF PruneNext
    <3>2. Safe(req'[h]) BY <1>2, <3>1 DEF Safe, Restores, Goes, Now
    <3> QED BY <1>4, <3>1, <3>2
  <2> QED BY <1>3, <2>1, <2>2
<1> QED
  BY <1>6, <1>7, <1>8, <1>9, <1>10, <1>11, <1>12, <1>13, <1>14, <1>15, <1>16, <1>17, <1>18,
     <1>19, <1>20, <1>21, <1>22 DEF HandlerStep

LEMMA StateFields ==
  ASSUME NEW f \in State
  PROVE  f.by \in Sess /\ f.at \in 0 .. MaxOut /\ f # NoFile /\ f # Torn
  BY FileAssumption DEF State

\* Nothing is ever written into a state file in place, so a removal moves no
\* open file away.
LEMMA MovedNothing ==
  ASSUME MapInv, SaveInv, NEW n
  PROVE  moved("file", "gone", n) = wr
<1>1. wr \in [Writer -> Write] BY DEF MapInv, TypeOK
<1>2. \A w \in Writer : ~(wr[w].pc = "fill" /\ wr[w].at = "file") BY DEF SaveInv, WriteData
<1>3. moved("file", "gone", n) = [w \in Writer |-> wr[w]] BY <1>2 DEF moved
<1> QED BY <1>1, <1>3

LEMMA SafeFrame ==
  ASSUME NoRestoring, \A g \in Handler : req'[g] = req[g] \/ req'[g] = NoReq
  PROVE  NoRestoring'
  BY SafeNoReq DEF NoRestoring, Safe

LEMMA QueueFrame ==
  ASSUME MapInv, QueueStarted, \A s \in Sess : life[s] # "none" => life'[s] # "none",
         \A w \in {"saver", "stop"} : queue'[w] \subseteq queue[w] \cup Live
  PROVE  QueueStarted'
<1>1. \A w \in {"saver", "stop"} : queue[w] \subseteq Sess BY DEF MapInv, TypeOK
<1> QED BY <1>1, LiveType DEF QueueStarted

\* A step that writes nothing.
LEMMA SaveFrame ==
  ASSUME MapInv, SaveInv, MapInv', NoRestoring', QueueStarted', wr' = wr, pmu' = pmu, tmp' = tmp,
         \A s \in Sess : out[s] <= out'[s],
         \A n \in Names : file'[n] = file[n] \/ file'[n] = NoFile
  PROVE  SaveInv'
<1>1. /\ out \in [Sess -> 0 .. MaxOut] /\ out' \in [Sess -> 0 .. MaxOut] /\ MaxOut \in Nat
  BY RegistryAssumption DEF MapInv, TypeOK
<1>2. OneWrite' BY DEF SaveInv, OneWrite
<1>3. ASSUME NEW w \in Writer PROVE WriteData(w)'
  <2> DEFINE x == wr[w]
  <2> SUFFICES ASSUME x.pc # "idle"
               PROVE  /\ x.n \in Names /\ x.data \in State /\ x.data.at <= out'[x.data.by]
                      /\ file'[x.n] # NoFile /\ file'[x.n].by = x.data.by =>
                           file'[x.n].at <= x.data.at
                      /\ x.pc = "fill" => x.at = "tmp" \/ (x.at = "gone" /\ tmp[x.n] = NoFile)
                      /\ x.pc = "rename" => tmp[x.n] \in {NoFile, x.data}
    BY DEF WriteData
  <2>1. /\ x.n \in Names /\ x.data \in State /\ x.data.at <= out[x.data.by]
        /\ file[x.n] # NoFile /\ file[x.n].by = x.data.by => file[x.n].at <= x.data.at
        /\ x.pc = "fill" => x.at = "tmp" \/ (x.at = "gone" /\ tmp[x.n] = NoFile)
        /\ x.pc = "rename" => tmp[x.n] \in {NoFile, x.data}
    BY DEF SaveInv, WriteData
  <2> HIDE DEF x
  <2>2. x.data.by \in Sess /\ x.data.at \in 0 .. MaxOut BY <2>1, StateFields
  <2>3. x.data.at <= out'[x.data.by] BY <1>1, <2>1, <2>2
  <2> QED BY <2>1, <2>3
<1>4. FileData'
  <2> SUFFICES ASSUME NEW n \in Names, file'[n] # NoFile
               PROVE  file'[n] \in State /\ file'[n].at <= out'[file'[n].by]
    BY DEF FileData
  <2>1. file'[n] = file[n] /\ file[n] \in State /\ file[n].at <= out[file[n].by]
    BY DEF SaveInv, FileData
  <2>2. file[n].by \in Sess /\ file[n].at \in 0 .. MaxOut BY <2>1, StateFields
  <2> QED BY <1>1, <2>1, <2>2
<1> QED BY <1>2, <1>3, <1>4 DEF SaveInv

\* removeFile is such a step.
LEMMA RemoveFrame ==
  ASSUME MapInv, SaveInv, NEW n \in Names, removeFile(n)
  PROVE  wr' = wr /\ \A m \in Names : file'[m] = file[m] \/ file'[m] = NoFile
<1>1. wr' = wr BY MovedNothing DEF removeFile
<1>2. file \in [Names -> State \cup {NoFile, Torn}] BY DEF MapInv, TypeOK
<1> QED BY <1>1, <1>2 DEF removeFile

LEMMA SaveHandler ==
  ASSUME "restore" \notin Kinds, MapInv, SaveInv, MapInv', NEW h \in Handler,
         Request(h) \/ HandlerStep(h)
  PROVE  SaveInv'
<1>1. NoRestoring' BY SafeStep DEF SaveInv
<1>2. Safe(req[h]) BY DEF SaveInv, NoRestoring, Safe
<1>3. ~at(h, "commit") /\ ~at(h, "rollback") BY <1>2 DEF Safe, Restores, at
<1>4. out' = out /\ tmp' = tmp /\ pmu' = pmu /\ queue' = queue
  BY <1>3 DEF Request, HandlerStep, Lookup, PrepareNew, PrepareForce, PrepareRestore, Start,
     Insert, InsertExisting, Commit, CommitFail, Join, JoinFail, Abandon, CloseOwn, Rollback, Leave,
     RequestFail, PruneNames, PruneDir, PruneNext, sessVars, fileVars, writeVars
<1>5. wr' = wr /\ \A n \in Names : file'[n] = file[n] \/ file'[n] = NoFile
  <2>1. CASE PrepareForce(h)
    <3>1. req[h].n \in Names BY <2>1, Begun DEF PrepareForce, at
    <3> QED BY <2>1, <3>1, RemoveFrame DEF PrepareForce
  <2>2. CASE PruneNext(h)
    <3>1. req[h].todo \subseteq Names BY DEF MapInv, TypeOK, RequestState
    <3> QED BY <2>2, <3>1, RemoveFrame DEF PruneNext
  <2>3. CASE ~PrepareForce(h) /\ ~PruneNext(h)
    BY <1>3, <2>3 DEF Request, HandlerStep, Lookup, PrepareNew, PrepareRestore, Start,
       Insert, InsertExisting, Commit, CommitFail, Join, JoinFail, Abandon, CloseOwn, Rollback,
       Leave, RequestFail, PruneNames, PruneDir, fileVars, writeVars
  <2> QED BY <2>1, <2>2, <2>3
<1>6. \A s \in Sess : life[s] # "none" => life'[s] # "none"
  <2>1. life \in [Sess -> {"none", "run", "done", "closed"}] BY DEF MapInv, TypeOK
  <2>2. CASE Start(h) BY <2>1, <2>2 DEF Start
  <2>3. CASE CloseOwn(h) BY <2>1, <2>3 DEF CloseOwn, closeSession
  <2>4. CASE ~Start(h) /\ ~CloseOwn(h)
    <3>1. life' = life
      BY <2>4 DEF Request, HandlerStep, Lookup, PrepareNew, PrepareForce, PrepareRestore,
         Insert, InsertExisting, Commit, CommitFail, Join, JoinFail, Abandon, Rollback, Leave,
         RequestFail, PruneNames, PruneDir, PruneNext, sessVars
    <3> QED BY <3>1
  <2> QED BY <2>2, <2>3, <2>4
<1>7. QueueStarted' BY <1>4, <1>6, QueueFrame DEF SaveInv
<1>8. \A s \in Sess : out[s] <= out'[s] BY <1>4, RegistryAssumption DEF MapInv, TypeOK
<1> QED BY <1>1, <1>4, <1>5, <1>7, <1>8, SaveFrame

LEMMA SaveSession ==
  ASSUME MapInv, SaveInv, MapInv', NEW s \in Sess,
         Output(s) \/ Exit(s) \/ WatchDone(s) \/ WatchRemove(s) \/ WatchDrain(s)
  PROVE  SaveInv'
<1>1. req' = req /\ wr' = wr /\ pmu' = pmu /\ tmp' = tmp /\ file' = file
  BY DEF Output, Exit, WatchDone, WatchRemove, WatchDrain, fileVars, writeVars
<1>2. NoRestoring' BY <1>1, SafeFrame DEF SaveInv
<1>3. \A t \in Sess : life[t] # "none" => life'[t] # "none"
  BY DEF Output, Exit, WatchDone, WatchRemove, WatchDrain, MapInv, TypeOK
<1>4. \A t \in Sess : out[t] <= out'[t]
  BY RegistryAssumption DEF Output, Exit, WatchDone, WatchRemove, WatchDrain, MapInv, TypeOK
<1>5. \A w \in {"saver", "stop"} : queue'[w] \subseteq queue[w] \cup Live
  <2>1. queue \in [{"saver", "stop"} -> SUBSET Sess] BY DEF MapInv, TypeOK
  <2>2. queue' = queue \/ queue' = [queue EXCEPT !["stop"] = Live]
    BY DEF Output, Exit, WatchDone, WatchRemove, WatchDrain, writeVars, beginShutdown
  <2> QED BY <2>1, <2>2
<1>6. QueueStarted' BY <1>3, <1>5, QueueFrame DEF SaveInv
<1> QED BY <1>1, <1>2, <1>4, <1>6, SaveFrame

LEMMA SaveServer ==
  ASSUME MapInv, SaveInv, MapInv',
         Tick \/ Signal \/ Cancel \/ LockSessions \/ CloseNext \/ ResetSessions
  PROVE  SaveInv'
<1>1. wr' = wr /\ pmu' = pmu /\ tmp' = tmp /\ file' = file /\ out' = out
  BY DEF Tick, Signal, Cancel, LockSessions, CloseNext, ResetSessions, fileVars, writeVars, sessVars
<1>2. NoRestoring'
  <2>1. CASE CloseNext
    <3>1. PICK s : req' = disconnect(s) BY <2>1 DEF CloseNext
    <3>2. TypeReq BY DEF MapInv, TypeOK, TypeReq
    <3>3. \A g \in Handler : req'[g] = req[g] \/ req'[g] = NoReq BY <3>1, <3>2, Disconnected
    <3> QED BY <3>3, SafeFrame DEF SaveInv
  <2>2. CASE ~CloseNext
    <3>1. req' = req BY <2>2 DEF Tick, Signal, Cancel, LockSessions, ResetSessions
    <3> QED BY <3>1, SafeFrame DEF SaveInv
  <2> QED BY <2>1, <2>2
<1>3. \A t \in Sess : life[t] # "none" => life'[t] # "none"
  <2>1. life \in [Sess -> {"none", "run", "done", "closed"}] BY DEF MapInv, TypeOK
  <2>2. CASE CloseNext BY <2>1, <2>2 DEF CloseNext, closeSession
  <2>3. CASE ~CloseNext
    BY <2>3 DEF Tick, Signal, Cancel, LockSessions, ResetSessions, sessVars
  <2> QED BY <2>2, <2>3
<1>4. \A t \in Sess : out[t] <= out'[t] BY <1>1, RegistryAssumption DEF MapInv, TypeOK
<1>5. \A w \in {"saver", "stop"} : queue'[w] \subseteq queue[w] \cup Live
  <2>1. queue \in [{"saver", "stop"} -> SUBSET Sess] BY DEF MapInv, TypeOK
  <2>2. PICK v \in {"saver", "stop"} : queue' = queue \/ queue' = [queue EXCEPT ![v] = Live]
    BY DEF Tick, Signal, Cancel, LockSessions, CloseNext, ResetSessions, writeVars, beginShutdown
  <2> QED BY <2>1, <2>2
<1>6. QueueStarted' BY <1>3, <1>5, QueueFrame DEF SaveInv
<1> QED BY <1>1, <1>2, <1>4, <1>6, SaveFrame

\* A step of the one writer.
LEMMA WriterFrame ==
  ASSUME SaveInv, NoRestoring', QueueStarted', FileData', NEW w \in Writer, WriteData(w)',
         \A v \in Writer : v # w => wr'[v].pc = "idle",
         wr'[w].pc # "idle" => pmu' = w
  PROVE  SaveInv'
<1>1. OneWrite' BY DEF OneWrite
<1>2. \A v \in Writer : WriteData(v)' BY DEF WriteData
<1> QED BY <1>1, <1>2 DEF SaveInv

LEMMA OnlyWriter ==
  ASSUME SaveInv, NEW w \in Writer, wr[w].pc # "idle"
  PROVE  pmu = w /\ \A v \in Writer : v # w => wr[v].pc = "idle"
  BY DEF SaveInv, OneWrite

\* The snapshot is taken under p.mu: it is as new as its session.
LEMMA SaveBegins ==
  ASSUME MapInv, SaveInv, NEW w \in Writer, NEW s \in Sess, life[s] # "none", BeginSave(w, s),
         NoRestoring', QueueStarted', out' = out, file' = file, tmp' = tmp
  PROVE  SaveInv'
<1> DEFINE d == [pc |-> "open", n |-> sname[s], data |-> snapshot(s), at |-> "gone"]
<1>1. sname[s] \in Names /\ out[s] \in 0 .. MaxOut /\ wr \in [Writer -> Write] /\ TypeSess
  BY DEF MapInv, MapOrder, TypeOK, TypeSess
<1>2. wr' = [wr EXCEPT ![w] = d] /\ pmu' = w /\ pmu = Nil BY DEF BeginSave
<1>3. \A v \in Writer : wr[v].pc = "idle" BY <1>2, Writers DEF SaveInv, OneWrite
<1>4. d.pc = "open" /\ d.n = sname[s] /\ d.data = snapshot(s) OBVIOUS
<1>5. snapshot(s) \in State /\ snapshot(s).by = s /\ snapshot(s).at = out[s]
  BY <1>1, SnapshotType DEF snapshot
<1> HIDE DEF d
<1>6. wr'[w] = d /\ \A v \in Writer : v # w => wr'[v] = wr[v] BY <1>1, <1>2
<1>7. FileData' BY DEF SaveInv, FileData
<1>8. WriteData(w)'
  <2>1. file[sname[s]] # NoFile /\ file[sname[s]].by = s => file[sname[s]].at <= out[s]
    BY <1>1 DEF SaveInv, FileData
  <2>2. out[s] <= out[s] BY <1>1, RegistryAssumption
  <2> QED BY <1>1, <1>4, <1>5, <1>6, <2>1, <2>2 DEF WriteData
<1> QED BY <1>2, <1>3, <1>6, <1>7, <1>8, WriterFrame

LEMMA SaveStarts ==
  ASSUME MapInv, SaveInv, MapInv',
         (\E w \in {"saver", "stop"} : SaveNext(w)) \/ \E s \in Sess : WatchSave(s)
  PROVE  SaveInv'
<1>1. req' = req /\ out' = out /\ file' = file /\ tmp' = tmp /\ life' = life
  BY DEF SaveNext, WatchSave, sessVars, fileVars
<1>2. NoRestoring' BY <1>1, SafeFrame DEF SaveInv
<1>3. \A v \in {"saver", "stop"} : queue'[v] \subseteq queue[v] \cup Live
  <2>1. queue \in [{"saver", "stop"} -> SUBSET Sess] BY DEF MapInv, TypeOK
  <2>2. CASE \E w \in {"saver", "stop"} : SaveNext(w) BY <2>1, <2>2 DEF SaveNext
  <2>3. CASE \E s \in Sess : WatchSave(s) BY <2>3 DEF WatchSave
  <2> QED BY <2>2, <2>3
<1>4. QueueStarted' BY <1>1, <1>3, QueueFrame DEF SaveInv
<1>5. \A t \in Sess : out[t] <= out'[t] BY <1>1, RegistryAssumption DEF MapInv, TypeOK
<1>6. ASSUME UNCHANGED <<wr, pmu>> PROVE SaveInv'
  BY <1>1, <1>2, <1>4, <1>5, <1>6, SaveFrame
<1>7. ASSUME NEW w \in {"saver", "stop"}, SaveNext(w) PROVE SaveInv'
  <2>1. PICK s \in queue[w] : UNCHANGED <<wr, pmu>> \/ BeginSave(w, s) BY <1>7 DEF SaveNext
  <2>2. s \in Sess /\ life[s] # "none" BY DEF MapInv, TypeOK, SaveInv, QueueStarted
  <2> QED BY <1>1, <1>2, <1>4, <1>6, <2>1, <2>2, SaveBegins, Writers
<1>8. ASSUME NEW s \in Sess, WatchSave(s) PROVE SaveInv'
  <2>1. UNCHANGED <<wr, pmu>> \/ BeginSave(s, s) BY <1>8 DEF WatchSave
  <2>2. life[s] # "none" BY <1>8 DEF WatchSave, MapInv, MapOrder
  <2> QED BY <1>1, <1>2, <1>4, <1>6, <2>1, <2>2, SaveBegins, Writers
<1> QED BY <1>7, <1>8

LEMMA SaveEnds ==
  ASSUME MapInv, SaveInv, NEW w \in Writer, wr[w].pc # "idle", written(w), FileData',
         wr'[w] = Idle, \A v \in Writer : v # w => wr'[v].pc = wr[v].pc
  PROVE  SaveInv'
<1>1. \A v \in Writer : v # w => wr'[v].pc = "idle" BY OnlyWriter
<1>2. wr'[w].pc = "idle" BY DEF Idle
<1>3. \A g \in Handler : req'[g] = req[g] \/ req'[g] = NoReq BY DEF written
<1>4. NoRestoring' BY <1>3, SafeFrame DEF SaveInv
<1>5. QueueStarted' BY DEF SaveInv, QueueStarted, written
<1>6. WriteData(w)' BY <1>2 DEF WriteData
<1> QED BY <1>1, <1>2, <1>4, <1>5, <1>6, WriterFrame

LEMMA SaveWrites ==
  ASSUME MapInv, SaveInv, NEW w \in Writer, WriteStep(w)
  PROVE  SaveInv'
<1> DEFINE n == wr[w].n
           d == wr[w].data
<1>1. wr \in [Writer -> Write] /\ file \in [Names -> State \cup {NoFile, Torn}]
      /\ tmp \in [Names -> State \cup {NoFile, Torn}] /\ wr[w] \in Write
  BY DEF MapInv, TypeOK
<1>2. wr[w].pc # "idle"
  BY DEF WriteStep, WriteOpen, WriteFill, WriteRename, WriteFail
<1>3. /\ n \in Names /\ d \in State /\ d.at <= out[d.by]
      /\ file[n] # NoFile /\ file[n].by = d.by => file[n].at <= d.at
      /\ wr[w].pc = "fill" => wr[w].at = "tmp" \/ (wr[w].at = "gone" /\ tmp[n] = NoFile)
      /\ wr[w].pc = "rename" => tmp[n] \in {NoFile, d}
  BY <1>2 DEF SaveInv, WriteData
<1>4. pmu = w /\ \A v \in Writer : v # w => wr[v].pc = "idle" BY <1>2, OnlyWriter
<1>5. ASSUME UNCHANGED <<sessVars, queue, req>>
      PROVE  NoRestoring' /\ QueueStarted' /\ out' = out /\ life' = life
  BY <1>5, SafeFrame DEF SaveInv, sessVars, QueueStarted
<1>6. ASSUME file' = file, out' = out PROVE FileData'
  BY <1>6 DEF SaveInv, FileData
<1>7. CASE WriteOpen(w)
  <2>1. UNCHANGED <<sessVars, file, pmu, queue, req>> /\ tmp' = [tmp EXCEPT ![n] = Torn]
        /\ wr' = [wr EXCEPT ![w].pc = "fill", ![w].at = "tmp"]
    BY <1>7 DEF WriteOpen
  <2> DEFINE x == [wr[w] EXCEPT !.pc = "fill", !.at = "tmp"]
  <2>2. x.pc = "fill" /\ x.at = "tmp" /\ x.n = n /\ x.data = d BY <1>1 DEF Write
  <2>3. wr' = [wr EXCEPT ![w] = x] BY <1>1, <2>1
  <2> HIDE DEF x, n, d
  <2>4. wr'[w] = x /\ \A v \in Writer : v # w => wr'[v] = wr[v] BY <1>1, <2>3
  <2>5. WriteData(w)' BY <1>3, <1>5, <2>1, <2>2, <2>4 DEF WriteData
  <2> QED BY <1>4, <1>5, <1>6, <2>1, <2>4, <2>5, WriterFrame
<1>8. CASE WriteFill(w)
  <2>1. UNCHANGED <<sessVars, pmu, queue, req>> /\ wr[w].pc = "fill"
        /\ tmp' = (IF wr[w].at = "tmp" THEN [tmp EXCEPT ![n] = d] ELSE tmp)
        /\ file' = file
        /\ wr' = [wr EXCEPT ![w].pc = "rename"]
    BY <1>3, <1>8 DEF WriteFill, fillWith
  <2> DEFINE x == [wr[w] EXCEPT !.pc = "rename"]
  <2>2. x.pc = "rename" /\ x.n = n /\ x.data = d BY <1>1 DEF Write
  <2>3. wr' = [wr EXCEPT ![w] = x] BY <1>1, <2>1
  <2> HIDE DEF x, n, d
  <2>4. wr'[w] = x /\ \A v \in Writer : v # w => wr'[v] = wr[v] BY <1>1, <2>3
  <2>5. tmp'[n] \in {NoFile, d} BY <1>1, <1>3, <2>1
  <2>6. WriteData(w)' BY <1>3, <1>5, <2>1, <2>2, <2>4, <2>5 DEF WriteData
  <2> QED BY <1>4, <1>5, <1>6, <2>1, <2>4, <2>6, WriterFrame
<1>9. CASE WriteRename(w)
  <2>1. wr[w].pc = "rename" /\ written(w) /\ out' = out BY <1>9 DEF WriteRename, written
  <2>2. CASE wr' = [wr EXCEPT ![w] = Idle] /\ UNCHANGED fileVars
    <3>1. wr'[w] = Idle /\ \A v \in Writer : v # w => wr'[v] = wr[v] BY <1>1, <2>2
    <3> QED BY <1>2, <1>6, <2>1, <2>2, <3>1, SaveEnds DEF fileVars
  <2>3. CASE /\ tmp[n] # NoFile
             /\ file' = [file EXCEPT ![n] = tmp[n]]
             /\ wr' = [v \in Writer |->
                         IF v = w THEN Idle
                         ELSE IF wr[v].n # n \/ wr[v].pc # "fill" THEN wr[v]
                         ELSE [wr[v] EXCEPT !.at = IF @ = "tmp" THEN "file" ELSE "gone"]]
    <3>1. tmp[n] = d BY <1>3, <2>1, <2>3
    <3>2. wr'[w] = Idle /\ \A v \in Writer : v # w => wr'[v] = wr[v] BY <1>4, <2>3
    <3> HIDE DEF n, d
    <3>3. FileData' BY <1>1, <1>3, <2>1, <2>3, <3>1 DEF SaveInv, FileData
    <3> QED BY <1>2, <2>1, <3>2, <3>3, SaveEnds
  <2> QED BY <1>9, <2>2, <2>3 DEF WriteRename
<1>10. CASE WriteFail(w)
  <2>1. written(w) /\ out' = out BY <1>10 DEF WriteFail, written
  <2>2. file' = file BY <1>3, <1>10 DEF WriteFail, fillWith, fileVars
  <2>3. \A v \in Writer : moved("tmp", "gone", n)[v].pc = wr[v].pc
        /\ moved("tmp", "gone", n) \in [Writer -> Write]
    <3>1. TypeWrite BY DEF MapInv, TypeOK, TypeWrite
    <3> QED BY <3>1, MovedType
  <2>4. wr'[w] = Idle /\ \A v \in Writer : v # w => wr'[v].pc = wr[v].pc
    BY <1>1, <1>10, <2>3 DEF WriteFail
  <2> QED BY <1>2, <1>6, <2>1, <2>2, <2>4, SaveEnds
<1> QED BY <1>7, <1>8, <1>9, <1>10 DEF WriteStep

\* The other daemon takes the temporary files away, and the one that is being
\* written with them: its rename finds nothing.
LEMMA SaveCleaned ==
  ASSUME MapInv, SaveInv, cleanStaleTmp,
         UNCHANGED <<sessVars, file, pmu, queue, req>>
  PROVE  SaveInv'
<1>1. wr \in [Writer -> Write] BY DEF MapInv, TypeOK
<1>2. life' = life /\ out' = out BY DEF sessVars
<1>3. NoRestoring' /\ QueueStarted' /\ FileData'
  BY <1>2, SafeFrame DEF SaveInv, QueueStarted, FileData
<1>4. \A w \in Writer :
        /\ wr'[w].pc = wr[w].pc /\ wr'[w].n = wr[w].n /\ wr'[w].data = wr[w].data
        /\ wr'[w].at = (IF wr[w].at = "tmp" THEN "gone" ELSE wr[w].at)
  BY <1>1 DEF cleanStaleTmp, Write
<1>5. OneWrite' BY <1>4 DEF SaveInv, OneWrite
<1>6. \A n \in Names : tmp'[n] = NoFile BY DEF cleanStaleTmp
<1>7. ASSUME NEW w \in Writer PROVE WriteData(w)'
  <2>1. WriteData(w) BY DEF SaveInv
  <2> QED BY <1>2, <1>4, <1>6, <2>1 DEF WriteData
<1> QED BY <1>3, <1>5, <1>7 DEF SaveInv

LEMMA SaveGone ==
  ASSUME MapInv, SaveInv, processGone
  PROVE  SaveInv'
<1>1. /\ out' = out /\ file' = file
      /\ wr' = [w \in Writer |-> Idle]
      /\ queue' = [w \in {"saver", "stop"} |-> {}]
      /\ req' = [h \in Handler |-> NoReq]
  BY DEF processGone, fileVars
<1>2. NoRestoring' BY <1>1, SafeFrame DEF SaveInv
<1>3. QueueStarted' /\ OneWrite' BY <1>1 DEF QueueStarted, OneWrite, Idle
<1>4. \A w \in Writer : WriteData(w)' BY <1>1 DEF WriteData, Idle
<1>5. FileData' BY <1>1 DEF SaveInv, FileData
<1> QED BY <1>2, <1>3, <1>4, <1>5 DEF SaveInv

LEMMA SaveInit == Init => SaveInv
<1> SUFFICES ASSUME Init PROVE SaveInv
  OBVIOUS
<1>1. NoRestoring BY SafeNoReq DEF Init, NoRestoring, Safe
<1>2. OneWrite /\ QueueStarted /\ \A w \in Writer : WriteData(w)
  BY DEF Init, OneWrite, QueueStarted, WriteData, Idle
<1>3. FileData BY DEF Init, FileData
<1> QED BY <1>1, <1>2, <1>3 DEF SaveInv

LEMMA SaveNextState ==
  ASSUME "restore" \notin Kinds
  PROVE  MapInv /\ SaveInv /\ [Next]_vars => SaveInv'
<1> SUFFICES ASSUME MapInv, SaveInv, [Next]_vars PROVE SaveInv'
  OBVIOUS
<1>0. MapInv' BY MapNext
<1>1. CASE UNCHANGED vars
  <2>1. /\ req' = req /\ wr' = wr /\ pmu' = pmu /\ tmp' = tmp /\ file' = file /\ out' = out
        /\ queue' = queue /\ life' = life
    BY <1>1 DEF vars, sessVars, fileVars, writeVars
  <2>2. NoRestoring' /\ QueueStarted' BY <2>1, SafeFrame DEF SaveInv, QueueStarted
  <2>3. \A t \in Sess : out[t] <= out'[t] BY <2>1, RegistryAssumption DEF MapInv, TypeOK
  <2> QED BY <1>0, <2>1, <2>2, <2>3, SaveFrame
<1>2. ASSUME NEW h \in Handler, Request(h) \/ HandlerStep(h) PROVE SaveInv'
  BY <1>0, <1>2, SaveHandler
<1>3. ASSUME NEW s \in Sess, Output(s) \/ Exit(s) \/ WatcherStep(s) PROVE SaveInv'
  BY <1>0, <1>3, SaveSession, SaveStarts DEF WatcherStep
<1>4. ASSUME NEW w \in Writer, WriteStep(w) PROVE SaveInv'
  BY <1>4, SaveWrites
<1>5. CASE (\E w \in {"saver", "stop"} : SaveNext(w)) \/ Tick \/ Signal \/ Cancel \/ LockSessions
           \/ CloseNext \/ ResetSessions
  BY <1>0, <1>5, SaveStarts, SaveServer
<1>6. CASE ProcessExit \/ Crash
  BY <1>6, SaveGone DEF ProcessExit, Crash
<1>7. CASE Restart \/ OtherDaemon
  BY <1>7, SaveCleaned DEF Restart, OtherDaemon
<1> QED
  BY <1>1, <1>2, <1>3, <1>4, <1>5, <1>6, <1>7 DEF Next, ShutdownStep

LEMMA SaveInvariant ==
  ASSUME "restore" \notin Kinds
  PROVE  Spec => [](MapInv /\ SaveInv)
<1>1. Init => MapInv /\ SaveInv BY MapInit, SaveInit
<1>2. (MapInv /\ SaveInv) /\ [Next]_vars => (MapInv /\ SaveInv)' BY MapNext, SaveNextState
<1> QED BY <1>1, <1>2, PTL DEF Spec

\* Where no session is restored, a state file is never seen half written: with
\* any number of handlers and sessions, a periodic saver, the watchers and
\* shutdown that save, and a second daemon that cleans the directory under
\* them.  (A rollback writes outside p.mu: that is why restores are excluded.)
THEOREM RegistryWholeFile ==
  ASSUME "restore" \notin Kinds
  PROVE  Spec => []WholeFile
<1>1. SaveInv => WholeFile
  <2> SUFFICES ASSUME SaveInv, NEW n \in Names, file[n] = Torn PROVE FALSE
    BY DEF WholeFile
  <2>1. Torn # NoFile /\ Torn \notin State BY RegistryAssumption, FileAssumption
  <2> QED BY <2>1 DEF SaveInv, FileData
<1> QED BY <1>1, SaveInvariant, PTL

\* A rename is the only step that puts one saved state in the place of another.
LEMMA FileStep ==
  ASSUME "restore" \notin Kinds, MapInv, SaveInv, [Next]_vars, NEW n \in Names
  PROVE  \/ file'[n] = file[n] \/ file'[n] = NoFile
         \/ \E w \in Writer : /\ wr[w].pc = "rename" /\ wr[w].n = n
                              /\ file'[n] = wr[w].data
<1>1. CASE UNCHANGED vars BY <1>1 DEF vars, fileVars
<1>2. ASSUME NEW h \in Handler, Request(h) \/ HandlerStep(h)
      PROVE  file'[n] = file[n] \/ file'[n] = NoFile
  <2>1. Safe(req[h]) BY DEF SaveInv, NoRestoring, Safe
  <2>2. ~at(h, "commit") BY <2>1 DEF Safe, Restores, at
  <2>3. CASE PrepareForce(h)
    <3>1. req[h].n \in Names BY <2>3, Begun DEF PrepareForce, at
    <3> QED BY <2>3, <3>1, RemoveFrame DEF PrepareForce
  <2>4. CASE PruneNext(h)
    <3>1. req[h].todo \subseteq Names BY DEF MapInv, TypeOK, RequestState
    <3> QED BY <2>4, <3>1, RemoveFrame DEF PruneNext
  <2>5. CASE ~PrepareForce(h) /\ ~PruneNext(h)
    BY <1>2, <2>2, <2>5 DEF Request, HandlerStep, Lookup, PrepareNew, PrepareRestore, Start,
       Insert, InsertExisting, Commit, CommitFail, Join, JoinFail, Abandon, CloseOwn, Rollback,
       Leave, RequestFail, PruneNames, PruneDir, fileVars
  <2> QED BY <2>3, <2>4, <2>5
<1>3. ASSUME NEW w \in Writer, WriteStep(w), file'[n] # file[n]
      PROVE  wr[w].pc = "rename" /\ wr[w].n = n /\ file'[n] = wr[w].data
  <2>1. WriteData(w) /\ file \in [Names -> State \cup {NoFile, Torn}]
    BY DEF SaveInv, MapInv, TypeOK
  <2>2. CASE WriteOpen(w) BY <1>3, <2>2 DEF WriteOpen
  <2>3. CASE WriteFill(w) \/ WriteFail(w)
    BY <1>3, <2>1, <2>3 DEF WriteFill, WriteFail, fillWith, WriteData, fileVars
  <2>4. CASE WriteRename(w) BY <1>3, <2>1, <2>4 DEF WriteRename, WriteData, fileVars
  <2> QED BY <1>3, <2>2, <2>3, <2>4 DEF WriteStep
<1>4. ASSUME NEW s \in Sess, Output(s) \/ Exit(s) \/ WatcherStep(s) PROVE file' = file
  BY <1>4 DEF Output, Exit, WatcherStep, WatchDone, WatchSave, WatchRemove, WatchDrain, fileVars
<1>5. CASE (\E w \in {"saver", "stop"} : SaveNext(w)) \/ Tick \/ Signal \/ ShutdownStep
           \/ Crash \/ Restart \/ OtherDaemon
  BY <1>5 DEF SaveNext, Tick, Signal, ShutdownStep, Cancel, LockSessions, CloseNext, ResetSessions,
     ProcessExit, Crash, processGone, Restart, OtherDaemon, fileVars
<1> QED BY <1>1, <1>2, <1>3, <1>4, <1>5 DEF Next

\* Where no session is restored, no save takes a state file back to an older
\* screen of the same session, whoever saves and however long a writer is held
\* up between its snapshot and its rename.
THEOREM RegistryNoStaleSave ==
  ASSUME "restore" \notin Kinds
  PROVE  Spec => NoStaleSave
<1> DEFINE Fresh == \A n \in Names :
                      /\ file[n] \notin {NoFile, Torn} /\ file'[n] \notin {NoFile, Torn}
                      /\ file[n].by = file'[n].by
                      => file[n].at <= file'[n].at
<1>1. ASSUME MapInv, SaveInv, [Next]_vars PROVE Fresh
  <2> SUFFICES ASSUME NEW n \in Names, file[n] \notin {NoFile, Torn},
                      file'[n] \notin {NoFile, Torn}, file[n].by = file'[n].by
               PROVE  file[n].at <= file'[n].at
    OBVIOUS
  <2>1. CASE file'[n] = file[n]
    <3>1. file[n] \in State BY <1>1 DEF MapInv, TypeOK
    <3>2. file[n].at \in 0 .. MaxOut BY <3>1, StateFields
    <3> QED BY <2>1, <3>2
  <2>2. CASE \E w \in Writer : wr[w].pc = "rename" /\ wr[w].n = n /\ file'[n] = wr[w].data
    BY <1>1, <2>2 DEF SaveInv, WriteData
  <2> QED BY <1>1, <2>1, <2>2, FileStep
<1>2. Spec => [][Fresh]_vars
  <2>1. (MapInv /\ SaveInv) /\ [Next]_vars => [Fresh]_vars BY <1>1
  <2> HIDE DEF Fresh
  <2> QED BY <2>1, SaveInvariant, PTL DEF Spec
<1> QED BY <1>2 DEF NoStaleSave

-----------------------------------------------------------------------------
\* The final save of a session

\* A write that keeps its place, its name and its data.
SameWrite(w) == wr'[w].pc = wr[w].pc /\ wr'[w].n = wr[w].n /\ wr'[w].data = wr[w].data

LEMMA MovedSame ==
  ASSUME MapInv, NEW p, NEW q \in {"tmp", "file", "gone"}, NEW n, NEW w \in Writer
  PROVE  LET x == moved(p, q, n)[w] IN x.pc = wr[w].pc /\ x.n = wr[w].n /\ x.data = wr[w].data
<1>1. wr[w] \in Write BY DEF MapInv, TypeOK
<1> QED BY <1>1 DEF moved, Write

LEMMA RemoveSame ==
  ASSUME MapInv, NEW n, removeFile(n)
  PROVE  \A s \in Sess : SameWrite(s)
<1> SUFFICES ASSUME NEW s \in Sess PROVE SameWrite(s)
  OBVIOUS
<1>1. wr'[s] = moved("file", "gone", n)[s] /\ s \in Writer BY Writers DEF removeFile
<1> QED BY <1>1, MovedSame DEF SameWrite

\* A step that leaves the sessions, the map and the watchers alone.
LEMMA LastFrame ==
  ASSUME MapInv, LastInv, life' = life, sname' = sname, out' = out, watch' = watch,
         sessions' = sessions, cancelled => cancelled',
         \A g \in Handler : req'[g].pc = "insert" => req'[g] = req[g],
         \A s \in Sess : SameWrite(s)
  PROVE  LastInv'
<1>1. \A g \in Handler : InsertFresh(g)' BY DEF LastInv, InsertFresh
<1>2. ClosedLate' BY DEF LastInv, ClosedLate
<1>3. FinalSave' BY DEF LastInv, FinalSave, snapshot, SameWrite
<1> QED BY <1>1, <1>2, <1>3 DEF LastInv

\* Start is the only step after which a handler is about to insert.
LEMMA NotInserting ==
  ASSUME MapInv, NEW h \in Handler,
         \/ Request(h) \/ Lookup(h) \/ PrepareNew(h) \/ PrepareForce(h) \/ PrepareRestore(h)
         \/ Insert(h) \/ InsertExisting(h) \/ Commit(h) \/ CommitFail(h) \/ Join(h) \/ JoinFail(h)
         \/ Abandon(h) \/ Rollback(h) \/ Leave(h) \/ RequestFail(h)
         \/ PruneNames(h) \/ PruneDir(h) \/ PruneNext(h)
  PROVE  req'[h].pc # "insert" /\ \A g \in Handler : g # h => req'[g] = req[g]
<1>1. req \in [Handler -> RequestState] /\ req[h] \in RequestState BY DEF MapInv, TypeOK
<1>2. NoReq.pc = "idle" BY DEF NoReq
<1>3. ASSUME NEW l \in Places, l # "insert", goto(h, l)
      PROVE  req'[h].pc # "insert" /\ \A g \in Handler : g # h => req'[g] = req[g]
  BY <1>1, <1>3 DEF goto, RequestState
<1>4. CASE finish(h) BY <1>1, <1>2, <1>4 DEF finish
<1>5. CASE Request(h)
  <2>1. PICK k \in Kinds, n \in Names :
          req' = [req EXCEPT ![h] = [NoReq EXCEPT !.pc = IF k = "prune" THEN "names" ELSE "lookup",
                                                 !.kind = k, !.n = n]]
    BY <1>5 DEF Request
  <2> QED BY <1>1, <2>1 DEF NoReq
<1>6. CASE Lookup(h) /\ ~finish(h)
  BY <1>1, <1>3, <1>6 DEF Lookup, RequestState, Places
<1>7. CASE (PrepareNew(h) \/ PrepareForce(h) \/ Commit(h) \/ CommitFail(h) \/ Join(h) \/ Abandon(h)
            \/ Rollback(h)) /\ ~finish(h)
  BY <1>3, <1>7 DEF PrepareNew, PrepareForce, Commit, CommitFail, Join, Abandon, Rollback, Places
<1>8. CASE (PrepareRestore(h) \/ InsertExisting(h) \/ JoinFail(h)) /\ ~finish(h)
  BY <1>1, <1>8 DEF PrepareRestore, InsertExisting, JoinFail, RequestState
<1>9. CASE Insert(h) /\ ~finish(h)
  BY <1>1, <1>9 DEF Insert, RequestState
<1>10. CASE (PruneNames(h) \/ PruneDir(h) \/ PruneNext(h)) /\ ~finish(h)
  BY <1>1, <1>10 DEF PruneNames, PruneDir, PruneNext, at, RequestState
<1> QED
  BY <1>4, <1>5, <1>6, <1>7, <1>8, <1>9, <1>10 DEF Leave, RequestFail

LEMMA LastQuiet ==
  ASSUME MapInv, LastInv, NEW h \in Handler,
         \/ Request(h) \/ Lookup(h) \/ PrepareNew(h) \/ PrepareForce(h) \/ PrepareRestore(h)
         \/ InsertExisting(h) \/ Commit(h) \/ CommitFail(h) \/ JoinFail(h)
         \/ Rollback(h) \/ Leave(h) \/ RequestFail(h) \/ PruneNames(h) \/ PruneDir(h)
         \/ PruneNext(h)
  PROVE  LastInv'
<1>1. /\ life' = life /\ sname' = sname /\ out' = out /\ watch' = watch /\ sessions' = sessions
      /\ stop' = stop
  BY DEF Request, Lookup, PrepareNew, PrepareForce, PrepareRestore, InsertExisting, Commit,
     CommitFail, JoinFail, Rollback, Leave, RequestFail, PruneNames, PruneDir, PruneNext, sessVars
<1>2. \A g \in Handler : req'[g].pc = "insert" => req'[g] = req[g] BY NotInserting
<1>3. \A s \in Sess : SameWrite(s)
  <2>1. CASE \E n \in Names : removeFile(n) BY <2>1, RemoveSame
  <2>2. CASE wr' = wr BY <2>2 DEF SameWrite
  <2>3. CASE Rollback(h)
    <3>1. \A s \in Sess : s \in Writer /\ s # h BY Writers
    <3>2. wr \in [Writer -> Write] BY DEF MapInv, TypeOK
    <3>3. \A s \in Sess : wr'[s] = wr[s] BY <2>3, <3>1, <3>2 DEF Rollback
    <3> QED BY <3>3 DEF SameWrite
  <2>4. CASE PrepareForce(h) \/ Commit(h)
    <3>1. req[h].n \in Names BY <2>4, Begun DEF PrepareForce, Commit, at
    <3> QED BY <2>1, <2>4, <3>1 DEF PrepareForce, Commit
  <2>5. CASE PruneNext(h)
    <3>1. req[h].todo \subseteq Names BY DEF MapInv, TypeOK, RequestState
    <3> QED BY <2>1, <2>5, <3>1 DEF PruneNext
  <2> QED
    BY <2>2, <2>3, <2>4, <2>5 DEF Request, Lookup, PrepareNew, PrepareRestore, InsertExisting,
       CommitFail, JoinFail, Leave, RequestFail, PruneNames, PruneDir, writeVars
<1> QED BY <1>1, <1>2, <1>3, LastFrame DEF cancelled

LEMMA LastStart ==
  ASSUME MapInv, LastInv, NEW h \in Handler, Start(h)
  PROVE  LastInv'
<1>1. req[h].pc = "start" BY DEF Start, at
<1>2. PICK s \in Sess :
        /\ life[s] = "none"
        /\ life' = [life EXCEPT ![s] = "run"]
        /\ sname' = [sname EXCEPT ![s] = req[h].n]
        /\ req' = [req EXCEPT ![h].pc = "insert", ![h].mine = s]
  BY DEF Start
<1>3. out' = out /\ watch' = watch /\ sessions' = sessions /\ stop' = stop /\ wr' = wr
  BY DEF Start, writeVars
<1>4. TypeReq /\ req[h].n \in Names /\ s # Nil BY <1>1, Begun, RegistryAssumption
<1>5. Others(h) /\ Now(h, "insert", s, req[h].target) BY <1>2, <1>4, Owning DEF Places
<1>6. /\ life \in [Sess -> {"none", "run", "done", "closed"}]
      /\ sname \in [Sess -> Names \cup {Nil}]
  BY DEF MapInv, TypeOK
<1>7. watch[s] = "no" /\ \A n \in Names : sessions[n] # s BY <1>2, <1>4 DEF MapInv, MapOrder
<1>8. ASSUME NEW g \in Handler PROVE InsertFresh(g)'
  <2>1. CASE g = h BY <1>2, <1>3, <1>4, <1>5, <1>6, <1>7, <2>1 DEF InsertFresh, Now
  <2>2. CASE g # h
    <3>1. req'[g] = req[g] /\ InsertFresh(g) BY <1>5, <2>2 DEF Others, LastInv
    <3>2. req[g].pc = "insert" => req[g].mine \in Sess /\ life[req[g].mine] # "none"
      BY Begun DEF MapInv, OwnOrder
    <3> QED BY <1>2, <1>3, <1>6, <3>1, <3>2 DEF InsertFresh
  <2> QED BY <2>1, <2>2
<1>9. ClosedLate' BY <1>2, <1>3, <1>6 DEF LastInv, ClosedLate, cancelled
<1>10. FinalSave' BY <1>2, <1>3, <1>6, <1>7 DEF LastInv, FinalSave, snapshot
<1> QED BY <1>8, <1>9, <1>10 DEF LastInv

\* Insert, Join and Abandon: the map changes, or a watcher starts on a session
\* that has not been closed.
LEMMA LastMap ==
  ASSUME MapInv, LastInv, NEW h \in Handler, Insert(h) \/ Join(h) \/ Abandon(h)
  PROVE  LastInv'
<1>1. life' = life /\ sname' = sname /\ out' = out /\ stop' = stop /\ wr' = wr
  BY DEF Insert, Join, Abandon, writeVars, sessVars
<1>2. req'[h].pc # "insert" /\ \A g \in Handler : g # h => req'[g] = req[g] BY NotInserting
<1>3. /\ watch \in [Sess -> {"no", "wait", "save", "writing", "remove", "drain", "end"}]
      /\ sessions \in [Names -> Sess \cup {Nil}]
  BY DEF MapInv, TypeOK
<1>4. /\ req[h].pc # "idle" /\ req[h].n \in Names
      /\ req[h].mine \in Sess \cup {Nil} /\ req[h].target \in Sess \cup {Nil}
  BY Begun DEF Insert, Join, Abandon, at
<1>5. ASSUME NEW g \in Handler, g # h, req[g].pc = "insert"
      PROVE  sessions'[req[g].n] # req[g].mine
  <2>1. req[g].mine # Nil /\ req[g].mine # req[h].mine /\ req[g].n \in Names
    BY <1>5 DEF MapInv, OwnOrder, OwnOnce
  <2>2. sessions[req[g].n] # req[g].mine BY <1>5 DEF LastInv, InsertFresh
  <2>3. \/ sessions' = sessions \/ sessions' = [sessions EXCEPT ![req[h].n] = Nil]
        \/ sessions' = [sessions EXCEPT ![req[h].n] = req[h].mine]
    BY DEF Insert, Join, Abandon
  <2> QED BY <1>3, <1>4, <2>1, <2>2, <2>3
<1>6. ASSUME NEW g \in Handler PROVE InsertFresh(g)'
  BY <1>1, <1>2, <1>5 DEF InsertFresh, LastInv
<1>7. \/ watch' = watch
      \/ \E s \in Sess : watch' = [watch EXCEPT ![s] = "wait"] /\ life[s] # "closed"
  <2>1. CASE Insert(h)
    <3>1. req[h].mine \in Sess /\ life[req[h].mine] # "closed"
      BY <1>4, <2>1 DEF Insert, at, LastInv, InsertFresh, MapInv, OwnOrder
    <3> QED BY <2>1, <3>1 DEF Insert
  <2>2. CASE Join(h)
    <3>1. req[h].target \in Sess /\ life[req[h].target] # "closed"
      BY <1>4, <2>2 DEF Join, at, MapInv, OwnOrder
    <3> QED BY <2>2, <3>1 DEF Join
  <2>3. CASE Abandon(h) BY <2>3 DEF Abandon, sessVars
  <2> QED BY <2>1, <2>2, <2>3
<1>8. ClosedLate' BY <1>1, <1>3, <1>7 DEF LastInv, ClosedLate, cancelled
<1>9. FinalSave' BY <1>1, <1>3, <1>7 DEF LastInv, FinalSave, snapshot
<1> QED BY <1>6, <1>8, <1>9 DEF LastInv

\* A session is closed by its owner, who has not had it watched, or by shutdown,
\* which finds it in the map.
LEMMA LastClose ==
  ASSUME MapInv, LastInv, CloseNext \/ \E h \in Handler : CloseOwn(h)
  PROVE  LastInv'
<1>1. sname' = sname /\ out' = out /\ stop' = stop /\ wr' = wr /\ watch' = watch
      /\ sessions' = sessions
  BY DEF CloseNext, CloseOwn, writeVars
<1>2. PICK s \in Sess :
        /\ life' = [life EXCEPT ![s] = "closed"]
        /\ cancelled \/ watch[s] = "no"
        /\ \A g \in Handler : req'[g].pc = "insert" =>
             req'[g] = req[g] /\ req[g].pc = "insert" /\ req[g].mine # s
  <2>1. TypeReq BY DEF MapInv, TypeOK, TypeReq
  <2>2. CASE CloseNext
    <3>1. PICK s \in Live : life' = [life EXCEPT ![s] = "closed"] /\ req' = disconnect(s)
      BY <2>2 DEF CloseNext, closeSession
    <3>2. s \in Sess /\ cancelled BY <2>2, LiveType DEF CloseNext, cancelled
    <3>3. PICK n \in Names : sessions[n] = s /\ s # Nil BY DEF Live
    <3>4. ASSUME NEW g \in Handler, req'[g].pc = "insert"
          PROVE  req'[g] = req[g] /\ req[g].pc = "insert" /\ req[g].mine # s
      <4>1. req'[g] = req[g] BY <2>1, <3>1, <3>4, Disconnected DEF NoReq
      <4>2. req[g].pc = "insert" BY <3>4, <4>1
      <4>3. sessions[req[g].n] # req[g].mine BY <4>2 DEF LastInv, InsertFresh
      <4>4. sname[s] = n BY <3>3 DEF MapInv, MapOrder
      <4>5. req[g].mine # Nil => sname[req[g].mine] = req[g].n BY DEF MapInv, OwnOrder
      <4> QED BY <3>3, <4>1, <4>2, <4>3, <4>4, <4>5
    <3> QED BY <3>1, <3>2, <3>4
  <2>3. ASSUME NEW h \in Handler, CloseOwn(h)
        PROVE  \E s \in Sess :
                 /\ life' = [life EXCEPT ![s] = "closed"]
                 /\ cancelled \/ watch[s] = "no"
                 /\ \A g \in Handler : req'[g].pc = "insert" =>
                      req'[g] = req[g] /\ req[g].pc = "insert" /\ req[g].mine # s
    <3> DEFINE s == req[h].mine
               r == IF req[h].after = "idle" THEN NoReq
                    ELSE [req[h] EXCEPT !.pc = req[h].after, !.mine = Nil]
    <3>1. req[h].pc = "close" /\ s # Nil /\ watch[s] = "no"
      BY <2>3 DEF CloseOwn, at, MapInv, OwnOrder
    <3>2. s \in Sess /\ req[h] \in RequestState BY <3>1, Begun
    <3>3. r.pc # "insert" BY <3>2 DEF RequestState, NoReq
    <3>4. life' = [life EXCEPT ![s] = "closed"] /\ req' = [disconnect(s) EXCEPT ![h] = r]
      BY <2>3 DEF CloseOwn, closeSession
    <3> HIDE DEF r, s
    <3>5. req'[h].pc # "insert" /\ \A g \in Handler : g # h => req'[g] = disconnect(s)[g]
      BY <2>1, <3>3, <3>4, Disconnected
    <3>6. ASSUME NEW g \in Handler, req'[g].pc = "insert"
          PROVE  req'[g] = req[g] /\ req[g].pc = "insert" /\ req[g].mine # s
      <4>1. g # h /\ req'[g] = req[g] BY <2>1, <3>5, <3>6, Disconnected DEF NoReq
      <4>2. req[g].mine # s BY <3>1, <4>1 DEF s, MapInv, OwnOnce
      <4> QED BY <3>6, <4>1, <4>2
    <3> QED BY <3>1, <3>2, <3>4, <3>6
  <2> QED BY <2>2, <2>3
<1>3. life \in [Sess -> {"none", "run", "done", "closed"}] BY DEF MapInv, TypeOK
<1>4. ASSUME NEW g \in Handler PROVE InsertFresh(g)'
  <2> SUFFICES ASSUME req'[g].pc = "insert"
               PROVE  sessions'[req'[g].n] # req'[g].mine /\ life'[req'[g].mine] # "closed"
    BY DEF InsertFresh
  <2>1. req'[g] = req[g] /\ req[g].pc = "insert" /\ req[g].mine # s BY <1>2
  <2>2. req[g].mine \in Sess BY <2>1, Begun DEF MapInv, OwnOrder
  <2>3. sessions[req[g].n] # req[g].mine /\ life[req[g].mine] # "closed"
    BY <2>1 DEF LastInv, InsertFresh
  <2> QED BY <1>1, <1>2, <1>3, <2>1, <2>2, <2>3
<1>5. ClosedLate' BY <1>1, <1>2, <1>3 DEF LastInv, ClosedLate, cancelled
<1>6. FinalSave' BY <1>1 DEF LastInv, FinalSave, snapshot
<1> QED BY <1>4, <1>5, <1>6 DEF LastInv

LEMMA LastSession ==
  ASSUME MapInv, LastInv, NEW s \in Sess, Output(s) \/ Exit(s) \/ WatcherStep(s)
  PROVE  LastInv'
<1>1. /\ life \in [Sess -> {"none", "run", "done", "closed"}] /\ out \in [Sess -> 0 .. MaxOut]
      /\ watch \in [Sess -> {"no", "wait", "save", "writing", "remove", "drain", "end"}]
      /\ sessions \in [Names -> Sess \cup {Nil}] /\ wr \in [Writer -> Write]
  BY DEF MapInv, TypeOK
<1>2. \A t \in Sess : watch[t] = "writing" => life[t] # "run" BY DEF MapInv, MapOrder, Ending
<1>3. sname' = sname /\ req' = req
  BY DEF Output, Exit, WatcherStep, WatchDone, WatchSave, WatchRemove, WatchDrain
<1>4. cancelled => cancelled'
  BY DEF Output, Exit, WatcherStep, WatchDone, WatchSave, WatchRemove, WatchDrain, beginShutdown,
     cancelled
<1>5. ASSUME NEW g \in Handler PROVE InsertFresh(g)'
  <2>1. InsertFresh(g) BY DEF LastInv
  <2>2. req[g].pc = "insert" => req[g].mine \in Sess /\ req[g].n \in Names
    BY Begun DEF MapInv, OwnOrder
  <2>3. life' = life \/ life' = [life EXCEPT ![s] = "done"]
    BY DEF Output, Exit, WatcherStep, WatchDone, WatchSave, WatchRemove, WatchDrain
  <2>4. \/ sessions' = sessions
        \/ sessions' = [sessions EXCEPT ![sname[s]] = Nil]
    BY DEF Output, Exit, WatcherStep, WatchDone, WatchSave, WatchRemove, WatchDrain
  <2> QED BY <1>1, <1>3, <2>1, <2>2, <2>3, <2>4, RegistryAssumption DEF InsertFresh
<1>6. CASE Output(s) \/ Exit(s)
  <2>1. watch' = watch /\ wr' = wr BY <1>6 DEF Output, Exit, writeVars
  <2>2. ClosedLate' BY <1>1, <1>4, <1>6, <2>1 DEF Output, Exit, LastInv, ClosedLate
  <2>3. FinalSave' BY <1>1, <1>2, <1>3, <1>6, <2>1 DEF Output, Exit, LastInv, FinalSave, snapshot
  <2> QED BY <1>5, <2>2, <2>3 DEF LastInv
<1>7. CASE WatchDone(s) \/ WatchRemove(s) \/ WatchDrain(s)
  <2>1. life' = life /\ out' = out /\ wr' = wr
    BY <1>7 DEF WatchDone, WatchRemove, WatchDrain, writeVars
  <2>2. ClosedLate'
    BY <1>1, <1>4, <1>7, <2>1 DEF WatchDone, WatchRemove, WatchDrain, LastInv, ClosedLate
  <2>3. FinalSave'
    BY <1>1, <1>3, <1>7, <2>1 DEF WatchDone, WatchRemove, WatchDrain, LastInv, FinalSave, snapshot
  <2> QED BY <1>5, <2>2, <2>3 DEF LastInv
<1>8. CASE WatchSave(s)
  <2>1. life' = life /\ out' = out /\ s \in Writer /\ Sess \subseteq Writer
    BY <1>8, Writers DEF WatchSave
  <2>2. ClosedLate' BY <1>1, <1>4, <1>8, <2>1 DEF WatchSave, LastInv, ClosedLate
  <2>3. CASE life[s] = "closed"
    <3>1. wr' = wr /\ watch' = [watch EXCEPT ![s] = "remove"] BY <1>8, <2>3 DEF WatchSave
    <3>2. FinalSave' BY <1>1, <1>3, <2>1, <3>1 DEF LastInv, FinalSave, snapshot
    <3> QED BY <1>5, <2>2, <3>2 DEF LastInv
  <2>4. CASE life[s] # "closed"
    <3> DEFINE d == [pc |-> "open", n |-> sname[s], data |-> snapshot(s), at |-> "gone"]
    <3>1. wr' = [wr EXCEPT ![s] = d] /\ watch' = [watch EXCEPT ![s] = "writing"]
      BY <1>8, <2>4 DEF WatchSave, BeginSave
    <3>2. d.pc = "open" /\ d.n = sname[s] /\ d.data = snapshot(s) OBVIOUS
    <3> HIDE DEF d
    <3>3. wr'[s] = d /\ \A t \in Sess : t # s => wr'[t] = wr[t] /\ watch'[t] = watch[t]
      BY <1>1, <2>1, <3>1
    <3>4. \A t \in Sess : snapshot(t)' = snapshot(t) BY <2>1 DEF snapshot
    <3>5. FinalSave' BY <1>3, <3>2, <3>3, <3>4 DEF LastInv, FinalSave
    <3> QED BY <1>5, <2>2, <3>5 DEF LastInv
  <2> QED BY <2>3, <2>4
<1> QED BY <1>6, <1>7, <1>8 DEF WatcherStep

\* A writer goes on with its own write only.
LEMMA LastWrite ==
  ASSUME MapInv, LastInv, NEW w \in Writer, WriteStep(w)
  PROVE  LastInv'
<1>1. /\ wr \in [Writer -> Write] /\ wr[w] \in Write
      /\ watch \in [Sess -> {"no", "wait", "save", "writing", "remove", "drain", "end"}]
  BY DEF MapInv, TypeOK
<1>2. life' = life /\ sname' = sname /\ out' = out /\ sessions' = sessions /\ stop' = stop
  BY DEF WriteStep, WriteOpen, WriteFill, WriteRename, WriteFail, written, sessVars
<1>3. CASE WriteOpen(w) \/ WriteFill(w)
  <2>1. watch' = watch /\ req' = req BY <1>3 DEF WriteOpen, WriteFill, sessVars
  <2>2. PICK d \in Write : /\ wr' = [wr EXCEPT ![w] = d]
                           /\ d.pc # "idle" /\ d.n = wr[w].n /\ d.data = wr[w].data
    <3>1. CASE WriteOpen(w)
      <4> DEFINE d == [wr[w] EXCEPT !.pc = "fill", !.at = "tmp"]
      <4>1. d \in Write /\ d.pc # "idle" /\ d.n = wr[w].n /\ d.data = wr[w].data
        BY <1>1 DEF Write
      <4>2. wr' = [wr EXCEPT ![w] = d] BY <1>1, <3>1 DEF WriteOpen
      <4> QED BY <4>1, <4>2
    <3>2. CASE WriteFill(w)
      <4> DEFINE d == [wr[w] EXCEPT !.pc = "rename"]
      <4>1. d \in Write /\ d.pc # "idle" /\ d.n = wr[w].n /\ d.data = wr[w].data
        BY <1>1 DEF Write
      <4>2. wr' = [wr EXCEPT ![w] = d] BY <1>1, <3>2 DEF WriteFill
      <4> QED BY <4>1, <4>2
    <3> QED BY <1>3, <3>1, <3>2
  <2>3. Sess \subseteq Writer BY Writers
  <2>4. FinalSave' BY <1>1, <1>2, <2>1, <2>2, <2>3 DEF LastInv, FinalSave, snapshot
  <2>5. ClosedLate' BY <1>2, <2>1 DEF LastInv, ClosedLate, cancelled
  <2>6. \A g \in Handler : InsertFresh(g)' BY <1>2, <2>1 DEF LastInv, InsertFresh
  <2> QED BY <2>4, <2>5, <2>6 DEF LastInv
<1>4. CASE WriteRename(w) \/ WriteFail(w)
  <2>1. written(w) BY <1>4 DEF WriteRename, WriteFail
  <2>2. \A t \in Sess : watch'[t] = IF t = w THEN "remove" ELSE watch[t] BY <2>1 DEF written
  <2>3. ASSUME NEW v \in Writer, v # w PROVE SameWrite(v)
    <3>1. wr[v] \in Write BY <1>1
    <3>2. CASE wr' = [wr EXCEPT ![w] = Idle] BY <1>1, <2>3, <3>2 DEF SameWrite
    <3>3. CASE wr' = [moved("tmp", "gone", wr[w].n) EXCEPT ![w] = Idle]
      <4>1. wr'[v] = moved("tmp", "gone", wr[w].n)[v] BY <2>3, <3>3 DEF moved
      <4> QED BY <4>1, MovedSame DEF SameWrite
    <3>4. CASE wr' = [u \in Writer |->
                        IF u = w THEN Idle
                        ELSE IF wr[u].n # wr[w].n \/ wr[u].pc # "fill" THEN wr[u]
                        ELSE [wr[u] EXCEPT !.at = IF @ = "tmp" THEN "file" ELSE "gone"]]
      BY <2>3, <3>1, <3>4 DEF SameWrite, Write
    <3> QED BY <1>4, <3>2, <3>3, <3>4 DEF WriteRename, WriteFail
  <2>4. FinalSave' BY <1>2, <2>2, <2>3, Writers DEF LastInv, FinalSave, snapshot, SameWrite
  <2>5. ClosedLate' BY <1>2, <2>2 DEF LastInv, ClosedLate, cancelled
  <2>6. \A g \in Handler : req'[g] = req[g] \/ req'[g] = NoReq BY <2>1 DEF written
  <2>7. \A g \in Handler : InsertFresh(g)' BY <1>2, <2>6 DEF LastInv, InsertFresh, NoReq
  <2> QED BY <2>4, <2>5, <2>7 DEF LastInv
<1> QED BY <1>3, <1>4 DEF WriteStep

LEMMA LastServer ==
  ASSUME MapInv, LastInv,
         \/ \E w \in {"saver", "stop"} : SaveNext(w)
         \/ Tick \/ Signal \/ Cancel \/ LockSessions \/ ResetSessions \/ OtherDaemon
  PROVE  LastInv'
<1>1. life' = life /\ sname' = sname /\ out' = out /\ watch' = watch /\ req' = req
  BY DEF SaveNext, Tick, Signal, Cancel, LockSessions, ResetSessions, OtherDaemon, sessVars
<1>2. cancelled => cancelled'
  BY DEF SaveNext, Tick, Signal, Cancel, LockSessions, ResetSessions, OtherDaemon, beginShutdown,
     cancelled
<1>3. wr \in [Writer -> Write] BY DEF MapInv, TypeOK
<1>4. \A s \in Sess : SameWrite(s)
  <2>1. CASE wr' = wr BY <2>1 DEF SameWrite
  <2>2. ASSUME NEW w \in {"saver", "stop"}, SaveNext(w) PROVE \A s \in Sess : SameWrite(s)
    <3>1. wr' = wr \/ \E d : wr' = [wr EXCEPT ![w] = d] BY <2>2 DEF SaveNext, BeginSave
    <3>2. \A s \in Sess : s \in Writer /\ s # w BY Writers
    <3> QED BY <1>3, <3>1, <3>2 DEF SameWrite
  <2>3. CASE OtherDaemon
    <3>1. \A s \in Sess : s \in Writer BY Writers
    <3> QED BY <1>3, <2>3, <3>1 DEF OtherDaemon, cleanStaleTmp, SameWrite, Write
  <2> QED
    BY <2>1, <2>2, <2>3 DEF Tick, Signal, Cancel, LockSessions, ResetSessions, writeVars
<1>5. CASE sessions' = sessions BY <1>1, <1>2, <1>4, <1>5, LastFrame
<1>6. CASE ResetSessions
  <2>1. sessions' = [n \in Names |-> Nil] BY <1>6 DEF ResetSessions
  <2>2. ASSUME NEW g \in Handler, req[g].pc = "insert" PROVE sessions'[req[g].n] # req[g].mine
    BY <2>1, <2>2 DEF MapInv, OwnOrder
  <2>3. \A g \in Handler : InsertFresh(g)' BY <1>1, <2>2 DEF LastInv, InsertFresh
  <2>4. ClosedLate' BY <1>1, <1>2 DEF LastInv, ClosedLate
  <2>5. FinalSave' BY <1>1, <1>4 DEF LastInv, FinalSave, snapshot, SameWrite
  <2> QED BY <2>3, <2>4, <2>5 DEF LastInv
<1> QED BY <1>5, <1>6 DEF SaveNext, Tick, Signal, Cancel, LockSessions, OtherDaemon

\* Without a process nobody inserts and nobody watches.
LEMMA LastGone ==
  ASSUME MapInv, processGone \/ Restart
  PROVE  LastInv'
<1>1. /\ \A s \in Sess : watch'[s] \in {"no", "end"}
      /\ \A h \in Handler : req'[h] = NoReq
  BY DEF processGone, Restart, MapInv, DownOrder, sessVars
<1> QED BY <1>1 DEF LastInv, InsertFresh, ClosedLate, FinalSave, NoReq

LEMMA LastNext == MapInv /\ LastInv /\ [Next]_vars => LastInv'
<1> SUFFICES ASSUME MapInv, LastInv, [Next]_vars PROVE LastInv'
  OBVIOUS
<1>1. CASE UNCHANGED vars
  <2>1. /\ life' = life /\ sname' = sname /\ out' = out /\ watch' = watch /\ sessions' = sessions
        /\ stop' = stop /\ req' = req /\ wr' = wr
    BY <1>1 DEF vars, sessVars, writeVars
  <2> QED BY <2>1, LastFrame DEF SameWrite, cancelled
<1>2. ASSUME NEW h \in Handler, Request(h) \/ HandlerStep(h) PROVE LastInv'
  BY <1>2, LastQuiet, LastStart, LastMap, LastClose DEF HandlerStep
<1>3. ASSUME NEW s \in Sess, Output(s) \/ Exit(s) \/ WatcherStep(s) PROVE LastInv'
  BY <1>3, LastSession
<1>4. ASSUME NEW w \in Writer, WriteStep(w) PROVE LastInv'
  BY <1>4, LastWrite
<1>5. CASE (\E w \in {"saver", "stop"} : SaveNext(w)) \/ Tick \/ Signal \/ Cancel \/ LockSessions
           \/ ResetSessions \/ OtherDaemon
  BY <1>5, LastServer
<1>6. CASE CloseNext BY <1>6, LastClose
<1>7. CASE ProcessExit \/ Crash \/ Restart
  BY <1>7, LastGone DEF ProcessExit, Crash
<1> QED BY <1>1, <1>2, <1>3, <1>4, <1>5, <1>6, <1>7 DEF Next, ShutdownStep

LEMMA LastInvariant == Spec => [](MapInv /\ LastInv)
<1>1. Init => LastInv
  BY DEF Init, LastInv, InsertFresh, ClosedLate, FinalSave, NoReq
<1>2. (MapInv /\ LastInv) /\ [Next]_vars => (MapInv /\ LastInv)' BY MapNext, LastNext
<1> QED BY <1>1, <1>2, MapInit, PTL DEF Spec

\* Where no session is restored, every final save that begins ends with the last
\* screen of its session in the state file, except by an error of the write or
\* where another daemon took the temporary file away; and none is left out but
\* under a cancelled context.  With any number of handlers and sessions, the
\* periodic saver, shutdown, auto-exit, second daemons, crashes and restarts.
THEOREM RegistryLastScreenSaved ==
  ASSUME "restore" \notin Kinds
  PROVE  Spec => LastScreenSaved
<1> DEFINE Saved == \A s \in Sess : watch[s] # "remove" /\ watch'[s] = "remove" =>
                      IF watch[s] = "writing"
                        THEN WriteFail(s) \/ tmp[sname[s]] = NoFile
                             \/ file'[sname[s]] = snapshot(s)
                        ELSE cancelled
<1>1. ASSUME MapInv, SaveInv, LastInv, [Next]_vars PROVE Saved
  <2> SUFFICES ASSUME NEW s \in Sess, watch[s] # "remove", watch'[s] = "remove"
               PROVE  IF watch[s] = "writing"
                        THEN WriteFail(s) \/ tmp[sname[s]] = NoFile
                             \/ file'[sname[s]] = snapshot(s)
                        ELSE cancelled
    OBVIOUS
  <2>1. /\ watch \in [Sess -> {"no", "wait", "save", "writing", "remove", "drain", "end"}]
        /\ file \in [Names -> State \cup {NoFile, Torn}]
    BY <1>1 DEF MapInv, TypeOK
  <2>2. watch' # watch OBVIOUS
  <2>3. ASSUME NEW h \in Handler, Request(h) \/ HandlerStep(h) PROVE FALSE
    <3>1. \/ watch' = watch
          \/ \E t \in Sess \cup {Nil} : watch' = [watch EXCEPT ![t] = "wait"]
      <4>1. CASE Insert(h) \/ Join(h)
        <5>1. req[h].mine \in Sess \cup {Nil} /\ req[h].target \in Sess \cup {Nil}
          BY <1>1, <4>1, Begun DEF Insert, Join, at
        <5> QED BY <4>1, <5>1 DEF Insert, Join
      <4> QED
        BY <2>3, <4>1 DEF Request, HandlerStep, Lookup, PrepareNew, PrepareForce, PrepareRestore,
           Start, InsertExisting, Commit, CommitFail, JoinFail, Abandon, CloseOwn, Rollback, Leave,
           RequestFail, PruneNames, PruneDir, PruneNext, sessVars
    <3> QED BY <2>1, <2>2, <3>1
  <2>4. ASSUME NEW t \in Sess, Output(t) \/ Exit(t) \/ WatcherStep(t)
        PROVE  watch[s] # "writing" /\ cancelled
    <3>1. CASE WatchDone(t) BY <2>1, <3>1 DEF WatchDone
    <3>2. CASE WatchSave(t)
      <4>1. t = s /\ life[s] = "closed" /\ watch[s] = "save" BY <2>1, <3>2 DEF WatchSave
      <4> QED BY <1>1, <4>1 DEF LastInv, ClosedLate
    <3>3. CASE WatchRemove(t) \/ WatchDrain(t) BY <2>1, <3>3 DEF WatchRemove, WatchDrain
    <3>4. CASE Output(t) \/ Exit(t) BY <2>2, <3>4 DEF Output, Exit
    <3> QED BY <2>4, <3>1, <3>2, <3>3, <3>4 DEF WatcherStep
  <2>5. ASSUME NEW w \in Writer, WriteStep(w)
        PROVE  /\ watch[s] = "writing"
               /\ WriteFail(s) \/ tmp[sname[s]] = NoFile \/ file'[sname[s]] = snapshot(s)
    <3>1. ~WriteOpen(w) /\ ~WriteFill(w) BY <2>2 DEF WriteOpen, WriteFill, sessVars
    <3>2. written(w) /\ wr[w].pc # "idle"
      BY <2>5, <3>1 DEF WriteStep, WriteRename, WriteFail
    <3>3. w = s BY <3>2 DEF written
    <3>4. watch[s] = "writing" BY <1>1, <3>2, <3>3 DEF MapInv, WriteOwner
    <3>5. wr[s].n = sname[s] /\ wr[s].data = snapshot(s) BY <1>1, <3>4 DEF LastInv, FinalSave
    <3>6. WriteData(s) BY <1>1, Writers DEF SaveInv
    <3>7. CASE WriteRename(s)
      <4>1. sname[s] \in Names /\ tmp[sname[s]] \in {NoFile, snapshot(s)}
        BY <3>5, <3>6, <3>7 DEF WriteRename, WriteData
      <4> QED BY <2>1, <3>4, <3>5, <3>7, <4>1 DEF WriteRename
    <3> QED BY <2>5, <3>1, <3>3, <3>4, <3>7 DEF WriteStep
  <2>6. ASSUME processGone PROVE FALSE BY <2>6 DEF processGone
  <2> QED
    BY <1>1, <2>2, <2>3, <2>4, <2>5, <2>6 DEF Next, SaveNext, Tick, Signal, ShutdownStep, Cancel,
       LockSessions, CloseNext, ResetSessions, ProcessExit, Crash, Restart, OtherDaemon, vars,
       sessVars
<1>2. Spec => [][Saved]_vars
  <2>1. (MapInv /\ SaveInv /\ LastInv) /\ [Next]_vars => [Saved]_vars BY <1>1
  <2> HIDE DEF Saved
  <2> QED BY <2>1, SaveInvariant, LastInvariant, PTL DEF Spec
<1> QED BY <1>2 DEF LastScreenSaved

-----------------------------------------------------------------------------
\* A restore that nobody else disturbs

LEMMA KeepNoReq ==
  ASSUME NEW h \in Handler, req'[h] = NoReq
  PROVE  ReadOrder(h)' /\ KeptOrder(h)'
  BY DEF ReadOrder, KeptOrder, NoReq

\* A step that leaves the request alone, and its state file and write with it.
LEMMA KeepFrame ==
  ASSUME KeepInv, NEW g \in Handler, req'[g] = req[g],
         Restoring(g) => file'[req[g].n] = file[req[g].n],
         req[g].pc = "writing" => tmp'[req[g].n] = tmp[req[g].n] /\ wr'[g] = wr[g]
  PROVE  ReadOrder(g)' /\ KeptOrder(g)'
<1>1. ReadOrder(g) /\ KeptOrder(g) BY DEF KeepInv
<1>2. ReadOrder(g)' BY <1>1 DEF ReadOrder
<1>3. KeptOrder(g)' BY <1>1 DEF ReadOrder, KeptOrder, Restoring
<1> QED BY <1>2, <1>3

\* A step that leaves all state files and the writes of handlers alone.
LEMMA KeepFiles ==
  ASSUME KeepInv, file' = file, tmp' = tmp, \A h \in Handler : wr'[h] = wr[h],
         \A h \in Handler : \/ req'[h] = req[h] \/ req'[h] = NoReq
                            \/ ReadOrder(h)' /\ KeptOrder(h)'
  PROVE  KeepInv'
<1> SUFFICES ASSUME NEW h \in Handler PROVE ReadOrder(h)' /\ KeptOrder(h)'
  BY DEF KeepInv
<1> QED BY KeepNoReq, KeepFrame

LEMMA KeepReq ==
  ASSUME KeepInv, NEW h \in Handler, file' = file, tmp' = tmp, wr' = wr, Others(h),
         req'[h] = NoReq \/ (ReadOrder(h)' /\ KeptOrder(h)')
  PROVE  KeepInv'
  BY KeepFiles DEF Others

\* The steps of a handler that change nothing but its request.
LEMMA KeepQuiet ==
  ASSUME MapInv, KeepInv, NEW h \in Handler,
         \/ Request(h) \/ Lookup(h) \/ PrepareNew(h) \/ PrepareRestore(h) \/ InsertExisting(h)
         \/ CommitFail(h) \/ JoinFail(h) \/ RequestFail(h) \/ PruneNames(h) \/ PruneDir(h)
         \/ Abandon(h) \/ Leave(h)
  PROVE  KeepInv'
<1> USE DEF at
<1>1. TypeReq /\ req[h] \in RequestState BY DEF MapInv, TypeOK, TypeReq
<1>2. ReadOrder(h) /\ KeptOrder(h) /\ OwnOrder(h) BY DEF KeepInv, MapInv
<1>3. file' = file /\ tmp' = tmp /\ wr' = wr
  BY DEF Request, Lookup, PrepareNew, PrepareRestore, InsertExisting, CommitFail, JoinFail,
     RequestFail, PruneNames, PruneDir, Abandon, Leave, writeVars, fileVars
<1>4. CASE finish(h)
  <2>1. Others(h) /\ req'[h] = NoReq BY <1>1, <1>4, Gone
  <2> QED BY <1>3, <2>1, KeepReq
<1>5. CASE Request(h)
  <2>1. PICK k \in Kinds, n \in Names :
          req' = [req EXCEPT ![h] = [NoReq EXCEPT !.pc = IF k = "prune" THEN "names" ELSE "lookup",
                                                 !.kind = k, !.n = n]]
    BY <1>5 DEF Request
  <2> DEFINE r == [NoReq EXCEPT !.pc = IF k = "prune" THEN "names" ELSE "lookup",
                                !.kind = k, !.n = n]
  <2>2. /\ r \in RequestState /\ r.pc \in {"names", "lookup"} /\ r.rd = NoFile
        /\ r.after = "idle" /\ (r.pc = "lookup" => r.kind \notin {"none", "prune"})
    BY RegistryAssumption DEF RequestState, NoReq
  <2>3. req' = [req EXCEPT ![h] = r] BY <2>1
  <2> HIDE DEF r
  <2>4. Others(h) /\ req'[h] = r BY <1>1, <2>2, <2>3, Edited
  <2>5. ReadOrder(h)' /\ KeptOrder(h)' BY <2>2, <2>4 DEF ReadOrder, KeptOrder
  <2> QED BY <1>3, <2>4, <2>5, KeepReq
<1>6. CASE Lookup(h) /\ ~finish(h)
  <2>1. req[h].pc = "lookup" /\ sessions[req[h].n] \in Sess \cup {Nil} BY <1>6, Begun DEF Lookup
  <2>2. CASE goto(h, "prepare")
    <3>1. Others(h) /\ Goes(h, "prepare") /\ Kept(h) BY <1>1, <2>2, Going DEF Places
    <3>2. ReadOrder(h)' /\ KeptOrder(h)'
      BY <1>2, <2>1, <3>1 DEF ReadOrder, KeptOrder, Goes, Now, Kept
    <3> QED BY <1>3, <3>1, <3>2, KeepReq
  <2>3. CASE /\ sessions[req[h].n] # Nil /\ req[h].kind = "attach"
             /\ req' = [req EXCEPT ![h].pc = "join", ![h].target = sessions[req[h].n]]
    <3>1. Others(h) /\ Now(h, "join", req[h].mine, sessions[req[h].n]) /\ Kept(h)
      BY <1>1, <2>1, <2>3, Targeting DEF Places
    <3>2. ReadOrder(h)' /\ KeptOrder(h)'
      BY <1>2, <2>1, <2>3, <3>1 DEF ReadOrder, KeptOrder, Now, Kept
    <3> QED BY <1>3, <3>1, <3>2, KeepReq
  <2> QED BY <1>6, <2>2, <2>3 DEF Lookup
<1>7. CASE PrepareNew(h) /\ ~finish(h)
  <2>1. req[h].pc = "prepare" /\ req[h].kind # "restore" /\ goto(h, "start")
    BY <1>7 DEF PrepareNew
  <2>2. Others(h) /\ Goes(h, "start") /\ Kept(h) BY <1>1, <2>1, Going DEF Places
  <2>3. req[h].after = "idle" BY <1>2, <2>1 DEF ReadOrder
  <2>4. ReadOrder(h)' /\ KeptOrder(h)'
    BY <1>2, <2>1, <2>2, <2>3 DEF ReadOrder, KeptOrder, Goes, Now, Kept
  <2> QED BY <1>3, <2>2, <2>4, KeepReq
<1>8. CASE PrepareRestore(h) /\ ~finish(h)
  <2> DEFINE f == file[req[h].n]
  <2>1. /\ req[h].pc = "prepare" /\ req[h].kind = "restore" /\ f \notin {NoFile, Torn}
        /\ req' = [req EXCEPT ![h].pc = "start", ![h].rd = f]
    BY <1>8 DEF PrepareRestore
  <2>2. f \in State BY <2>1, Begun DEF TypeFile
  <2>3. Others(h) /\ Goes(h, "start") /\ req'[h].rd = f /\ req'[h].after = req[h].after
    <3> HIDE DEF f
    <3> QED BY <1>1, <2>1, <2>2, Reading DEF Places
  <2>4. ReadOrder(h)' /\ KeptOrder(h)'
    BY <1>2, <1>3, <2>1, <2>3 DEF ReadOrder, KeptOrder, Goes, Now
  <2> QED BY <1>3, <2>3, <2>4, KeepReq
<1>9. CASE InsertExisting(h)
  <2> DEFINE t == sessions[req[h].n]
             a == IF req[h].kind = "attach" THEN "join" ELSE "idle"
  <2>1. /\ req[h].pc = "insert" /\ t # Nil
        /\ req' = [req EXCEPT ![h].pc = "close", ![h].target = t, ![h].after = a]
    BY <1>9 DEF InsertExisting
  <2>2. t \in Sess BY <2>1, Begun
  <2>3. Others(h) /\ Now(h, "close", req[h].mine, t) /\ req'[h].after = a /\ req'[h].rd = req[h].rd
    BY <1>1, <2>1, <2>2, Yielding DEF Places
  <2>4. ReadOrder(h)' /\ KeptOrder(h)'
    BY <1>2, <1>3, <2>1, <2>3 DEF ReadOrder, KeptOrder, Now
  <2> QED BY <1>3, <2>3, <2>4, KeepReq
<1>10. CASE CommitFail(h) \/ Abandon(h)
  <2>1. PICK l \in {"abandon", "close"} : goto(h, l)
    BY <1>10 DEF CommitFail, Abandon
  <2>2. req[h].pc \in {"commit", "abandon"} BY <1>10 DEF CommitFail, Abandon
  <2>3. Others(h) /\ Goes(h, l) /\ Kept(h) BY <1>1, <2>1, Going DEF Places
  <2>4. ReadOrder(h)' /\ KeptOrder(h)'
    BY <1>2, <1>3, <2>2, <2>3 DEF ReadOrder, KeptOrder, Goes, Now, Kept
  <2> QED BY <1>3, <2>3, <2>4, KeepReq
<1>11. CASE JoinFail(h) /\ ~finish(h)
  <2> DEFINE a == IF req[h].kind = "restore" THEN "rollback" ELSE "idle"
  <2>1. req[h].pc = "join" /\ req' = [req EXCEPT ![h].pc = "abandon", ![h].after = a]
    BY <1>11 DEF JoinFail
  <2>2. Others(h) /\ Goes(h, "abandon") /\ req'[h].rd = req[h].rd /\ req'[h].after = a
    <3>1. a \in {"idle", "join", "rollback"} OBVIOUS
    <3> HIDE DEF a
    <3> QED BY <1>1, <2>1, <3>1, Undoing DEF Places
  <2>3. ReadOrder(h)' /\ KeptOrder(h)'
    BY <1>2, <1>3, <2>1, <2>2 DEF ReadOrder, KeptOrder, Goes, Now
  <2> QED BY <1>3, <2>2, <2>3, KeepReq
<1>12. CASE (PruneNames(h) \/ PruneDir(h)) /\ ~finish(h)
  <2>1. PICK l \in {"dir", "prune"}, ns \in SUBSET Names :
          req' = [req EXCEPT ![h].pc = l, ![h].todo = ns]
    <3>1. {n \in Names : sessions[n] = Nil} \in SUBSET Names
          /\ {n \in req[h].todo : file[n] # NoFile} \in SUBSET Names
      BY <1>1 DEF RequestState
    <3> QED BY <1>12, <3>1 DEF PruneNames, PruneDir
  <2>2. Others(h) /\ Goes(h, l) /\ req'[h].rd = req[h].rd /\ req'[h].after = req[h].after
    BY <1>1, <2>1, Pruning DEF Places
  <2>3. req[h].pc \in {"names", "dir"} BY <1>12 DEF PruneNames, PruneDir
  <2>4. ReadOrder(h)' /\ KeptOrder(h)'
    BY <1>2, <2>2, <2>3 DEF ReadOrder, KeptOrder, Goes, Now
  <2> QED BY <1>3, <2>2, <2>4, KeepReq
<1> QED
  BY <1>4, <1>5, <1>6, <1>7, <1>8, <1>9, <1>10, <1>11, <1>12 DEF RequestFail, Leave

\* A removal reaches no state file that another handler restores.
LEMMA KeepRemove ==
  ASSUME MapInv, KeepInv, Apart, NEW h \in Handler, NEW n \in Names, Discards(h, n), removeFile(n),
         tmp' = tmp, Others(h), ReadOrder(h)' /\ KeptOrder(h)'
  PROVE  KeepInv'
<1>1. file \in [Names -> State \cup {NoFile, Torn}] /\ wr \in [Writer -> Write]
  BY DEF MapInv, TypeOK
<1> SUFFICES ASSUME NEW g \in Handler, g # h PROVE ReadOrder(g)' /\ KeptOrder(g)'
  BY DEF KeepInv
<1>2. Restoring(g) => req[g].n # n BY DEF Apart
<1>3. file'[req[g].n] = file[req[g].n] \/ req[g].n = n BY <1>1 DEF removeFile
<1>4. ReadOrder(g) /\ KeptOrder(g) BY DEF KeepInv
<1>5. ASSUME req[g].pc = "writing" PROVE wr'[g] = wr[g]
  <2>1. wr[g].n # n BY <1>2, <1>4, <1>5 DEF ReadOrder, KeptOrder, Restoring
  <2> QED BY <2>1, Writers DEF removeFile, moved
<1> QED BY <1>2, <1>3, <1>5, KeepFrame DEF Others

LEMMA KeepRemoves ==
  ASSUME MapInv, KeepInv, Apart, NEW h \in Handler, PrepareForce(h) \/ Commit(h) \/ PruneNext(h)
  PROVE  KeepInv'
<1> USE DEF at
<1>1. TypeReq /\ req[h] \in RequestState BY DEF MapInv, TypeOK, TypeReq
<1>2. ReadOrder(h) /\ KeptOrder(h) /\ OwnOrder(h) BY DEF KeepInv, MapInv
<1>3. CASE PrepareForce(h)
  <2>1. /\ req[h].pc = "prepare" /\ req[h].kind = "force" /\ removeFile(req[h].n)
        /\ goto(h, "start") /\ tmp' = tmp
    BY <1>3 DEF PrepareForce
  <2>2. req[h].n \in Names BY <2>1, Begun
  <2>3. Others(h) /\ Goes(h, "start") /\ Kept(h) BY <1>1, <2>1, Going DEF Places
  <2>4. ReadOrder(h)' /\ KeptOrder(h)'
    BY <1>2, <2>1, <2>3 DEF ReadOrder, KeptOrder, Goes, Now, Kept
  <2> QED BY <2>1, <2>2, <2>3, <2>4, KeepRemove DEF Discards
<1>4. CASE Commit(h)
  <2>1. req[h].pc = "commit" /\ removeFile(req[h].n) /\ goto(h, "join") /\ tmp' = tmp
    BY <1>4 DEF Commit
  <2>2. req[h].n \in Names BY <2>1, Begun
  <2>3. Others(h) /\ Goes(h, "join") /\ Kept(h) BY <1>1, <2>1, Going DEF Places
  <2>4. ReadOrder(h)' /\ KeptOrder(h)'
    BY <1>2, <2>1, <2>3 DEF ReadOrder, KeptOrder, OwnOrder, Goes, Now, Kept
  <2> QED BY <2>1, <2>2, <2>3, <2>4, KeepRemove DEF Discards
<1>5. CASE PruneNext(h)
  <2>1. PICK n \in req[h].todo :
          /\ req[h].pc = "prune" /\ removeFile(n) /\ tmp' = tmp
          /\ finish(h) \/ req' = [req EXCEPT ![h].todo = @ \ {n}]
    BY <1>5 DEF PruneNext
  <2>2. n \in Names BY <1>1 DEF RequestState
  <2>3. Others(h) /\ ReadOrder(h)' /\ KeptOrder(h)'
    <3>1. CASE finish(h) BY <1>1, <3>1, Gone, KeepNoReq
    <3>2. CASE req' = [req EXCEPT ![h].todo = @ \ {n}]
      <4> DEFINE r == [req[h] EXCEPT !.todo = @ \ {n}]
      <4>1. r \in RequestState /\ r.pc = "prune" /\ r.rd = req[h].rd /\ r.after = req[h].after
            /\ r.kind = req[h].kind
        BY <1>1, <2>1 DEF RequestState
      <4>2. req' = [req EXCEPT ![h] = r] BY <1>1, <3>2 DEF TypeReq
      <4> HIDE DEF r
      <4>3. Others(h) /\ req'[h] = r BY <1>1, <4>1, <4>2, Edited
      <4> QED BY <1>2, <2>1, <4>1, <4>3 DEF ReadOrder, KeptOrder
    <3> QED BY <2>1, <3>1, <3>2
  <2> QED BY <2>1, <2>2, <2>3, KeepRemove DEF Discards, at
<1> QED BY <1>3, <1>4, <1>5

\* The steps of a handler on its session.
LEMMA KeepOwn ==
  ASSUME MapInv, KeepInv, NEW h \in Handler,
         Start(h) \/ Insert(h) \/ Join(h) \/ CloseOwn(h) \/ Rollback(h)
  PROVE  KeepInv'
<1> USE DEF at
<1>1. TypeReq /\ req[h] \in RequestState BY DEF MapInv, TypeOK, TypeReq
<1>2. ReadOrder(h) /\ KeptOrder(h) /\ OwnOrder(h) BY DEF KeepInv, MapInv
<1>3. file' = file /\ tmp' = tmp
  BY DEF Start, Insert, Join, CloseOwn, Rollback, fileVars
<1>4. CASE Start(h)
  <2>1. PICK s \in Sess : req' = [req EXCEPT ![h].pc = "insert", ![h].mine = s]
    BY <1>4 DEF Start
  <2>2. req[h].pc = "start" /\ wr' = wr BY <1>4 DEF Start, writeVars
  <2>3. Others(h) /\ Now(h, "insert", s, req[h].target) /\ Kept(h)
    BY <1>1, <2>1, Owning DEF Places
  <2>4. ReadOrder(h)' /\ KeptOrder(h)'
    BY <1>2, <1>3, <2>2, <2>3 DEF ReadOrder, KeptOrder, Now, Kept
  <2> QED BY <1>3, <2>2, <2>3, <2>4, KeepReq
<1>5. CASE Insert(h)
  <2>1. req[h].pc = "insert" /\ wr' = wr /\ req[h].mine \in Sess
    BY <1>2, <1>5, Begun DEF Insert, writeVars, OwnOrder
  <2>2. CASE finish(h)
    <3>1. Others(h) /\ req'[h] = NoReq BY <1>1, <2>2, Gone
    <3> QED BY <1>3, <2>1, <3>1, KeepReq
  <2>3. CASE ~finish(h)
    <3> DEFINE l == IF req[h].kind = "attach" THEN "join" ELSE "commit"
    <3>1. /\ req[h].kind \notin {"create", "force"}
          /\ req' = [req EXCEPT ![h].target = req[h].mine, ![h].pc = l]
      BY <1>5, <2>3 DEF Insert
    <3>2. l \in Places BY DEF Places
    <3>3. Others(h) /\ Now(h, l, req[h].mine, req[h].mine) /\ Kept(h)
      <4> HIDE DEF l
      <4> QED BY <1>1, <2>1, <3>1, <3>2, Listing
    <3>4. req[h].kind \in {"attach", "restore"}
      BY <1>1, <1>2, <2>1, <3>1 DEF ReadOrder, RequestState
    <3>5. ReadOrder(h)' /\ KeptOrder(h)'
      BY <1>2, <1>3, <2>1, <3>3, <3>4 DEF ReadOrder, KeptOrder, Now, Kept
    <3> QED BY <1>3, <2>1, <3>3, <3>5, KeepReq
  <2> QED BY <2>2, <2>3
<1>6. CASE Join(h)
  <2>1. req[h].pc = "join" /\ wr' = wr /\ goto(h, "attached") BY <1>6 DEF Join, writeVars
  <2>2. Others(h) /\ Goes(h, "attached") /\ Kept(h) BY <1>1, <2>1, Going DEF Places
  <2>3. ReadOrder(h)' /\ KeptOrder(h)'
    BY <1>2, <2>1, <2>2 DEF ReadOrder, KeptOrder, Goes, Now, Kept
  <2> QED BY <1>3, <2>1, <2>2, <2>3, KeepReq
<1>7. CASE CloseOwn(h)
  <2> DEFINE s == req[h].mine
             r == IF req[h].after = "idle" THEN NoReq
                  ELSE [req[h] EXCEPT !.pc = req[h].after, !.mine = Nil]
  <2>1. req[h].pc = "close" /\ wr' = wr /\ req' = [disconnect(s) EXCEPT ![h] = r]
    BY <1>7 DEF CloseOwn, writeVars
  <2>2. \/ r = NoReq
        \/ /\ r.pc = req[h].after /\ r.pc \in {"join", "rollback"} /\ r.kind = req[h].kind
           /\ r.rd = req[h].rd /\ r.after = req[h].after
    BY <1>1 DEF RequestState
  <2> HIDE DEF r, s
  <2>3. req'[h] = r /\ \A g \in Handler : g # h => req'[g] = disconnect(s)[g]
    BY <1>1, <2>1, Disconnected
  <2>4. ReadOrder(h)' /\ KeptOrder(h)'
    BY <1>2, <2>1, <2>2, <2>3, KeepNoReq DEF ReadOrder, KeptOrder
  <2>5. \A g \in Handler : g # h => req'[g] = req[g] \/ req'[g] = NoReq
    BY <1>1, <2>3, Disconnected
  <2> QED BY <1>3, <2>1, <2>4, <2>5, KeepFiles
<1>8. CASE Rollback(h)
  <2> DEFINE d == [pc |-> "open", n |-> req[h].n, data |-> req[h].rd, at |-> "gone"]
  <2>1. req[h].pc = "rollback" /\ goto(h, "writing") /\ wr' = [wr EXCEPT ![h] = d]
    BY <1>8 DEF Rollback
  <2>2. d.pc = "open" /\ d.n = req[h].n /\ d.data = req[h].rd OBVIOUS
  <2> HIDE DEF d
  <2>3. Others(h) /\ Goes(h, "writing") /\ Kept(h) BY <1>1, <2>1, Going DEF Places
  <2>4. wr \in [Writer -> Write] /\ Handler \subseteq Writer BY Writers DEF MapInv, TypeOK
  <2>5. wr'[h] = d /\ \A g \in Handler : g # h => wr'[g] = wr[g] BY <2>1, <2>4
  <2>6. ReadOrder(h)' /\ KeptOrder(h)'
    BY <1>2, <2>1, <2>2, <2>3, <2>5 DEF ReadOrder, KeptOrder, Goes, Now, Kept
  <2>7. ASSUME NEW g \in Handler, g # h PROVE ReadOrder(g)' /\ KeptOrder(g)'
    BY <1>3, <2>3, <2>5, <2>7, KeepFrame DEF Others
  <2> QED BY <2>6, <2>7 DEF KeepInv
<1> QED BY <1>4, <1>5, <1>6, <1>7, <1>8

\* A write that is not h's leaves the name that h restores alone; h's own ends
\* with what was read in the state file.
LEMMA KeepWrite ==
  ASSUME "write" \notin Faults, MapInv, KeepInv, Apart, NEW w \in Writer, WriteStep(w)
  PROVE  KeepInv'
<1> DEFINE n == wr[w].n
<1>1. /\ wr \in [Writer -> Write] /\ wr[w] \in Write /\ Handler \subseteq Writer
      /\ file \in [Names -> State \cup {NoFile, Torn}]
      /\ tmp \in [Names -> State \cup {NoFile, Torn}]
  BY Writers DEF MapInv, TypeOK
<1>2. WriteOpen(w) \/ WriteFill(w) \/ WriteRename(w) BY DEF WriteStep, WriteFail
<1>3. ASSUME NEW g \in Handler, g # w PROVE ReadOrder(g)' /\ KeptOrder(g)'
  <2>1. req'[g] = req[g] BY <1>2, <1>3 DEF WriteOpen, WriteFill, WriteRename, written
  <2>2. ReadOrder(g) /\ KeptOrder(g) BY DEF KeepInv
  <2>3. Restoring(g) => n # req[g].n BY <1>3 DEF Apart
  <2>4. \A m \in Names : m # n => file'[m] = file[m] /\ tmp'[m] = tmp[m]
    BY <1>1, <1>2 DEF WriteOpen, WriteFill, fillWith, WriteRename, fileVars
  <2>5. Restoring(g) => req[g].n \in Names BY Begun DEF Restoring
  <2>6. ASSUME req[g].pc = "writing" PROVE wr'[g] = wr[g]
    <3>1. wr[g].n # n BY <2>2, <2>3, <2>6 DEF ReadOrder, KeptOrder, Restoring
    <3> QED BY <1>1, <1>2, <1>3, <3>1 DEF WriteOpen, WriteFill, WriteRename
  <2>7. req[g].pc = "writing" => Restoring(g) BY <2>2 DEF ReadOrder, Restoring
  <2> QED BY <2>1, <2>3, <2>4, <2>5, <2>6, <2>7, KeepFrame
<1>4. ASSUME w \in Handler PROVE ReadOrder(w)' /\ KeptOrder(w)'
  <2>1. wr[w].pc # "idle" BY <1>2 DEF WriteOpen, WriteFill, WriteRename
  <2>2. req[w].pc = "writing" BY <1>4, <2>1 DEF MapInv, WriteOwner
  <2>3. ReadOrder(w) /\ KeptOrder(w) /\ req[w].n \in Names BY <1>4, <2>2, Begun DEF KeepInv
  <2>4. CASE WriteRename(w)
    <3>1. req'[w] = NoReq BY <1>4, <2>4 DEF WriteRename, written
    <3> QED BY <1>4, <3>1, KeepNoReq
  <2>5. CASE WriteOpen(w)
    <3> DEFINE d == [wr[w] EXCEPT !.pc = "fill", !.at = "tmp"]
    <3>1. d.pc = "fill" /\ d.at = "tmp" /\ d.n = wr[w].n /\ d.data = wr[w].data
      BY <1>1 DEF Write
    <3>2. wr' = [wr EXCEPT ![w] = d] /\ req' = req /\ file' = file BY <1>1, <2>5 DEF WriteOpen
    <3> HIDE DEF d
    <3>3. wr'[w] = d BY <1>1, <3>2
    <3> QED BY <2>2, <2>3, <3>1, <3>2, <3>3 DEF ReadOrder, KeptOrder
  <2>6. CASE WriteFill(w)
    <3> DEFINE d == [wr[w] EXCEPT !.pc = "rename"]
    <3>1. d.pc = "rename" /\ d.n = wr[w].n /\ d.data = wr[w].data BY <1>1 DEF Write
    <3>2. wr' = [wr EXCEPT ![w] = d] /\ req' = req BY <1>1, <2>6 DEF WriteFill
    <3>3. wr[w].at = "tmp" /\ n = req[w].n /\ wr[w].data = req[w].rd
      BY <2>2, <2>3, <2>6 DEF WriteFill, KeptOrder
    <3>4. tmp'[req[w].n] = req[w].rd BY <1>1, <2>3, <2>6, <3>3 DEF WriteFill, fillWith
    <3> HIDE DEF d
    <3>5. wr'[w] = d BY <1>1, <3>2
    <3> QED BY <2>2, <2>3, <3>1, <3>2, <3>4, <3>5 DEF ReadOrder, KeptOrder
  <2> QED BY <1>2, <2>4, <2>5, <2>6
<1> QED BY <1>3, <1>4 DEF KeepInv

LEMMA KeepServer ==
  ASSUME MapInv, KeepInv,
         \/ \E w \in {"saver", "stop"} : SaveNext(w)
         \/ \E s \in Sess : Output(s) \/ Exit(s) \/ WatcherStep(s)
         \/ Tick \/ Signal \/ Cancel \/ LockSessions \/ CloseNext \/ ResetSessions
  PROVE  KeepInv'
<1>1. file' = file /\ tmp' = tmp
  BY DEF SaveNext, Output, Exit, WatcherStep, WatchDone, WatchSave, WatchRemove, WatchDrain, Tick,
     Signal, Cancel, LockSessions, CloseNext, ResetSessions, fileVars
<1>2. \A h \in Handler : wr'[h] = wr[h]
  <2>1. wr' = wr \/ \E w \in {"saver", "stop"} \cup Sess : \E d : wr' = [wr EXCEPT ![w] = d]
    BY DEF SaveNext, Output, Exit, WatcherStep, WatchDone, WatchSave, WatchRemove, WatchDrain,
       BeginSave, Tick, Signal, Cancel, LockSessions, CloseNext, ResetSessions, writeVars
  <2>2. wr \in [Writer -> Write] /\ Handler \subseteq Writer BY Writers DEF MapInv, TypeOK
  <2>3. \A h \in Handler : h \notin {"saver", "stop"} \cup Sess BY Writers
  <2> QED BY <2>1, <2>2, <2>3
<1>3. \A h \in Handler : req'[h] = req[h] \/ req'[h] = NoReq
  <2>1. TypeReq BY DEF MapInv, TypeOK, TypeReq
  <2>2. CASE CloseNext BY <2>1, <2>2, Disconnected DEF CloseNext
  <2> QED
    BY <2>2 DEF SaveNext, Output, Exit, WatcherStep, WatchDone, WatchSave, WatchRemove, WatchDrain,
       Tick, Signal, Cancel, LockSessions, ResetSessions
<1> QED BY <1>1, <1>2, <1>3, KeepFiles

LEMMA KeepNext ==
  ASSUME Faults \cap {"write", "clean"} = {}
  PROVE  MapInv /\ KeepInv /\ Apart /\ [Next]_vars => KeepInv'
<1> SUFFICES ASSUME MapInv, KeepInv, Apart, [Next]_vars PROVE KeepInv'
  OBVIOUS
<1>1. CASE UNCHANGED vars
  <2>1. req' = req /\ wr' = wr /\ file' = file /\ tmp' = tmp
    BY <1>1 DEF vars, fileVars, writeVars
  <2> QED BY <2>1, KeepFiles
<1>2. ASSUME NEW h \in Handler, Request(h) \/ HandlerStep(h) PROVE KeepInv'
  BY <1>2, KeepQuiet, KeepRemoves, KeepOwn DEF HandlerStep
<1>3. ASSUME NEW w \in Writer, WriteStep(w) PROVE KeepInv'
  BY <1>3, KeepWrite
<1>4. CASE processGone \/ Restart
  <2>1. \A h \in Handler : req'[h] = NoReq
    BY <1>4 DEF processGone, Restart, MapInv, DownOrder
  <2> QED BY <2>1, KeepNoReq DEF KeepInv
<1>5. ~OtherDaemon BY DEF OtherDaemon
<1> QED
  BY <1>1, <1>2, <1>3, <1>4, <1>5, KeepServer DEF Next, ShutdownStep, ProcessExit, Crash

\* The requests that end: a restore that has read a state ends by itself, or
\* when it has attached.
LEMMA RestoreEnds ==
  ASSUME Faults \cap {"write", "clean"} = {}, MapInv, KeepInv, [Next]_vars, NEW h \in Handler,
         req[h].rd # NoFile, ~at(h, "attached"), req'[h].pc = "idle", stop' # "down"
  PROVE  file'[req[h].n] = req[h].rd
<1> USE DEF at
<1>1. ReadOrder(h) /\ KeptOrder(h) /\ OwnOrder(h) BY DEF KeepInv, MapInv
<1>2. /\ req[h].kind = "restore"
      /\ req[h].pc \notin {"idle", "lookup", "prepare", "names", "dir", "prune", "attached"}
  BY <1>1 DEF ReadOrder
<1>3. req'[h] # req[h] BY <1>2
<1>4. /\ TypeReq /\ req[h] \in RequestState /\ req[h].n \in Names
      /\ file \in [Names -> State \cup {NoFile, Torn}]
  BY <1>2, Begun DEF TypeFile
<1>5. ASSUME NEW g \in Handler, g # h, Request(g) \/ HandlerStep(g) PROVE FALSE
  <2>1. CASE CloseOwn(g)
    <3>1. \E r : req' = [disconnect(req[g].mine) EXCEPT ![g] = r] BY <2>1 DEF CloseOwn
    <3>2. req'[h] = disconnect(req[g].mine)[h] BY <1>4, <1>5, <3>1, Disconnected
    <3> QED BY <1>2, <1>3, <1>4, <3>2, Disconnected
  <2>2. CASE Start(g)
    <3>1. \E s \in Sess : req' = [req EXCEPT ![g].pc = "insert", ![g].mine = s]
      BY <2>2 DEF Start
    <3> QED BY <1>3, <1>4, <1>5, <3>1 DEF TypeReq
  <2>3. CASE ~CloseOwn(g) /\ ~Start(g)
    BY <1>3, <1>5, <2>3, NotInserting DEF HandlerStep
  <2> QED BY <2>1, <2>2, <2>3
<1>6. ASSUME Request(h) \/ HandlerStep(h) PROVE file'[req[h].n] = req[h].rd
  <2>1. ASSUME NEW l \in Places, l # "idle", goto(h, l) PROVE FALSE
    <3>1. req'[h].pc = l BY <1>4, <2>1, Going DEF Goes, Now
    <3> QED BY <2>1, <3>1
  <2>2. CASE PrepareNew(h) \/ PrepareForce(h) \/ PrepareRestore(h) \/ Lookup(h) \/ Request(h)
             \/ PruneNames(h) \/ PruneDir(h) \/ PruneNext(h) \/ Leave(h)
    BY <1>2, <2>2 DEF PrepareNew, PrepareForce, PrepareRestore, Lookup, Request, PruneNames,
       PruneDir, PruneNext, Leave
  <2>3. CASE Start(h)
    <3>1. req'[h].pc = "insert" BY <1>4, <2>3, Owning DEF Start, Places, Now
    <3> QED BY <3>1
  <2>4. CASE Insert(h)
    <3>1. req'[h].pc = "commit" BY <1>2, <1>4, <2>4 DEF Insert, TypeReq, RequestState
    <3> QED BY <3>1
  <2>5. CASE InsertExisting(h)
    <3>1. req'[h].pc = "close" BY <1>4, <2>5 DEF InsertExisting, TypeReq, RequestState
    <3> QED BY <3>1
  <2>6. CASE Commit(h) \/ CommitFail(h) \/ Join(h) \/ Abandon(h) \/ Rollback(h)
    BY <2>1, <2>6 DEF Commit, CommitFail, Join, Abandon, Rollback, Places
  <2>7. CASE JoinFail(h)
    <3>1. req[h].target = req[h].mine BY <1>1, <1>2, <2>7 DEF JoinFail, ReadOrder, OwnOrder
    <3>2. req'[h].pc = "abandon" BY <1>4, <2>7, <3>1 DEF JoinFail, TypeReq, RequestState
    <3> QED BY <3>2
  <2>8. CASE CloseOwn(h)
    <3> DEFINE r == [req[h] EXCEPT !.pc = req[h].after, !.mine = Nil]
    <3>1. req[h].pc = "close" /\ file' = file BY <2>8 DEF CloseOwn, fileVars
    <3>2. ASSUME req[h].after # "idle" PROVE FALSE
      <4>1. r.pc = req[h].after BY <1>4 DEF RequestState
      <4>2. req' = [disconnect(req[h].mine) EXCEPT ![h] = r] BY <2>8, <3>2 DEF CloseOwn
      <4> HIDE DEF r
      <4>3. req'[h] = r BY <1>4, <4>2, Disconnected
      <4> QED BY <3>2, <4>1, <4>3
    <3> QED BY <1>1, <1>2, <3>1, <3>2 DEF KeptOrder
  <2>9. CASE RequestFail(h)
    BY <1>1, <1>2, <2>9 DEF RequestFail, KeptOrder, fileVars
  <2> QED
    BY <1>6, <2>2, <2>3, <2>4, <2>5, <2>6, <2>7, <2>8, <2>9 DEF HandlerStep
<1>7. ASSUME NEW w \in Writer, WriteStep(w) PROVE file'[req[h].n] = req[h].rd
  <2>1. w = h /\ WriteRename(w)
    BY <1>3, <1>7 DEF WriteStep, WriteOpen, WriteFill, WriteRename, WriteFail, written
  <2>2. req[h].pc = "writing" BY <1>7, <2>1 DEF WriteRename, MapInv, WriteOwner
  <2>3. wr[h].n = req[h].n /\ tmp[req[h].n] = req[h].rd
    BY <1>1, <2>1, <2>2 DEF KeptOrder, WriteRename
  <2> QED BY <1>4, <2>1, <2>3 DEF WriteRename
<1>8. ASSUME CloseNext PROVE FALSE
  <2>1. PICK s : req' = disconnect(s) BY <1>8 DEF CloseNext
  <2> QED BY <1>2, <1>3, <1>4, <2>1, Disconnected
<1>9. ~processGone BY DEF processGone
<1> QED
  BY <1>3, <1>5, <1>6, <1>7, <1>8, <1>9 DEF Next, SaveNext, Output, Exit, WatcherStep, WatchDone,
     WatchSave, WatchRemove, WatchDrain, Tick, Signal, ShutdownStep, Cancel, LockSessions,
     ResetSessions, ProcessExit, Crash, Restart, OtherDaemon, vars

\* A restore that fails at any of its steps leaves the state file as it read it,
\* if from its reading on nobody else writes to that name or removes its state
\* file (Apart), writes succeed and no second daemon cleans the directory.
\* Before and between restores, and on other names at any time, any number of
\* handlers, savers and watchers are at work; the server may shut down.
THEOREM RegistryFailedRestoreKeeps ==
  ASSUME Faults \cap {"write", "clean"} = {}
  PROVE  Spec /\ []Apart => FailedRestoreKeeps
<1> DEFINE Keeps ==
      \A h \in Handler :
        /\ req[h].rd # NoFile /\ ~at(h, "attached") /\ req'[h].pc = "idle" /\ stop' # "down"
        => file'[req[h].n] = req[h].rd
<1>1. Init => KeepInv BY DEF Init, KeepInv, ReadOrder, KeptOrder, NoReq
<1>2. MapInv /\ KeepInv /\ Apart /\ [Next]_vars => KeepInv' BY KeepNext
<1>3. Spec /\ []Apart => []KeepInv BY <1>1, <1>2, MapInvariant, PTL DEF Spec
<1>4. MapInv /\ KeepInv /\ [Next]_vars => [Keeps]_vars BY RestoreEnds
<1>5. Spec /\ []Apart => [][Keeps]_vars
  <2> HIDE DEF Keeps
  <2> QED BY <1>3, <1>4, MapInvariant, PTL DEF Spec
<1> QED BY <1>5 DEF FailedRestoreKeeps
=============================================================================
