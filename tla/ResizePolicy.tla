---------------------------- MODULE ResizePolicy ----------------------------
(***************************************************************************)
(* How a session that several terminals look at chooses its one size       *)
(* (applyResizePolicy in session_clients.go, ResizePolicy in config.go).   *)
(*                                                                         *)
(* The code passes a slice of sizes in the order in which the clients      *)
(* joined.  The order matters to two of the four policies only, so the     *)
(* slice is a set of candidates here, each carrying the number the session *)
(* gave its client: the first element of the slice is the candidate with   *)
(* the least number.  Pixel dimensions ride along with cols and rows and   *)
(* are never compared by the callers; they are left out.                   *)
(***************************************************************************)
EXTENDS Integers, FiniteSets, FiniteSetsExt

MaxUint16 == 65535

Uint16 == 0 .. MaxUint16

TermSize == [cols : Uint16, rows : Uint16]

Candidate == [id : Nat, size : TermSize]

Policies == {"smallest", "largest", "first", "last"}

Joined(cand, i) == (CHOOSE x \in cand : x.id = i).size

applyResizePolicy(policy, cand) ==
  CASE policy = "largest" -> [cols |-> Max({x.size.cols : x \in cand}),
                              rows |-> Max({x.size.rows : x \in cand})]
    [] policy = "last"    -> Joined(cand, Max({x.id : x \in cand}))
    [] policy = "first"   -> Joined(cand, Min({x.id : x \in cand}))
    [] OTHER              -> [cols |-> Min({x.size.cols : x \in cand}),
                              rows |-> Min({x.size.rows : x \in cand})]
=============================================================================
