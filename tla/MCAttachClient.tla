--------------------------- MODULE MCAttachClient ---------------------------
(***************************************************************************)
(* AttachClient with one bound on all that happens around RunAttach: the   *)
(* session's output, the dump included, its end, keys, resizes and a       *)
(* terminal or connection that breaks.  No step of the client or of the    *)
(* handler counts, so the bound never keeps one of them waiting.           *)
(***************************************************************************)
EXTENDS AttachClient

CONSTANT MaxEvent     \* bound

Count(b) == IF b THEN 1 ELSE 0

Events ==
  out + keys + resizes + Count(ended) + Count(broken) + Count(peer = "torn")

MCNext == Next /\ Events' <= MaxEvent

MCSpec == Init /\ [][MCNext]_vars /\ Fairness
=============================================================================
