---------------------------- MODULE BatchUnwrapMC ----------------------------
(***************************************************************************)
(* Batches in which sources for a token, for two, for none and for a token *)
(* that nobody has beside them stand in any order.                         *)
(***************************************************************************)
EXTENDS BatchUnwrap

CONSTANTS t1, t2, n

AnyBatch ==
  [to  : [Source -> {{t1}, {t1, t2}, {n}, {t2, n}}],
   own : [Source -> {{t1}, {n}}]]
=============================================================================
