------------------------------- MODULE AtomicFile ------------------------------
(***************************************************************************)
(* What the commands take write_atomic for: a file that always holds one   *)
(* whole version.  A version replaces another at once; a power cut may     *)
(* undo replacements that have not settled, and nothing else.              *)
(***************************************************************************)
CONSTANTS Version, Old

VARIABLES
  value,    \* the version a reader finds
  possible  \* the versions that a power cut may leave

vars == <<value, possible>>

Init == value = Old /\ possible = {Old}

Replace ==
  /\ value' \in Version
  /\ possible' = possible \cup {value'}

(* Other versions than the present one are out of reach of a power cut.    *)
Settle ==
  /\ possible' \in SUBSET possible
  /\ value \in possible'
  /\ UNCHANGED value

PowerCut ==
  /\ value' \in possible
  /\ possible' = {value'}

Spec == Init /\ [][Replace \/ Settle \/ PowerCut]_vars

=============================================================================
