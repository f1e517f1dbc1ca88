------------------------------ MODULE EditSession -----------------------------
(***************************************************************************)
(* What an edit promises, whatever signals, editors and disks do: the      *)
(* source is replaced at most once, by the text the editor left, never     *)
(* when the edit was interrupted, and every edit comes to its end.  The    *)
(* module Editor implements this; Edit uses it, as the steps EditorSaves,  *)
(* EditorGivesUp, Save and SaveFails.                                      *)
(***************************************************************************)
CONSTANTS Text, Original

VARIABLES
  phase,        \* "editing", "saving", "deploying" or "done"
  text,         \* the plaintext in hand
  source,       \* the plaintext in the source file
  interrupted   \* whether a signal asked for an end while editing

vars == <<phase, text, source, interrupted>>

Init ==
  /\ phase = "editing"
  /\ text = Original
  /\ source = Original
  /\ interrupted = FALSE

Interrupt ==
  /\ phase = "editing"
  /\ interrupted' = TRUE
  /\ UNCHANGED <<phase, text, source>>

(* The editor leaves another text than the one it was given.               *)
Modify ==
  /\ phase = "editing"
  /\ ~interrupted
  /\ text' \in Text \ {text}
  /\ phase' = "saving"
  /\ UNCHANGED <<source, interrupted>>

Store ==
  /\ phase = "saving"
  /\ source' = text
  /\ phase' = "deploying"
  /\ UNCHANGED <<text, interrupted>>

(* The end, for whatever reason: nothing to save, an error, a kill; a      *)
(* write that fails may have replaced the source.                          *)
End ==
  /\ phase # "done"
  /\ phase' = "done"
  /\ source' \in IF phase = "saving" THEN {source, text} ELSE {source}
  /\ UNCHANGED <<text, interrupted>>

Next == Interrupt \/ Modify \/ Store \/ End

Spec == Init /\ [][Next]_vars /\ WF_vars(Modify \/ Store \/ End)

=============================================================================
