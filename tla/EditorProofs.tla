------------------------------ MODULE EditorProofs -----------------------------
(***************************************************************************)
(* Theorems about Editor for any texts: signals are heeded and tear        *)
(* nothing, only what the editor left is saved, the plaintext is wiped,    *)
(* and the session implements the safety part of EditSession.              *)
(***************************************************************************)
EXTENDS Editor, FiniteSetTheorems, TLAPS

(* Handlers are installed one by one, in the order of Signals; when the    *)
(* editor is started all of them are, and they stay.                       *)
Handlers ==
  /\ pc = "stage" => caught = {}
  /\ pc = "install" => caught \in {{}, {"INT"}, {"INT", "TERM"}}
  /\ pc \in {"reset", "spawn", "wait", "check", "reread", "save", "rekey", "wipe"}
       => caught = Signal
  /\ child # "none" \/ source # Original => caught = Signal \/ pc = "ended"

(* Before the editor is started nothing has happened to the source, and    *)
(* until the save nothing but the editor ran.                              *)
Progressing ==
  /\ pc \in {"stage", "install", "reset", "spawn"} => child = "none"
  /\ pc \in {"stage", "install", "reset", "spawn", "wait", "check", "reread", "save"}
       => source = Original

(* A signal that is heard leaves the flag up to its check, and no edit     *)
(* gets past the check with the flag up.                                   *)
Heeding ==
  heard => /\ source = Original
           /\ \/ pc \in {"spawn", "wait", "check"} /\ aborted
              \/ pc \in {"wipe", "unlink", "ended"}

Dying ==
  exit \in Signal => pc = "ended" /\ child = "none" /\ source = Original

(* Until it is re-read the text in memory is the original; past that, it   *)
(* is what an editor that exited well left in the file, and another text.  *)
Keeping ==
  /\ pc \in {"stage", "install", "reset", "spawn", "wait", "check", "reread"}
       => bytes = Original
  /\ pc \in {"check", "reread", "save", "rekey"} => child = "ok"
  /\ pc \in {"save", "rekey"} => file = bytes /\ bytes # Original
  /\ pc = "rekey" => source = bytes

(* No editor is left that could write, and what is about to be unlinked is *)
(* wiped.                                                                  *)
Wiping ==
  /\ pc \in {"wipe", "unlink"} => child # "running"
  /\ pc = "unlink" /\ ~trouble => file \in {Zeros, Empty, Absent}

Inv ==
  TypeOK /\ Handlers /\ Progressing /\ Heeding /\ Dying /\ Keeping /\ Wiping

-----------------------------------------------------------------------------

(* The signals that are caught.                                            *)
LEMMA SignalSet == Signal = {"INT", "TERM", "HUP"} /\ Len(Signals) = 3
<1>1. Signals = <<"INT", "TERM", "HUP">> /\ Len(Signals) = 3 /\ DOMAIN Signals = 1 .. 3
  BY DEF Signals
<1>2. Signals[1] = "INT" /\ Signals[2] = "TERM" /\ Signals[3] = "HUP"
  BY DEF Signals
<1> QED
  BY <1>1, <1>2 DEF Signal

(* The handler that is installed next.                                     *)
LEMMA NextHandler ==
  ASSUME caught \in {{}, {"INT"}, {"INT", "TERM"}}
  PROVE  LET sig == Signals[Cardinality(caught) + 1] IN
         \/ caught = {} /\ sig = "INT"
         \/ caught = {"INT"} /\ sig = "TERM"
         \/ caught = {"INT", "TERM"} /\ sig = "HUP"
<1>1. Cardinality({}) = 0 /\ IsFiniteSet({})
  BY FS_EmptySet
<1>2. Cardinality({"INT"}) = 1 /\ IsFiniteSet({"INT"})
  BY FS_Singleton
<1>3. Cardinality({"INT", "TERM"}) = 2
  <2>1. {"INT", "TERM"} = {"INT"} \cup {"TERM"} /\ "TERM" \notin {"INT"}
    OBVIOUS
  <2> QED
    BY <1>2, <2>1, FS_AddElement
<1>4. Signals[1] = "INT" /\ Signals[2] = "TERM" /\ Signals[3] = "HUP"
  BY DEF Signals
<1>5. CASE caught = {}
  BY <1>1, <1>4, <1>5
<1>6. CASE caught = {"INT"}
  BY <1>2, <1>4, <1>6
<1>7. CASE caught = {"INT", "TERM"}
  BY <1>3, <1>4, <1>7
<1> QED
  BY <1>5, <1>6, <1>7

(* The initial states satisfy the invariant.                               *)
LEMMA InitInv == Init => Inv
  BY TextAssumption, SignalSet
     DEF Init, Inv, TypeOK, Handlers, Progressing, Heeding, Dying, Keeping, Wiping

(* Installing a handler keeps the invariant.                               *)
LEMMA InstallHandlerInv == Inv /\ InstallHandler => Inv'
<1> SUFFICES ASSUME Inv, InstallHandler PROVE Inv'
  OBVIOUS
<1> DEFINE sig == Signals[Cardinality(caught) + 1]
<1>1. pc = "install" /\ caught \in {{}, {"INT"}, {"INT", "TERM"}}
  BY DEF InstallHandler, Step, Inv, Handlers
<1>2. \/ caught = {} /\ sig = "INT"
      \/ caught = {"INT"} /\ sig = "TERM"
      \/ caught = {"INT", "TERM"} /\ sig = "HUP"
  BY <1>1, NextHandler
<1>3. /\ pc' = IF sig = "HUP" THEN "reset" ELSE "install"
      /\ caught' = caught \cup {sig}
      /\ UNCHANGED <<aborted, child, file, bytes, source, exit, heard, trouble>>
  BY SignalSet DEF InstallHandler, Step, Signals
<1>4. \/ pc' = "install" /\ caught' \in {{"INT"}, {"INT", "TERM"}}
      \/ pc' = "reset" /\ caught' = {"INT", "TERM", "HUP"}
  BY <1>2, <1>3
<1>5. child = "none" /\ source = Original /\ bytes = Original /\ ~heard
  BY <1>1 DEF Inv, Progressing, Heeding, Keeping
<1> QED
  BY <1>1, <1>3, <1>4, <1>5, SignalSet
     DEF Inv, TypeOK, Handlers, Progressing, Heeding, Dying, Keeping, Wiping

(* So does every other step of the process,                                *)
LEMMA ProcessInv == Inv /\ Process => Inv'
<1> SUFFICES ASSUME Inv, Process PROVE Inv'
  OBVIOUS
<1> USE TextAssumption, SignalSet
<1> USE DEF Inv, TypeOK, Handlers, Progressing, Heeding, Dying, Keeping, Wiping,
          Step, Fail
<1>1. CASE Stage
  BY <1>1 DEF Stage
<1>2. CASE StageFails
  BY <1>2 DEF StageFails
<1>3. CASE InstallHandler
  BY <1>3, InstallHandlerInv
<1>4. CASE ResetFlag
  BY <1>4 DEF ResetFlag
<1>5. CASE Spawn
  BY <1>5 DEF Spawn
<1>6. CASE SpawnFails
  BY <1>6 DEF SpawnFails
<1>7. CASE Wait
  BY <1>7 DEF Wait
<1>8. CASE CheckFlag
  BY <1>8 DEF CheckFlag
<1>9. CASE Reread
  BY <1>9 DEF Reread
<1>10. CASE RereadFails
  BY <1>10 DEF RereadFails
<1>11. CASE Save
  BY <1>11 DEF Save
<1>12. CASE SaveFails
  BY <1>12 DEF SaveFails
<1>13. CASE Rekey
  BY <1>13 DEF Rekey
<1>14. CASE Wipe
  BY <1>14 DEF Wipe
<1>15. CASE WipeFails
  BY <1>15 DEF WipeFails
<1>16. CASE Unlink
  BY <1>16 DEF Unlink
<1> QED
  BY <1>1, <1>2, <1>3, <1>4, <1>5, <1>6, <1>7, <1>8, <1>9, <1>10, <1>11,
     <1>12, <1>13, <1>14, <1>15, <1>16 DEF Process

(* and whatever the editor, the user and signals do.                       *)
LEMMA NextInv == Inv /\ [Next]_vars => Inv'
<1> SUFFICES ASSUME Inv, [Next]_vars PROVE Inv'
  OBVIOUS
<1> USE SignalSet
<1> USE DEF Inv, TypeOK, Handlers, Progressing, Heeding, Dying, Keeping, Wiping
<1>1. CASE UNCHANGED vars
  BY <1>1 DEF vars
<1>2. CASE Process
  BY <1>2, ProcessInv
<1>3. CASE EditorWrites
  BY <1>3 DEF EditorWrites
<1>4. CASE EditorExits
  BY <1>4 DEF EditorExits
<1>5. ASSUME NEW sig \in Signal, Deliver(sig) PROVE Inv'
  <2>1. CASE sig \in caught
    BY <1>5, <2>1 DEF Deliver
  <2>2. CASE sig \notin caught
    BY <1>5, <2>2 DEF Deliver
  <2> QED
    BY <2>1, <2>2
<1>6. CASE Kill
  BY <1>6 DEF Kill
<1> QED
  BY <1>1, <1>2, <1>3, <1>4, <1>5, <1>6 DEF Next

(* The inductive invariant holds throughout.                               *)
THEOREM Invariance == Spec => []Inv
  BY InitInv, NextInv, PTL DEF Spec

(* Every variable keeps its type.                                          *)
THEOREM TypeCorrect == Spec => []TypeOK
<1>1. Inv => TypeOK
  BY DEF Inv
<1> QED
  BY Invariance, <1>1, PTL

(* A signal between the reset of the flag and its check stops the edit.    *)
THEOREM SignalsHeeded == Spec => []HeedsSignals
<1>1. Inv => HeedsSignals
  BY DEF Inv, Heeding, HeedsSignals
<1> QED
  BY Invariance, <1>1, PTL

(* A signal kills the process only before the editor was started.          *)
THEOREM NothingTorn == Spec => []SignalsNeverTear
<1>1. Inv => SignalsNeverTear
  BY DEF Inv, Dying, SignalsNeverTear
<1> QED
  BY Invariance, <1>1, PTL

(* An edit that goes on to rekey has saved what an editor that exited well *)
(* left in the file, and not the text it was given.                        *)
THEOREM SavedIsLeft == Spec => SavesWhatEditorLeft
<1>1. Inv /\ [Next]_vars =>
        [source' # source \/ pc' = "rekey" =>
           /\ child = "ok" /\ file \in Text
           /\ source' = file /\ source' # Original]_vars
  <2> DEFINE Saved ==
        source' # source \/ pc' = "rekey" =>
          /\ child = "ok" /\ file \in Text
          /\ source' = file /\ source' # Original
  <2> SUFFICES ASSUME Inv, Next PROVE Saved
    OBVIOUS
  <2> USE DEF Inv, TypeOK, Keeping
  <2>1. CASE Process
    <3> USE <2>1 DEF Process, Step, Fail
    <3>1. CASE Save
      BY <3>1 DEF Save
    <3>2. CASE SaveFails
      BY <3>2 DEF SaveFails
    <3>3. CASE InstallHandler
      <4>1. pc' \in {"install", "reset"} /\ source' = source
        BY <3>3 DEF InstallHandler
      <4> QED
        BY <4>1
    <3>4. CASE ~Save /\ ~SaveFails /\ ~InstallHandler
      <4>1. source' = source /\ pc' # "rekey"
        BY <3>4 DEF Stage, StageFails, ResetFlag, Spawn, SpawnFails, Wait, CheckFlag,
             Reread, RereadFails, Rekey, Wipe, WipeFails, Unlink
      <4> QED
        BY <4>1
    <3> QED
      BY <3>1, <3>2, <3>3, <3>4
  <2>2. CASE EditorWrites \/ EditorExits
    BY <2>2 DEF EditorWrites, EditorExits
  <2>3. ASSUME NEW sig \in Signal, Deliver(sig) PROVE Saved
    BY <2>3 DEF Deliver
  <2>4. CASE Kill
    BY <2>4 DEF Kill
  <2> QED
    BY <2>1, <2>2, <2>3, <2>4 DEF Next
<1> QED
  BY Invariance, <1>1, PTL DEF Spec, SavesWhatEditorLeft

(* Nothing is unlinked unwiped, unless an I/O error prevented the wipe.    *)
THEOREM UnlinkedIsWiped == Spec => WipedBeforeUnlink
<1>1. Inv /\ [Next]_vars =>
        [pc = "unlink" /\ pc' = "ended" /\ exit' = exit /\ ~trouble
           => file \in {Zeros, Empty, Absent}]_vars
  BY DEF Inv, Wiping
<1> QED
  BY Invariance, <1>1, PTL DEF Spec, WipedBeforeUnlink

-----------------------------------------------------------------------------
(* The refinement *)

(* Every step of the process is one of the session, or leaves it alone.    *)
LEMMA ProcessRefines == Inv /\ Process => [Session!Next]_(Session!vars)
<1> SUFFICES ASSUME Inv, Process PROVE [Session!Next]_(Session!vars)
  OBVIOUS
<1> USE DEF Inv, TypeOK, Heeding, Step, Fail, Session!Next, Session!vars
<1>1. CASE Stage
  BY <1>1 DEF Stage
<1>2. CASE StageFails
  BY <1>2 DEF StageFails, Session!End
<1>3. CASE InstallHandler
  <2>1. /\ pc = "install" /\ pc' \in {"install", "reset"}
        /\ UNCHANGED <<bytes, source, heard>>
    BY <1>3 DEF InstallHandler
  <2> QED
    BY <2>1
<1>4. CASE ResetFlag
  BY <1>4 DEF ResetFlag
<1>5. CASE Spawn
  BY <1>5 DEF Spawn
<1>6. CASE SpawnFails
  BY <1>6 DEF SpawnFails, Session!End
<1>7. CASE Wait
  BY <1>7 DEF Wait, Session!End
<1>8. CASE CheckFlag
  BY <1>8 DEF CheckFlag, Session!End
<1>9. CASE Reread
  BY <1>9 DEF Reread, Session!End, Session!Modify
<1>10. CASE RereadFails
  BY <1>10 DEF RereadFails, Session!End
<1>11. CASE Save
  BY <1>11 DEF Save, Session!Store
<1>12. CASE SaveFails
  BY <1>12 DEF SaveFails, Session!End
<1>13. CASE Rekey
  BY <1>13 DEF Rekey, Session!End
<1>14. CASE Wipe
  BY <1>14 DEF Wipe
<1>15. CASE WipeFails
  BY <1>15 DEF WipeFails
<1>16. CASE Unlink
  BY <1>16 DEF Unlink
<1> QED
  BY <1>1, <1>2, <1>3, <1>4, <1>5, <1>6, <1>7, <1>8, <1>9, <1>10, <1>11,
     <1>12, <1>13, <1>14, <1>15, <1>16 DEF Process

(* The safety part of the session's specification: at most one write, of   *)
(* the text the editor left, and none after an interrupt.                  *)
THEOREM SessionSafety == Spec => Session!Init /\ [][Session!Next]_(Session!vars)
<1>1. Init => Session!Init
  BY DEF Init, Session!Init
<1>2. Inv /\ [Next]_vars => [Session!Next]_(Session!vars)
  <2> SUFFICES ASSUME Inv, [Next]_vars PROVE [Session!Next]_(Session!vars)
    OBVIOUS
  <2> USE DEF Session!Next, Session!vars
  <2>1. CASE UNCHANGED vars
    BY <2>1 DEF vars
  <2>2. CASE Process
    BY <2>2, ProcessRefines
  <2>3. CASE EditorWrites \/ EditorExits
    BY <2>3 DEF EditorWrites, EditorExits
  <2>4. ASSUME NEW sig \in Signal, Deliver(sig) PROVE [Session!Next]_(Session!vars)
    <3>1. CASE sig \notin caught
      BY <2>4, <3>1 DEF Deliver, Session!End
    <3>2. CASE sig \in caught /\ pc \in {"spawn", "wait", "check"}
      BY <2>4, <3>2 DEF Deliver, Session!Interrupt
    <3>3. CASE sig \in caught /\ pc \notin {"spawn", "wait", "check"}
      BY <2>4, <3>3 DEF Deliver, Inv, TypeOK
    <3> QED
      BY <3>1, <3>2, <3>3
  <2>5. CASE Kill
    BY <2>5 DEF Kill, Session!End
  <2> QED
    BY <2>1, <2>2, <2>3, <2>4, <2>5 DEF Next
<1> QED
  BY Invariance, <1>1, <1>2, PTL DEF Spec

=============================================================================
