--------------------------------- MODULE Editor --------------------------------
(***************************************************************************)
(* LoadedSecret (src/editor.rs) and the part of edit::run it lives in: the *)
(* plaintext staged in a temporary file, $EDITOR run on it, the signals    *)
(* that arrive meanwhile, the re-read, and the wipe when it is dropped -   *)
(* which is after the rekey that the edit ends with.                       *)
(*                                                                         *)
(* A signal is dealt with between any two steps.  Until its handler is     *)
(* installed it kills the process; from then on, and for the rest of the   *)
(* process's life, it does nothing but set ABORTED.                        *)
(***************************************************************************)
EXTENDS Naturals, Sequences, FiniteSets

CONSTANTS
  Text,       \* contents a file may have, the empty one included
  Original,   \* the plaintext of the source
  Empty,      \* the empty text: nothing to wipe
  Zeros,      \* a text overwritten with zeros
  Absent      \* no file

ASSUME TextAssumption ==
  /\ {Original, Empty} \subseteq Text
  /\ Zeros \notin Text /\ Absent \notin Text /\ Zeros # Absent

VARIABLES
  pc,       \* the step the process is at
  caught,   \* the signals whose handler is installed
  aborted,  \* ABORTED
  child,    \* the editor: not started, running, exited well or badly
  file,     \* the temporary file
  bytes,    \* the plaintext in memory
  source,   \* the plaintext in the source file
  exit,     \* how the process ends: its status, or the signal
  heard,    \* history: a signal came between the reset and the check
  trouble   \* history: an I/O error befell the temporary file

vars == <<pc, caught, aborted, child, file, bytes, source, exit, heard, trouble>>

(* In the order their handlers are installed.                              *)
Signals == <<"INT", "TERM", "HUP">>
Signal == {Signals[i] : i \in DOMAIN Signals}

(* Every variable has its type; only texts are read back or saved.         *)
TypeOK ==
  /\ pc \in {"stage", "install", "reset", "spawn", "wait", "check", "reread",
             "save", "rekey", "wipe", "unlink", "ended"}
  /\ caught \in SUBSET Signal
  /\ aborted \in BOOLEAN
  /\ child \in {"none", "running", "ok", "bad"}
  /\ file \in Text \cup {Zeros, Absent}
  /\ bytes \in Text
  /\ source \in Text
  /\ exit \in {"none", "ok", "error", "KILL"} \cup Signal
  /\ heard \in BOOLEAN /\ trouble \in BOOLEAN

Init ==
  /\ pc = "stage"
  /\ caught = {} /\ aborted = FALSE
  /\ child = "none"
  /\ file = Absent
  /\ bytes = Original /\ source = Original
  /\ exit = "none"
  /\ heard = FALSE /\ trouble = FALSE

-----------------------------------------------------------------------------
(* The process *)

Step(from, to) == pc = from /\ pc' = to

(* A slip: an error ends the process without dropping the secret.          *)
FailUnwiped(from) == Step(from, "unlink") /\ exit' = "error"

(* An error returns from edit::run; the secret is dropped on the way.      *)
Fail(from) == Step(from, "wipe") /\ exit' = "error"

Stage ==
  /\ Step("stage", "install")
  /\ file' = bytes
  /\ UNCHANGED <<caught, aborted, child, bytes, source, exit, heard, trouble>>

(* The directory goes, with as much of the file as there is: there is no   *)
(* LoadedSecret yet whose drop would wipe it.                              *)
StageFails ==
  /\ Step("stage", "unlink")
  /\ file' \in {Absent, Empty, bytes}
  /\ exit' = "error"
  /\ trouble' = TRUE
  /\ UNCHANGED <<caught, aborted, child, bytes, source, heard>>

InstallHandler ==
  LET sig == Signals[Cardinality(caught) + 1] IN
  /\ Step("install", IF sig = Signals[Len(Signals)] THEN "reset" ELSE "install")
  /\ caught' = caught \cup {sig}
  /\ UNCHANGED <<aborted, child, file, bytes, source, exit, heard, trouble>>

ResetFlag ==
  /\ Step("reset", "spawn")
  /\ aborted' = FALSE
  /\ UNCHANGED <<caught, child, file, bytes, source, exit, heard, trouble>>

(* A slip: the flag is reset when the editor has been started.             *)
SpawnAndReset ==
  /\ Step("spawn", "wait")
  /\ child' = "running"
  /\ aborted' = FALSE
  /\ UNCHANGED <<caught, file, bytes, source, exit, heard, trouble>>

Spawn ==
  /\ Step("spawn", "wait")
  /\ child' = "running"
  /\ UNCHANGED <<caught, aborted, file, bytes, source, exit, heard, trouble>>

SpawnFails ==
  /\ Fail("spawn")
  /\ UNCHANGED <<caught, aborted, child, file, bytes, source, heard, trouble>>

(* A wait that a signal interrupts is resumed: only the editor's exit ends *)
(* it.                                                                     *)
Wait ==
  /\ child \in {"ok", "bad"}
  /\ IF child = "ok" THEN Step("wait", "check") /\ UNCHANGED exit
                     ELSE Fail("wait")
  /\ UNCHANGED <<caught, aborted, child, file, bytes, source, heard, trouble>>

(* A slip: the status of the editor is trusted to tell of signals.         *)
CheckNothing ==
  /\ Step("check", "reread")
  /\ UNCHANGED <<caught, aborted, child, file, bytes, source, exit, heard, trouble>>

CheckFlag ==
  /\ IF aborted THEN Fail("check") ELSE Step("check", "reread") /\ UNCHANGED exit
  /\ UNCHANGED <<caught, aborted, child, file, bytes, source, heard, trouble>>

(* A slip: a file that is gone is read as a text.                          *)
RereadAnything ==
  /\ IF file = bytes THEN Step("reread", "wipe") /\ exit' = "ok"
                     ELSE Step("reread", "save") /\ UNCHANGED exit
  /\ bytes' = file
  /\ UNCHANGED <<caught, aborted, child, file, source, heard, trouble>>

(* A slip: the default signal dispositions are restored after the editor.  *)
RereadAndRestore ==
  /\ file \in Text
  /\ IF file = bytes THEN Step("reread", "wipe") /\ exit' = "ok"
                     ELSE Step("reread", "save") /\ UNCHANGED exit
  /\ bytes' = file
  /\ caught' = {}
  /\ UNCHANGED <<aborted, child, file, source, heard, trouble>>

(* A slip: the staged plaintext stays the one in hand.                     *)
RereadForDigest ==
  /\ file \in Text
  /\ IF file = bytes THEN Step("reread", "wipe") /\ exit' = "ok"
                     ELSE Step("reread", "save") /\ UNCHANGED exit
  /\ UNCHANGED <<caught, aborted, child, file, bytes, source, heard, trouble>>

(* The text is compared, by digest, with the one in memory, and takes its  *)
(* place.                                                                  *)
Reread ==
  /\ file \in Text
  /\ IF file = bytes THEN Step("reread", "wipe") /\ exit' = "ok"
                     ELSE Step("reread", "save") /\ UNCHANGED exit
  /\ bytes' = file
  /\ UNCHANGED <<caught, aborted, child, file, source, heard, trouble>>

(* The editor may have removed the file.                                   *)
RereadFails ==
  /\ Fail("reread")
  /\ UNCHANGED <<caught, aborted, child, file, bytes, source, heard, trouble>>

(* edit::run: the source is replaced, then comes a whole rekey.            *)
Save ==
  /\ Step("save", "rekey")
  /\ source' = bytes
  /\ UNCHANGED <<caught, aborted, child, file, bytes, exit, heard, trouble>>

SaveFails ==
  /\ Fail("save")
  /\ source' \in {source, bytes}
  /\ UNCHANGED <<caught, aborted, child, file, bytes, heard, trouble>>

Rekey ==
  /\ Step("rekey", "wipe")
  /\ exit' \in {"ok", "error"}
  /\ UNCHANGED <<caught, aborted, child, file, bytes, source, heard, trouble>>

(* Drop: overwrite what is on disk, then unlink it.                        *)
Wipe ==
  /\ Step("wipe", "unlink")
  /\ file' = IF file \in {Empty, Absent} THEN file ELSE Zeros
  /\ UNCHANGED <<caught, aborted, child, bytes, source, exit, heard, trouble>>

WipeFails ==
  /\ Step("wipe", "unlink")
  /\ trouble' = TRUE
  /\ UNCHANGED <<caught, aborted, child, file, bytes, source, exit, heard>>

(* TempDir removes itself if it can.                                       *)
Unlink ==
  /\ Step("unlink", "ended")
  /\ file' \in {Absent, file}
  /\ UNCHANGED <<caught, aborted, child, bytes, source, exit, heard, trouble>>

Process ==
  \/ Stage \/ StageFails \/ InstallHandler \/ ResetFlag
  \/ Spawn \/ SpawnFails \/ Wait \/ CheckFlag
  \/ Reread \/ RereadFails \/ Save \/ SaveFails \/ Rekey
  \/ Wipe \/ WipeFails \/ Unlink

-----------------------------------------------------------------------------
(* The editor and the user *)

(* The user saves, or the editor removes the file.                         *)
EditorWrites ==
  /\ child = "running"
  /\ file' \in (Text \cup {Absent}) \ {file}
  /\ UNCHANGED <<pc, caught, aborted, child, bytes, source, exit, heard, trouble>>

EditorExits ==
  /\ child = "running"
  /\ child' \in {"ok", "bad"}
  /\ UNCHANGED <<pc, caught, aborted, file, bytes, source, exit, heard, trouble>>

(* A signal reaches the process.  What the editor does with one sent to    *)
(* both of them is up to the editor.                                       *)
Deliver(sig) ==
  /\ pc # "ended"
  /\ IF sig \in caught
     THEN /\ aborted' = TRUE
          /\ heard' = (heard \/ pc \in {"spawn", "wait", "check"})
          /\ UNCHANGED <<pc, exit>>
     ELSE pc' = "ended" /\ exit' = sig /\ UNCHANGED <<aborted, heard>>
  /\ UNCHANGED <<caught, child, file, bytes, source, trouble>>

Kill ==
  /\ pc # "ended"
  /\ pc' = "ended" /\ exit' = "KILL"
  /\ UNCHANGED <<caught, aborted, child, file, bytes, source, heard, trouble>>

Next ==
  \/ Process
  \/ EditorWrites
  \/ EditorExits
  \/ \E sig \in Signal : Deliver(sig)
  \/ Kill

(* The process runs on and the user closes the editor at last; nobody need *)
(* send a signal.                                                          *)
Spec == Init /\ [][Next]_vars /\ WF_vars(Process) /\ WF_vars(EditorExits)

-----------------------------------------------------------------------------
(* What it promises *)

(* A signal that arrives from the reset of the flag until its check stops  *)
(* the edit, whatever the editor makes of it: the source stays as it was.  *)
HeedsSignals == heard => source = Original

(* A signal of the three that have a handler kills the process only before *)
(* the editor was started: never between the save and the end of the       *)
(* rekey, and never with an edited text left on disk.  The staged text may *)
(* be left, when the signal comes before the handlers.                     *)
SignalsNeverTear == exit \in Signal => child = "none" /\ source = Original

(* An edit that goes on to rekey has saved what an editor that exited well *)
(* left in the file, and is not the text it was given; nor is anything     *)
(* else ever written to the source.                                        *)
SavesWhatEditorLeft ==
  [][source' # source \/ pc' = "rekey" =>
       /\ child = "ok" /\ file \in Text
       /\ source' = file /\ source' # Original]_vars

(* Unless an I/O error befell the staged file, it holds no plaintext when  *)
(* its directory is unlinked, whichever way the edit went.  When one did - *)
(* staging failed half-way, say - nothing is promised.                     *)
WipedBeforeUnlink ==
  [][pc = "unlink" /\ pc' = "ended" /\ exit' = exit /\ ~trouble
       => file \in {Zeros, Empty, Absent}]_vars

(* The edit session implements its abstract specification.                 *)
Session == INSTANCE EditSession WITH
  phase <- CASE pc = "save"                        -> "saving"
             [] pc = "rekey"                       -> "deploying"
             [] pc \in {"wipe", "unlink", "ended"} -> "done"
             [] OTHER                              -> "editing",
  text <- bytes,
  interrupted <- heard

(* Every behaviour of an edit is one of the session, which ends at last.   *)
SessionSpec == Session!Spec

=============================================================================
