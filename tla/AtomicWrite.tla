------------------------------- MODULE AtomicWrite -----------------------------
(***************************************************************************)
(* write_atomic (src/fs.rs), system call by system call, with several      *)
(* processes that write one file - an output, a source or the manifest -   *)
(* any failure of a call, kills, and power cuts.                           *)
(*                                                                         *)
(* After a power cut the data of a file is what was synced, more or less,  *)
(* and a directory entry is what was last synced or any later one.         *)
(***************************************************************************)
CONSTANTS
  Writer,   \* calls of write_atomic for one destination
  Old,      \* what is there before, which may be nothing
  Torn      \* what is no version: a part of one

ASSUME WriterAssumption == Old \notin Writer

(* A version of the file is named by the call that wrote it.               *)
Version == Writer \cup {Old}

VARIABLES
  pc,        \* the step of each call
  temp,      \* the calls whose temporary file is in the directory
  data,      \* how much of a call's bytes its file has
  onDisk,    \* how much of it is synced
  dst,       \* the version the destination's entry leads to
  unsynced,  \* entries that a power cut may leave: the last synced, later ones
  parent     \* the directory: "missing", "created" by a call, or "there" before

vars == <<pc, temp, data, onDisk, dst, unsynced, parent>>

(* Every variable has its type; no entry leads to a part of a version.     *)
TypeOK ==
  /\ pc \in [Writer -> {"mkdir", "create", "write", "sync", "persist",
                        "sync dir", "ok", "error", "dead"}]
  /\ temp \in SUBSET Writer
  /\ data \in [Writer -> {"part", "whole"}]
  /\ onDisk \in [Writer -> {"part", "whole"}]
  /\ dst \in Version
  /\ unsynced \in SUBSET Version
  /\ parent \in {"missing", "created", "there"}

Init ==
  /\ pc = [w \in Writer |-> "mkdir"]
  /\ temp = {}
  /\ data = [w \in Writer |-> "part"]
  /\ onDisk = [w \in Writer |-> "part"]
  /\ dst = Old
  /\ unsynced = {Old}
  /\ parent \in {"missing", "there"}

-----------------------------------------------------------------------------
(* The calls write_atomic makes *)

Step(w, from, to) == pc[w] = from /\ pc' = [pc EXCEPT ![w] = to]

CreateDir(w) ==
  /\ Step(w, "mkdir", "create")
  /\ parent' = IF parent = "missing" THEN "created" ELSE parent
  /\ UNCHANGED <<temp, data, onDisk, dst, unsynced>>

CreateTemp(w) ==
  /\ Step(w, "create", "write")
  /\ parent # "missing"
  /\ temp' = temp \cup {w}
  /\ UNCHANGED <<data, onDisk, dst, unsynced, parent>>

Write(w) ==
  /\ Step(w, "write", "sync")
  /\ data' = [data EXCEPT ![w] = "whole"]
  /\ UNCHANGED <<temp, onDisk, dst, unsynced, parent>>

(* A slip: the file is flushed, not synced.                                *)
FlushOnly(w) ==
  /\ Step(w, "sync", "persist")
  /\ UNCHANGED <<temp, data, onDisk, dst, unsynced, parent>>

SyncFile(w) ==
  /\ Step(w, "sync", "persist")
  /\ onDisk' = [onDisk EXCEPT ![w] = data[w]]
  /\ UNCHANGED <<temp, data, dst, unsynced, parent>>

(* A slip: the destination is removed to make room.                        *)
RemoveFirst(w) ==
  /\ IF dst = Torn THEN Step(w, "persist", "sync dir") /\ dst' = w
                   ELSE Step(w, "persist", "persist") /\ dst' = Torn
  /\ temp' = IF dst = Torn THEN temp \ {w} ELSE temp
  /\ unsynced' = unsynced \cup {dst'}
  /\ UNCHANGED <<data, onDisk, parent>>

(* The temporary file takes the destination's name.                        *)
Persist(w) ==
  /\ Step(w, "persist", "sync dir")
  /\ temp' = temp \ {w}
  /\ dst' = w
  /\ unsynced' = unsynced \cup {w}
  /\ UNCHANGED <<data, onDisk, parent>>

(* A slip: the directory is not synced.                                    *)
LeaveDir(w) ==
  /\ Step(w, "sync dir", "ok")
  /\ UNCHANGED <<temp, data, onDisk, dst, unsynced, parent>>

(* Every rename so far is made durable - but not the entry of a directory  *)
(* just created, which is in a directory of its own.                       *)
SyncDir(w) ==
  /\ Step(w, "sync dir", "ok")
  /\ unsynced' = {dst} \cup (IF parent = "created" THEN unsynced \cap {Old} ELSE {})
  /\ UNCHANGED <<temp, data, onDisk, dst, parent>>

(* A call fails; a temporary file is removed as it is dropped.             *)
Fails(w) ==
  /\ pc[w] \in {"mkdir", "create", "write", "sync", "persist", "sync dir"}
  /\ pc' = [pc EXCEPT ![w] = "error"]
  /\ temp' = temp \ {w}
  /\ UNCHANGED <<data, onDisk, dst, unsynced, parent>>

(* The process is killed; its temporary file stays.                        *)
Kill(w) ==
  /\ pc[w] \in {"create", "write", "sync", "persist", "sync dir"}
  /\ pc' = [pc EXCEPT ![w] = "dead"]
  /\ UNCHANGED <<temp, data, onDisk, dst, unsynced, parent>>

(* Everything that runs ends, and what was not synced may be lost; a       *)
(* directory just created may go with all that is in it.                   *)
PowerCut ==
  /\ pc' = [w \in Writer |-> IF pc[w] \in {"mkdir", "ok", "error"} THEN pc[w]
                                                                  ELSE "dead"]
  /\ dst' \in unsynced
  /\ unsynced' = {dst'}
  /\ \/ parent' = parent
     \/ parent = "created" /\ dst' = Old /\ parent' = "missing"
  /\ temp' = IF parent' = "missing" THEN {} ELSE temp
  /\ data' = onDisk
  /\ UNCHANGED onDisk

Next ==
  \/ \E w \in Writer :
       \/ CreateDir(w) \/ CreateTemp(w) \/ Write(w) \/ SyncFile(w)
       \/ Persist(w) \/ SyncDir(w) \/ Fails(w) \/ Kill(w)
  \/ PowerCut

Spec == Init /\ [][Next]_vars

-----------------------------------------------------------------------------
(* What it promises *)

(* Once a call has returned, a power cut does not bring back what was      *)
(* there before - if the directory was there, too.                         *)
OkIsDurable ==
  [][\A w \in Writer :
       pc[w] = "ok" /\ parent = "there" /\ dst # Old => dst' # Old]_vars

(* What an entry leads to, given how much of each file there is.           *)
Seen(v, bytes) == IF v = Old \/ bytes[v] = "whole" THEN v ELSE Torn

(* write_atomic implements the atomic file: neither a reader nor a power   *)
(* cut ever meets a torn version.                                          *)
File == INSTANCE AtomicFile WITH
  value    <- Seen(dst, data),
  possible <- {Seen(v, onDisk) : v \in unsynced}

(* Every behaviour of the calls is one of the atomic file.                 *)
FileSpec == File!Spec

=============================================================================
