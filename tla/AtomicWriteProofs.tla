--------------------------- MODULE AtomicWriteProofs ---------------------------
(***************************************************************************)
(* Theorems about AtomicWrite for any number of writers.                   *)
(***************************************************************************)
EXTENDS AtomicWrite, TLAPS

(* A call that comes to the rename has synced all of its bytes.            *)
SyncedFirst ==
  \A w \in Writer :
    /\ pc[w] \in {"sync", "persist"} => data[w] = "whole"
    /\ pc[w] = "persist" => onDisk[w] = "whole"
    /\ onDisk[w] = "whole" => data[w] = "whole"

(* So every version an entry may lead to is whole, on the disk as well.    *)
EntriesWhole ==
  /\ dst \in unsynced
  /\ \A v \in unsynced \ {Old} : onDisk[v] = "whole"

(* In a directory that was there before, a call that renamed its file has  *)
(* replaced the old version, and one that returned has done so for good.   *)
OldIsGone ==
  \A w \in Writer :
    /\ pc[w] = "sync dir" => dst # Old
    /\ pc[w] = "ok" /\ parent = "there" => Old \notin unsynced

Inv == TypeOK /\ SyncedFirst /\ EntriesWhole /\ OldIsGone

(* The initial states satisfy the invariant.                               *)
LEMMA InitInv == Init => Inv
  BY WriterAssumption DEF Init, Inv, TypeOK, SyncedFirst, EntriesWhole, OldIsGone, Version

(* No step of a call, and no power cut, breaks the invariant.              *)
LEMMA NextInv == Inv /\ [Next]_vars => Inv'
<1> SUFFICES ASSUME Inv, [Next]_vars PROVE Inv'
  OBVIOUS
<1> USE WriterAssumption
<1> USE DEF Inv, TypeOK, SyncedFirst, EntriesWhole, OldIsGone, Version, Step
<1>1. CASE UNCHANGED vars
  BY <1>1 DEF vars
<1>2. ASSUME NEW w \in Writer, CreateDir(w) PROVE Inv'
  BY <1>2 DEF CreateDir
<1>3. ASSUME NEW w \in Writer, CreateTemp(w) PROVE Inv'
  BY <1>3 DEF CreateTemp
<1>4. ASSUME NEW w \in Writer, Write(w) PROVE Inv'
  BY <1>4 DEF Write
<1>5. ASSUME NEW w \in Writer, SyncFile(w) PROVE Inv'
  BY <1>5 DEF SyncFile
<1>6. ASSUME NEW w \in Writer, Persist(w) PROVE Inv'
  BY <1>6 DEF Persist
<1>7. ASSUME NEW w \in Writer, SyncDir(w) PROVE Inv'
  BY <1>7 DEF SyncDir
<1>8. ASSUME NEW w \in Writer, Fails(w) PROVE Inv'
  BY <1>8 DEF Fails
<1>9. ASSUME NEW w \in Writer, Kill(w) PROVE Inv'
  BY <1>9 DEF Kill
<1>10. CASE PowerCut
  BY <1>10 DEF PowerCut
<1> QED
  BY <1>1, <1>2, <1>3, <1>4, <1>5, <1>6, <1>7, <1>8, <1>9, <1>10 DEF Next

(* The inductive invariant holds throughout.                               *)
THEOREM Invariance == Spec => []Inv
  BY InitInv, NextInv, PTL DEF Spec

(* The state of every call and of the directory keeps its type.            *)
THEOREM TypeCorrect == Spec => []TypeOK
<1>1. Inv => TypeOK
  BY DEF Inv
<1> QED
  BY Invariance, <1>1, PTL

(* After a call has returned, a power cut does not bring back the version  *)
(* that was there before, in a directory that was there, too.              *)
THEOREM Durability == Spec => OkIsDurable
<1>1. Inv /\ [Next]_vars
        => [\A w \in Writer : pc[w] = "ok" /\ parent = "there" /\ dst # Old => dst' # Old]_vars
  <2> SUFFICES ASSUME Inv, [Next]_vars, NEW w \in Writer,
                      pc[w] = "ok", parent = "there", dst # Old
               PROVE  dst' # Old
    OBVIOUS
  <2>1. CASE UNCHANGED vars
    BY <2>1 DEF vars
  <2>2. ASSUME NEW u \in Writer,
               \/ CreateDir(u) \/ CreateTemp(u) \/ Write(u) \/ SyncFile(u)
               \/ Persist(u) \/ SyncDir(u) \/ Fails(u) \/ Kill(u)
        PROVE  dst' # Old
    BY <2>2, WriterAssumption DEF CreateDir, CreateTemp, Write, SyncFile,
                                  Persist, SyncDir, Fails, Kill
  <2>3. CASE PowerCut
    BY <2>3 DEF PowerCut, Inv, OldIsGone
  <2> QED
    BY <2>1, <2>2, <2>3 DEF Next
<1> QED
  BY Invariance, <1>1, PTL DEF Spec, OkIsDurable

-----------------------------------------------------------------------------
(* The refinement *)

(* Under the invariant a reader sees the version that the entry leads to,  *)
(* and a power cut leaves one of those it may lead to.                     *)
LEMMA SeenIsWhole ==
  Inv => /\ Seen(dst, data) = dst
         /\ {Seen(v, onDisk) : v \in unsynced} = unsynced
<1> SUFFICES ASSUME Inv
             PROVE  /\ Seen(dst, data) = dst
                    /\ {Seen(v, onDisk) : v \in unsynced} = unsynced
  OBVIOUS
<1>1. \A v \in unsynced : Seen(v, onDisk) = v
  BY DEF Inv, EntriesWhole, Seen
<1>2. dst = Old \/ (dst \in Writer /\ onDisk[dst] = "whole")
  BY DEF Inv, EntriesWhole, TypeOK, Version
<1>3. Seen(dst, data) = dst
  BY <1>2 DEF Inv, SyncedFirst, Seen
<1> QED
  BY <1>1, <1>3

(* write_atomic implements the atomic file: readers and power cuts meet    *)
(* whole versions only.                                                    *)
THEOREM Refinement == Spec => FileSpec
<1>1. Init => File!Init
  BY DEF Init, File!Init, Seen
<1>2. Inv /\ Inv' /\ [Next]_vars
        => [File!Replace \/ File!Settle \/ File!PowerCut]_(File!vars)
  <2> SUFFICES ASSUME Inv, Inv', [Next]_vars
               PROVE  [File!Replace \/ File!Settle \/ File!PowerCut]_(File!vars)
    OBVIOUS
  <2>1. /\ Seen(dst, data) = dst
        /\ {Seen(v, onDisk) : v \in unsynced} = unsynced
    BY SeenIsWhole
  <2>2. /\ Seen(dst, data)' = dst'
        /\ {Seen(v, onDisk) : v \in unsynced}' = unsynced'
    <3>1. (/\ Seen(dst, data) = dst
           /\ {Seen(v, onDisk) : v \in unsynced} = unsynced)'
      BY SeenIsWhole, PTL
    <3> QED
      BY <3>1
  <2>3. CASE dst' = dst /\ unsynced' = unsynced
    BY <2>1, <2>2, <2>3 DEF File!vars
  <2>4. ASSUME NEW w \in Writer, Persist(w) PROVE File!Replace
    BY <2>1, <2>2, <2>4 DEF Persist, File!Replace, Version
  <2>5. ASSUME NEW w \in Writer, SyncDir(w) PROVE File!Settle
    BY <2>1, <2>2, <2>5 DEF SyncDir, File!Settle, Inv, EntriesWhole
  <2>6. CASE PowerCut
    BY <2>1, <2>2, <2>6 DEF PowerCut, File!PowerCut
  <2>7. ASSUME NEW w \in Writer,
               \/ CreateDir(w) \/ CreateTemp(w) \/ Write(w) \/ SyncFile(w)
               \/ Fails(w) \/ Kill(w)
        PROVE  dst' = dst /\ unsynced' = unsynced
    BY <2>7 DEF CreateDir, CreateTemp, Write, SyncFile, Fails, Kill
  <2>8. CASE UNCHANGED vars
    BY <2>3, <2>8 DEF vars
  <2> QED
    BY <2>3, <2>4, <2>5, <2>6, <2>7, <2>8 DEF Next
<1> QED
  BY Invariance, <1>1, <1>2, PTL DEF Spec, FileSpec, File!Spec

=============================================================================
