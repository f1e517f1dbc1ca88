------------------------------ MODULE OrderProofs ------------------------------
(**************************************************************************)
(* What each process may hold in each phase, and the promises that follow  *)
(* for any number of processes, whatever they interleave with.             *)
(*                                                                         *)
(* Inv (TombkeyProofs) speaks of what is recorded; it says nothing of a    *)
(* process's lists, so that it alone does not tell which files a step may  *)
(* write. Orderly adds that, phase by phase, as an invariant that only     *)
(* looks at the process itself and is therefore kept by the steps of all   *)
(* others.                                                                 *)
(**************************************************************************)
EXTENDS TombkeyProofs

(* Where a process is decides what it may hold: the list it works through  *)
(* in one phase is empty in every other, only rekey has failed targets,    *)
(* only reseal unsealed sources, and a source is remembered only by an     *)
(* edit and the rekey that ends it.  What it is about to remove lies in    *)
(* the storage directories of its plans, which are apart from sources and  *)
(* from what people edit if those of all plan sets are.                    *)
Orderly(r) ==
  /\ r.pc = "idle" => r.cmd = None
  /\ r.pc # "idle" => r.exit = "none"
  /\ r.pc \in {"classify", "decrypt"} => r.cmd = "rekey"
  /\ r.pc \in {"prepare", "reseal"} => r.cmd \in {"reseal", "reseal --force"}
  /\ r.pc \in {"edit", "save"} => r.cmd = "edit"
  /\ r.pc = "sweep" => r.cmd \in {"rekey", "gc"}
  /\ r.pc = "commit" => r.cmd \in {"rekey", "gc", "reseal", "reseal --force"}
  /\ r.pc \notin {"classify", "prepare"} => r.unread = {}
  /\ r.pc \notin {"classify", "decrypt"} =>
       r.work = {} /\ r.stale = {} /\ r.doomed = {} /\ r.left = {}
  /\ r.pc \notin {"prepare", "reseal"} => r.prepared = {}
  /\ r.pc # "sweep" => r.unswept = {} /\ r.victims = {}
  /\ r.failed # {} => r.cmd = "rekey" /\ r.pc # "load"
  /\ r.unsealed # {} => r.cmd \in {"reseal", "reseal --force"} /\ r.pc # "load"
  /\ r.secret # None => r.cmd = "rekey" \/ r.pc \in {"edit", "save"}
  /\ r.secret \in Editable \cup {None}
  /\ r.victims \subseteq Stored(r.plans)
  /\ SourcesApart => Stored(r.plans) \cap Sources(r.plans) = {}
  /\ EditsApart => Stored(r.plans) \cap Editable = {}

(* Every process is orderly, however processes interleave, fail or die.    *)
Ordered == \A p \in Proc : Orderly(run[p])

(* After a step of p that leads to state, that is where p is.              *)
LEMMA GotoIs ==
  ASSUME Inv, NEW p \in Proc, NEW state, Goto(p, state)
  PROVE  run'[p] = state /\ \A q \in Proc : q # p => run'[q] = run[q]
  BY DEF Goto, Inv, TypeOK

(* Nothing is asked of a process that is not running.                      *)
LEMMA IdleIsOrderly ==
  ASSUME NEW exit
  PROVE  Orderly(Idle(exit))
<1>1. Stored(NoPlans) = {}
  BY DEF Stored, Planned, NoPlans
<1> QED
  BY <1>1 DEF Orderly, Idle

(* Loading the manifest: the process goes into the first phase of its      *)
(* command with that phase's list filled in and no other.                  *)
LEMMA LoadsInOrder ==
  ASSUME Inv, NEW p \in Proc, Orderly(run[p]),
         LoadRekey(p) \/ LoadReseal(p) \/ LoadGc(p)
  PROVE  Orderly(run'[p])
<1> DEFINE r == run[p]
<1>1. r \in RunState
  BY DEF Inv, TypeOK
<1>2. CASE LoadRekey(p)
  <2> DEFINE new   == WithNewSections(manifest, r.plans)
             all   == Sources(r.plans)
             state == [r EXCEPT !.pc = "classify", !.loaded = manifest,
                                !.draft = new, !.unread = all]
  <2>1. Goto(p, state) /\ r.pc = "load" /\ r.cmd = "rekey"
    BY <1>2 DEF LoadRekey
  <2> HIDE DEF new, all
  <2>2. Orderly(state)
    BY <1>1, <2>1 DEF RunState, Orderly
  <2> QED
    BY <2>1, <2>2, GotoIs
<1>3. CASE LoadReseal(p)
  <2> DEFINE all   == Sources(r.plans)
             state == [r EXCEPT !.pc = "prepare", !.loaded = manifest,
                                !.draft = manifest, !.unread = all]
  <2>1. /\ Goto(p, state)
        /\ r.pc = "load" /\ r.cmd \in {"reseal", "reseal --force"}
    BY <1>3 DEF LoadReseal
  <2> HIDE DEF all
  <2>2. Orderly(state)
    BY <1>1, <2>1 DEF RunState, Orderly
  <2> QED
    BY <2>1, <2>2, GotoIs
<1>4. CASE LoadGc(p)
  <2> DEFINE new   == Pruned(manifest, r.plans)
             all   == Planned(r.plans)
             state == [r EXCEPT !.pc = "sweep", !.loaded = manifest,
                                !.draft = new, !.unswept = all]
  <2>1. Goto(p, state) /\ r.pc = "load" /\ r.cmd = "gc"
    BY <1>4 DEF LoadGc
  <2> HIDE DEF new, all
  <2>2. Orderly(state)
    BY <1>1, <2>1 DEF RunState, Orderly
  <2> QED
    BY <2>1, <2>2, GotoIs
<1> QED
  BY <1>2, <1>3, <1>4

(* Phase 1 of rekey: sources are read and their targets classified.        *)
LEMMA ClassifiesInOrder ==
  ASSUME Inv, NEW p \in Proc, Orderly(run[p]),
         \/ ReadSource(p) \/ UnreadableSource(p)
         \/ ClassifyTarget(p) \/ EndClassify(p)
  PROVE  Orderly(run'[p])
<1> DEFINE r == run[p]
<1>1. r \in RunState /\ r.pc = "classify"
  BY DEF Inv, TypeOK, ReadSource, UnreadableSource, ClassifyTarget, EndClassify,
         Reading
<1>2. CASE ReadSource(p)
  <2>1. PICK s \in r.unread :
          Goto(p, [r EXCEPT !.unread   = @ \ {s},
                            !.bytes[s] = files[s],
                            !.work     = Consumers(r.plans, s)])
    BY <1>2 DEF ReadSource
  <2> DEFINE work  == Consumers(r.plans, s)
             state == [r EXCEPT !.unread = @ \ {s}, !.bytes[s] = files[s],
                                !.work = work]
  <2>2. Goto(p, state)
    BY <2>1
  <2> HIDE DEF work
  <2>3. Orderly(state)
    BY <1>1 DEF RunState, Orderly
  <2> QED
    BY <2>2, <2>3, GotoIs
<1>3. CASE UnreadableSource(p)
  <2>1. PICK s \in r.unread :
          Goto(p, [r EXCEPT !.unread = @ \ {s},
                            !.doomed = Consumers(r.plans, s),
                            !.failed = @ \cup Consumers(r.plans, s)])
    BY <1>3 DEF UnreadableSource
  <2> DEFINE lost  == Consumers(r.plans, s)
             state == [r EXCEPT !.unread = @ \ {s}, !.doomed = lost,
                                !.failed = @ \cup lost]
  <2>2. Goto(p, state)
    BY <2>1
  <2> HIDE DEF lost
  <2>3. Orderly(state)
    BY <1>1 DEF RunState, Orderly
  <2> QED
    BY <2>2, <2>3, GotoIs
<1>4. CASE ClassifyTarget(p)
  <2>1. PICK t \in r.work :
          \/ Goto(p, [r EXCEPT !.work  = @ \ {t},
                               !.draft = WithEntry(@, t, Entry(r.loaded, t))])
          \/ Goto(p, [r EXCEPT !.work  = @ \ {t},
                               !.stale = @ \cup {t}])
    BY <1>4 DEF ClassifyTarget
  <2> DEFINE new   == WithEntry(r.draft, t, Entry(r.loaded, t))
             kept  == [r EXCEPT !.work = @ \ {t}, !.draft = new]
             stale == [r EXCEPT !.work = @ \ {t}, !.stale = @ \cup {t}]
  <2>2. Goto(p, kept) \/ Goto(p, stale)
    BY <2>1
  <2> HIDE DEF new
  <2>3. Orderly(kept) /\ Orderly(stale)
    BY <1>1 DEF RunState, Orderly
  <2> QED
    BY <2>2, <2>3, GotoIs
<1>5. CASE EndClassify(p)
  <2>1. PICK session \in SUBSET PluginKey :
          Goto(p, [r EXCEPT !.pc = "decrypt", !.session = session])
    BY <1>5 DEF EndClassify
  <2> DEFINE state == [r EXCEPT !.pc = "decrypt", !.session = session]
  <2>2. Orderly(state)
    BY <1>1, <1>5 DEF RunState, Orderly, EndClassify
  <2> QED
    BY <2>1, <2>2, GotoIs
<1> QED
  BY <1>2, <1>3, <1>4, <1>5

(* Phase 2 of rekey: sources are decrypted and their targets encrypted.    *)
LEMMA FansOutInOrder ==
  ASSUME Inv, NEW p \in Proc, Orderly(run[p]),
         DecryptSource(p) \/ DecryptFails(p) \/ FanOut(p) \/ FanOutFails(p)
  PROVE  Orderly(run'[p])
<1> DEFINE r == run[p]
<1>1. r \in RunState /\ r.pc = "decrypt"
  BY DEF Inv, TypeOK, DecryptSource, DecryptFails, FanOut, FanOutFails, Decrypting
<1>2. CASE DecryptSource(p)
  <2>1. PICK s \in Pending(r) :
          Goto(p, [r EXCEPT !.work  = StaleOf(r, s),
                            !.stale = @ \ StaleOf(r, s)])
    BY <1>2 DEF DecryptSource
  <2> DEFINE work  == StaleOf(r, s)
             state == [r EXCEPT !.work = work, !.stale = @ \ work]
  <2>2. Goto(p, state)
    BY <2>1
  <2> HIDE DEF work
  <2>3. Orderly(state)
    BY <1>1 DEF RunState, Orderly
  <2> QED
    BY <2>2, <2>3, GotoIs
<1>3. CASE DecryptFails(p)
  <2>1. PICK s \in Pending(r) :
          Goto(p, [r EXCEPT !.stale  = @ \ StaleOf(r, s),
                            !.doomed = StaleOf(r, s),
                            !.failed = @ \cup StaleOf(r, s)])
    BY <1>3 DEF DecryptFails
  <2> DEFINE lost  == StaleOf(r, s)
             state == [r EXCEPT !.stale = @ \ lost, !.doomed = lost,
                                !.failed = @ \cup lost]
  <2>2. Goto(p, state)
    BY <2>1
  <2> HIDE DEF lost
  <2>3. Orderly(state)
    BY <1>1 DEF RunState, Orderly
  <2> QED
    BY <2>2, <2>3, GotoIs
<1>4. CASE FanOut(p)
  <2>1. PICK t \in r.work : \E fp :
          Goto(p, [r EXCEPT !.work = @ \ {t}, !.draft = WithEntry(@, t, fp)])
    BY <1>4 DEF FanOut
  <2>2. PICK fp :
          Goto(p, [r EXCEPT !.work = @ \ {t}, !.draft = WithEntry(@, t, fp)])
    BY <2>1
  <2> DEFINE new   == WithEntry(r.draft, t, fp)
             state == [r EXCEPT !.work = @ \ {t}, !.draft = new]
  <2>3. Goto(p, state)
    BY <2>2
  <2> HIDE DEF new
  <2>4. Orderly(state)
    BY <1>1 DEF RunState, Orderly
  <2> QED
    BY <2>3, <2>4, GotoIs
<1>5. CASE FanOutFails(p)
  <2>1. PICK t \in r.work : Goto(p, [r EXCEPT !.work   = @ \ {t},
                                              !.doomed = {t},
                                              !.failed = @ \cup {t}])
    BY <1>5 DEF FanOutFails
  <2> DEFINE state == [r EXCEPT !.work = @ \ {t}, !.doomed = {t},
                                !.failed = @ \cup {t}]
  <2>2. Orderly(state)
    BY <1>1 DEF RunState, Orderly
  <2> QED
    BY <2>1, <2>2, GotoIs
<1> QED
  BY <1>2, <1>3, <1>4, <1>5

(* Outputs of failed targets are purged, in either phase, and the sweep    *)
(* begins when none is left to do.                                         *)
LEMMA PurgesInOrder ==
  ASSUME Inv, NEW p \in Proc, Orderly(run[p]),
         PurgeOutput(p) \/ PurgeFails(p) \/ EndFanOut(p)
  PROVE  Orderly(run'[p])
<1> DEFINE r == run[p]
<1>1. r \in RunState
  BY DEF Inv, TypeOK
<1>2. CASE PurgeOutput(p)
  <2>1. PICK t \in r.doomed : Goto(p, [r EXCEPT !.doomed = @ \ {t}])
    BY <1>2 DEF PurgeOutput
  <2>2. Orderly([r EXCEPT !.doomed = @ \ {t}])
    BY <1>1 DEF RunState, Orderly
  <2> QED
    BY <2>1, <2>2, GotoIs
<1>3. CASE PurgeFails(p)
  <2>1. PICK t \in r.doomed : Goto(p, [r EXCEPT !.doomed = @ \ {t},
                                                !.left   = @ \cup {t}])
    BY <1>3 DEF PurgeFails
  <2>2. Orderly([r EXCEPT !.doomed = @ \ {t}, !.left = @ \cup {t}])
    BY <1>1 DEF RunState, Orderly
  <2> QED
    BY <2>1, <2>2, GotoIs
<1>4. CASE EndFanOut(p)
  <2> DEFINE all   == Planned(r.plans)
             state == [r EXCEPT !.pc = "sweep", !.unswept = all]
  <2>1. /\ r.pc = "decrypt" /\ r.work = {} /\ r.doomed = {} /\ r.stale = {}
        /\ \/ r.left = {} /\ Goto(p, state)
           \/ Goto(p, Idle("error"))
    BY <1>4 DEF EndFanOut, Decrypting, Return
  <2> HIDE DEF all
  <2>2. CASE r.left = {} /\ Goto(p, state)
    <3>1. Orderly(state)
      BY <1>1, <2>1, <2>2 DEF RunState, Orderly
    <3> QED
      BY <2>2, <3>1, GotoIs
  <2>3. CASE Goto(p, Idle("error"))
    BY <2>3, IdleIsOrderly, GotoIs
  <2> QED
    BY <2>1, <2>2, <2>3
<1> QED
  BY <1>2, <1>3, <1>4

(* Both phases of reseal.                                                  *)
LEMMA ResealsInOrder ==
  ASSUME Inv, NEW p \in Proc, Orderly(run[p]),
         \/ PrepareSource(p) \/ UnpreparedSource(p) \/ EndPrepare(p)
         \/ ResealSource(p) \/ ResealFails(p) \/ EndReseal(p)
  PROVE  Orderly(run'[p])
<1> DEFINE r == run[p]
<1>1. r \in RunState
  BY DEF Inv, TypeOK
<1>2. CASE PrepareSource(p)
  <2>1. PICK s \in r.unread : \E prepared \in {r.prepared, r.prepared \cup {s}} :
          Goto(p, [r EXCEPT !.unread = @ \ {s}, !.bytes[s] = files[s],
                            !.prepared = prepared])
    BY <1>2 DEF PrepareSource
  <2>2. PICK prepared \in {r.prepared, r.prepared \cup {s}} :
          Goto(p, [r EXCEPT !.unread = @ \ {s}, !.bytes[s] = files[s],
                            !.prepared = prepared])
    BY <2>1
  <2> DEFINE state == [r EXCEPT !.unread = @ \ {s}, !.bytes[s] = files[s],
                                !.prepared = prepared]
  <2>3. Orderly(state)
    BY <1>1, <1>2 DEF RunState, Orderly, PrepareSource
  <2> QED
    BY <2>2, <2>3, GotoIs
<1>3. CASE UnpreparedSource(p)
  <2>1. PICK s \in r.unread :
          Goto(p, [r EXCEPT !.unread = @ \ {s}, !.unsealed = @ \cup {s}])
    BY <1>3 DEF UnpreparedSource
  <2>2. Orderly([r EXCEPT !.unread = @ \ {s}, !.unsealed = @ \cup {s}])
    BY <1>1, <1>3 DEF RunState, Orderly, UnpreparedSource
  <2> QED
    BY <2>1, <2>2, GotoIs
<1>4. CASE EndPrepare(p)
  <2>1. PICK session \in SUBSET PluginKey :
          Goto(p, [r EXCEPT !.pc = "reseal", !.session = session])
    BY <1>4 DEF EndPrepare
  <2>2. Orderly([r EXCEPT !.pc = "reseal", !.session = session])
    BY <1>1, <1>4 DEF RunState, Orderly, EndPrepare
  <2> QED
    BY <2>1, <2>2, GotoIs
<1>5. CASE ResealSource(p)
  <2>1. PICK s \in r.prepared : \E new :
          Goto(p, [r EXCEPT !.prepared = @ \ {s}, !.draft = new])
    BY <1>5 DEF ResealSource
  <2>2. PICK new : Goto(p, [r EXCEPT !.prepared = @ \ {s}, !.draft = new])
    BY <2>1
  <2>3. Orderly([r EXCEPT !.prepared = @ \ {s}, !.draft = new])
    BY <1>1, <1>5 DEF RunState, Orderly, ResealSource
  <2> QED
    BY <2>2, <2>3, GotoIs
<1>6. CASE ResealFails(p)
  <2>1. PICK s \in r.prepared :
          Goto(p, [r EXCEPT !.prepared = @ \ {s}, !.unsealed = @ \cup {s}])
    BY <1>6 DEF ResealFails
  <2>2. Orderly([r EXCEPT !.prepared = @ \ {s}, !.unsealed = @ \cup {s}])
    BY <1>1, <1>6 DEF RunState, Orderly, ResealFails
  <2> QED
    BY <2>1, <2>2, GotoIs
<1>7. CASE EndReseal(p)
  <2>1. Goto(p, [r EXCEPT !.pc = "commit"])
    BY <1>7 DEF EndReseal
  <2>2. Orderly([r EXCEPT !.pc = "commit"])
    BY <1>1, <1>7 DEF RunState, Orderly, EndReseal
  <2> QED
    BY <2>1, <2>2, GotoIs
<1> QED
  BY <1>2, <1>3, <1>4, <1>5, <1>6, <1>7

(* The sweep of rekey and gc: what it lists lies in a storage directory.   *)
LEMMA SweepsInOrder ==
  ASSUME Inv, NEW p \in Proc, Orderly(run[p]),
         ListOrphans(p) \/ RemoveOrphan(p) \/ EndSweep(p)
  PROVE  Orderly(run'[p])
<1> DEFINE r == run[p]
<1>1. r \in RunState /\ r.pc = "sweep"
  BY DEF Inv, TypeOK, ListOrphans, RemoveOrphan, EndSweep
<1>2. CASE ListOrphans(p)
  <2>1. PICK h \in r.unswept :
          Goto(p, [r EXCEPT
            !.unswept = @ \ {h},
            !.victims = {x \in Orphans(r.plans, h) : files[x] # Absent}])
    BY <1>2 DEF ListOrphans
  <2> DEFINE found == {x \in Orphans(r.plans, h) : files[x] # Absent}
             state == [r EXCEPT !.unswept = @ \ {h}, !.victims = found]
  <2>2. Goto(p, state)
    BY <2>1
  <2>3. found \subseteq Stored(r.plans)
    BY RunIsSound DEF Sound, KeepsToPlans, Orphans, Stored
  <2> HIDE DEF found
  <2>4. Orderly(state)
    BY <1>1, <2>3 DEF RunState, Orderly
  <2> QED
    BY <2>2, <2>4, GotoIs
<1>3. CASE RemoveOrphan(p)
  <2>1. PICK x \in r.victims : Goto(p, [r EXCEPT !.victims = @ \ {x}])
    BY <1>3 DEF RemoveOrphan
  <2>2. Orderly([r EXCEPT !.victims = @ \ {x}])
    BY <1>1 DEF RunState, Orderly
  <2> QED
    BY <2>1, <2>2, GotoIs
<1>4. CASE EndSweep(p)
  <2>1. Goto(p, [r EXCEPT !.pc = "commit"])
    BY <1>4 DEF EndSweep
  <2>2. Orderly([r EXCEPT !.pc = "commit"])
    BY <1>1, <1>4 DEF RunState, Orderly, EndSweep
  <2> QED
    BY <2>1, <2>2, GotoIs
<1> QED
  BY <1>2, <1>3, <1>4

(* An edit, up to where it goes on as a rekey.                             *)
LEMMA EditsInOrder ==
  ASSUME Inv, NEW p \in Proc, Orderly(run[p]),
         LoadEdit(p) \/ EditorSaves(p) \/ Save(p)
  PROVE  Orderly(run'[p])
<1> DEFINE r == run[p]
<1>1. r \in RunState
  BY DEF Inv, TypeOK
<1>2. CASE LoadEdit(p)
  <2>1. PICK s \in Editable : \E plain, keys :
          Goto(p, [r EXCEPT !.pc = "edit", !.secret = s,
                            !.staged = plain, !.masters = keys])
    BY <1>2 DEF LoadEdit
  <2>2. PICK plain, keys :
          Goto(p, [r EXCEPT !.pc = "edit", !.secret = s,
                            !.staged = plain, !.masters = keys])
    BY <2>1
  <2>3. Orderly([r EXCEPT !.pc = "edit", !.secret = s,
                          !.staged = plain, !.masters = keys])
    BY <1>1, <1>2 DEF RunState, Orderly, LoadEdit
  <2> QED
    BY <2>2, <2>3, GotoIs
<1>3. CASE EditorSaves(p)
  <2>1. PICK plain : Goto(p, [r EXCEPT !.pc = "save", !.staged = plain])
    BY <1>3 DEF EditorSaves
  <2>2. Orderly([r EXCEPT !.pc = "save", !.staged = plain])
    BY <1>1, <1>3 DEF RunState, Orderly, EditorSaves
  <2> QED
    BY <2>1, <2>2, GotoIs
<1>4. CASE Save(p)
  <2>1. Goto(p, [r EXCEPT !.pc = "load", !.cmd = "rekey"])
    BY <1>4 DEF Save
  <2>2. Orderly([r EXCEPT !.pc = "load", !.cmd = "rekey"])
    BY <1>1, <1>4 DEF RunState, Orderly, Save
  <2> QED
    BY <2>1, <2>2, GotoIs
<1> QED
  BY <1>2, <1>3, <1>4

(* A command starts with plans that passed validation, and with nothing in *)
(* hand.                                                                   *)
LEMMA StartsInOrder ==
  ASSUME Inv, NEW p \in Proc, Orderly(run[p]), NEW cmd \in CommandSet,
         Invoke(p, cmd)
  PROVE  Orderly(run'[p])
<1>1. PICK hosts \in Selections :
        IF Accepted(cmd, Chosen(hosts))
        THEN Goto(p, [Idle("none") EXCEPT !.cmd = cmd, !.pc = "load",
                                          !.plans = Chosen(hosts)])
        ELSE Return(p, "error")
  BY DEF Invoke
<1> DEFINE plans == Chosen(hosts)
           state == [Idle("none") EXCEPT !.cmd = cmd, !.pc = "load",
                                         !.plans = plans]
<1>2. CASE Accepted(cmd, plans)
  <2>1. plans \in Given
    BY DEF Chosen, Given, Inv, TypeOK
  <2>2. /\ SourcesApart => Stored(plans) \cap Sources(plans) = {}
        /\ EditsApart => Stored(plans) \cap Editable = {}
    BY <1>2, <2>1 DEF SourcesApart, EditsApart, Accepted
  <2>3. Goto(p, state)
    BY <1>1, <1>2
  <2> HIDE DEF plans
  <2>4. /\ state.pc = "load" /\ state.cmd = cmd /\ state.plans = plans
        /\ state.unread = {} /\ state.work = {} /\ state.stale = {}
        /\ state.doomed = {} /\ state.left = {} /\ state.failed = {}
        /\ state.prepared = {} /\ state.unsealed = {}
        /\ state.unswept = {} /\ state.victims = {} /\ state.secret = None
        /\ state.exit = "none"
    BY DEF Idle
  <2> HIDE DEF state
  <2>5. Orderly(state)
    BY <2>2, <2>4 DEF Orderly
  <2> QED
    BY <2>3, <2>5, GotoIs
<1>3. CASE ~Accepted(cmd, plans)
  BY <1>1, <1>3, IdleIsOrderly, GotoIs DEF Return
<1> QED
  BY <1>2, <1>3

(* Every way in which a command ends leaves an idle process.               *)
LEMMA EndsInOrder ==
  ASSUME Inv, NEW p \in Proc,
         \/ LoadFails(p) \/ SweepFails(p) \/ Crash(p)
         \/ Commit(p) \/ CommitFails(p) \/ SaveFails(p)
         \/ View(p) \/ SecretUnreadable(p) \/ EditorGivesUp(p)
  PROVE  \E exit : Goto(p, Idle(exit))
  BY DEF LoadFails, SweepFails, Crash, Commit, CommitFails, SaveFails, View,
         SecretUnreadable, EditorGivesUp, Return

(* A step of process p: a command is started, goes on, or is killed.       *)
Moves(p) ==
  \/ \E cmd \in Commands[p] : Invoke(p, cmd)
  \/ Step(p)
  \/ Crash(p)

(* Each move of an orderly process leaves it orderly.                      *)
LEMMA OrderIsKept ==
  ASSUME Inv, NEW p \in Proc, Orderly(run[p]), Moves(p)
  PROVE  Orderly(run'[p])
<1>1. ASSUME NEW cmd \in Commands[p], Invoke(p, cmd)
      PROVE  Orderly(run'[p])
  BY <1>1, CommandAssumption, StartsInOrder
<1>2. CASE \/ LoadFails(p) \/ SweepFails(p) \/ Crash(p)
           \/ Commit(p) \/ CommitFails(p) \/ SaveFails(p)
           \/ View(p) \/ SecretUnreadable(p) \/ EditorGivesUp(p)
  BY <1>2, EndsInOrder, IdleIsOrderly, GotoIs
<1>3. CASE RekeyStep(p)
  BY <1>3, LoadsInOrder, ClassifiesInOrder, FansOutInOrder, PurgesInOrder
     DEF RekeyStep
<1>4. CASE ResealStep(p)
  BY <1>4, LoadsInOrder, ResealsInOrder DEF ResealStep
<1>5. CASE EditStep(p)
  BY <1>2, <1>5, EditsInOrder DEF EditStep
<1>6. CASE LoadGc(p) \/ ListOrphans(p) \/ RemoveOrphan(p) \/ EndSweep(p)
  BY <1>6, LoadsInOrder, SweepsInOrder
<1> QED
  BY <1>1, <1>2, <1>3, <1>4, <1>5, <1>6 DEF Moves, Step

(* A step is the world's, one process's, or none.                          *)
LEMMA StepIs ==
  ASSUME [Next]_vars
  PROVE  \/ Environment
         \/ \E p \in Proc : Moves(p)
         \/ UNCHANGED vars
  BY DEF Next, Moves

(* A process that moves leaves the others where they are.                  *)
LEMMA MovesItself ==
  ASSUME Inv, NEW p \in Proc, Moves(p)
  PROVE  \A q \in Proc : q # p => run'[q] = run[q]
<1>1. \E state : Goto(p, state)
  BY DEF Moves, Step, RekeyStep, ResealStep, EditStep, Invoke, LoadRekey,
     ReadSource, UnreadableSource, ClassifyTarget, EndClassify, DecryptSource,
     DecryptFails, FanOut, FanOutFails, PurgeOutput, PurgeFails, EndFanOut,
     LoadReseal, PrepareSource, UnpreparedSource, EndPrepare, ResealSource,
     ResealFails, EndReseal, LoadGc, LoadEdit, View, SecretUnreadable,
     EditorSaves, EditorGivesUp, Save, SaveFails, LoadFails, ListOrphans,
     RemoveOrphan, SweepFails, EndSweep, Commit, CommitFails, Crash, Return
<1> QED
  BY <1>1, GotoIs

(* Other hands change files, the manifest and plans, never a process.      *)
LEMMA WorldRunsNothing ==
  ASSUME Environment
  PROVE  run' = run
  BY DEF Environment, ChangeSource, ChangeOutput, Reconfigure, LoseManifest

(* A process never carries anything from one phase into another that does  *)
(* not deal with it, whatever the others do.                               *)
THEOREM OrderedAlways == Spec => []Ordered
<1>1. Init => Ordered
  BY IdleIsOrderly DEF Init, Ordered
<1>2. Inv /\ Ordered /\ [Next]_vars => Ordered'
  <2> SUFFICES ASSUME Inv, Ordered, [Next]_vars
               PROVE  Ordered'
    OBVIOUS
  <2>1. CASE Environment
    BY <2>1, WorldRunsNothing DEF Ordered
  <2>2. ASSUME NEW p \in Proc, Moves(p)
        PROVE  Ordered'
    <3>1. Orderly(run'[p])
      BY <2>2, OrderIsKept DEF Ordered
    <3>2. \A q \in Proc : q # p => run'[q] = run[q]
      BY <2>2, MovesItself
    <3> QED
      BY <3>1, <3>2 DEF Ordered
  <2>3. CASE UNCHANGED vars
    BY <2>3 DEF vars, Ordered
  <2> QED
    BY <2>1, <2>2, <2>3, StepIs
<1> QED
  BY <1>1, <1>2, Invariance, PTL DEF Spec

-----------------------------------------------------------------------------
(* Validation puts every output under its host's storage directory.        *)
LEMMA OutputIsStored ==
  ASSUME NEW plans \in PlanSet, ValidSet(plans), NEW t \in Targets(plans)
  PROVE  Output(plans, t) \in Stored(plans)
<1>1. t[1] \in Planned(plans)
  BY DEF Targets, Planned
<1>2. Output(plans, t) \in plans[t[1]].local_storage_dir
  BY <1>1 DEF ValidSet, ValidPlan
<1> QED
  BY <1>1, <1>2 DEF Stored

(* The actions that write a *.age file.                                    *)
LEMMA WritersAre ==
  ASSUME NEW p \in Proc, Moves(p), files' # files
  PROVE  \/ FanOut(p) \/ FanOutFails(p) \/ PurgeOutput(p) \/ RemoveOrphan(p)
         \/ ResealSource(p) \/ ResealFails(p)
         \/ Save(p) \/ SaveFails(p)
<1>1. ~(\E cmd \in Commands[p] : Invoke(p, cmd)) /\ ~Crash(p)
  BY DEF Invoke, Crash, storeVars
<1>2. CASE RekeyStep(p)
  BY <1>2 DEF RekeyStep, LoadRekey, ReadSource, UnreadableSource,
     ClassifyTarget, EndClassify, DecryptSource, DecryptFails, PurgeFails,
     EndFanOut, storeVars
<1>3. CASE ResealStep(p)
  BY <1>3 DEF ResealStep, LoadReseal, PrepareSource, UnpreparedSource,
     EndPrepare, EndReseal, storeVars
<1>4. CASE EditStep(p)
  BY <1>4 DEF EditStep, LoadEdit, View, SecretUnreadable, EditorSaves,
     EditorGivesUp, storeVars
<1>5. ~LoadGc(p) /\ ~LoadFails(p) /\ ~ListOrphans(p) /\ ~SweepFails(p)
  BY DEF LoadGc, LoadFails, ListOrphans, SweepFails, storeVars
<1>6. ~EndSweep(p) /\ ~Commit(p) /\ ~CommitFails(p)
  BY DEF EndSweep, Commit, CommitFails, storeVars
<1> QED
  BY <1>1, <1>2, <1>3, <1>4, <1>5, <1>6 DEF Moves, Step

(* What rekey and gc write lies in the storage directories of their plans, *)
(* which is where validation wants every output and what a sweep lists.    *)
LEMMA WritesWhatIsStored ==
  ASSUME Inv, NEW p \in Proc, Orderly(run[p]), Moves(p),
         run[p].cmd \in {"rekey", "gc"},
         NEW x \in Path, files'[x] # files[x]
  PROVE  x \in Stored(run[p].plans)
<1> DEFINE r == run[p]
<1>1. Sound(r) /\ r.plans \in PlanSet /\ files \in [Path -> File]
  BY RunIsSound DEF Inv, TypeOK
<1>2. \A t \in r.work \cup r.doomed : Output(r.plans, t) \in Stored(r.plans)
  BY <1>1, OutputIsStored DEF Sound, KeepsToPlans
<1>3. r.pc \notin {"reseal", "save"}
  BY CommandAssumption DEF Orderly, CommandSet
<1>4. \/ FanOut(p) \/ FanOutFails(p) \/ PurgeOutput(p) \/ RemoveOrphan(p)
  BY <1>3, WritersAre DEF ResealSource, ResealFails, Save, SaveFails
<1>5. CASE FanOut(p) \/ FanOutFails(p)
  <2>1. PICK t \in r.work : \E c : files' = files
                                 \/ files' = [files EXCEPT ![Output(r.plans, t)] = c]
    BY <1>5 DEF FanOut, FanOutFails
  <2> QED
    BY <1>1, <1>2, <2>1
<1>6. CASE PurgeOutput(p)
  <2>1. PICK t \in r.doomed : files' = [files EXCEPT ![Output(r.plans, t)] = Absent]
    BY <1>6 DEF PurgeOutput
  <2> QED
    BY <1>1, <1>2, <2>1
<1>7. CASE RemoveOrphan(p)
  <2>1. PICK y \in r.victims : files' = [files EXCEPT ![y] = Absent]
    BY <1>7 DEF RemoveOrphan
  <2> QED
    BY <1>1, <2>1 DEF Orderly
<1> QED
  BY <1>4, <1>5, <1>6, <1>7

(* rekey and gc write in the storage directories of their plans and touch  *)
(* no other file - under every interleaving of any number of processes,    *)
(* with faults, crashes and other hands at work, for any configurations.   *)
THEOREM WritesStayInStorage == Spec => StaysInStorage
<1>1. ASSUME Inv, Ordered, [Next]_vars, NEW p \in Proc, run'[p] # run[p],
             run[p].cmd \in {"rekey", "gc"},
             NEW x \in Path \ Stored(run[p].plans)
      PROVE  files'[x] = files[x]
  <2>1. Moves(p)
    BY <1>1, StepIs, WorldRunsNothing, MovesItself DEF vars
  <2> QED
    BY <1>1, <2>1, WritesWhatIsStored DEF Ordered
<1> DEFINE Keeps == \A p \in Proc :
             run'[p] # run[p] /\ run[p].cmd \in {"rekey", "gc"} =>
               \A x \in Path \ Stored(run[p].plans) : files'[x] = files[x]
<1>2. Inv /\ Ordered /\ [Next]_vars => [Keeps]_vars
  BY <1>1
<1>3. StaysInStorage <=> [][Keeps]_vars
  BY DEF StaysInStorage
<1> HIDE DEF Keeps
<1> QED
  BY <1>2, <1>3, Invariance, OrderedAlways, PTL DEF Spec

=============================================================================
