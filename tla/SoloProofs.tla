------------------------------- MODULE SoloProofs ------------------------------
(**************************************************************************)
(* What tombkey promises when it runs alone: one process, and no other     *)
(* hands at work between its first step and its last (Solo). That is what  *)
(* its workflow asks of people - nothing locks the checkout, and most of   *)
(* these promises are false beside a second command. Faults and crashes    *)
(* remain, at every step; so do changes by others between two runs.        *)
(*                                                                         *)
(* The promises speak of the end of a run, or of one step that writes; the *)
(* invariant Steady says what holds in between: what each target waits for *)
(* or has become (Accounted), what was read and is still so (Settling,     *)
(* Resealing), and what the draft has beside the manifest (Drafting). It   *)
(* needs Inv, for the skip decision is right only of a manifest that tells *)
(* the truth, and Orderly, for the lists of one phase are empty in the     *)
(* next.                                                                   *)
(**************************************************************************)
EXTENDS OrderProofs

(* What the process is about to commit, beside the manifest m on disk.     *)
Drafting(r, m) ==
  /\ r.pc \in {"idle", "load", "edit", "save"} => r.draft = r.loaded
  /\ r.pc \notin {"idle", "load", "edit", "save"} => r.loaded = m
  /\ \A h \in Host \ Planned(r.plans) : r.draft.hosts[h] = r.loaded.hosts[h]
  /\ r.cmd = "rekey" => r.draft.sources = r.loaded.sources
  /\ r.cmd = "gc" /\ r.pc # "load" => r.draft = Pruned(r.loaded, r.plans)

(* The source in the editor is the one that was read, and its masters are  *)
(* those its consumers declare.                                            *)
Editing(r, f) ==
  r.pc \in {"edit", "save"} =>
    /\ f[r.secret] # Absent => Decrypts(f[r.secret], r.masters)
    /\ \A t \in Consumers(r.plans, r.secret) :
         r.masters = r.plans[t[1]].master_identities

(* Sources that reseal has in hand are as it read them, those it is done   *)
(* with are sealed in its draft.                                           *)
Resealing(r, f) ==
  r.cmd \in {"reseal", "reseal --force"} =>
    /\ r.pc = "prepare" => r.draft = r.loaded
    /\ \A s \in r.prepared : r.bytes[s] = f[s]
    /\ r.prepared \cap r.unread = {}
    /\ r.pc # "load" =>
         \A s \in Sources(r.plans) \ (r.unread \cup r.prepared \cup r.unsealed) :
           SealMatches(r.draft, s, f[s], MastersOf(r.plans, s))

(* Target t is still to be classified or fanned out.                       *)
Waiting(r, t) == Source(r.plans, t) \in r.unread \/ t \in r.work \cup r.stale

(* Its output carries the source as read and has its entry.                *)
Done(r, f, t) ==
  LET source == r.bytes[Source(r.plans, t)]
      path   == Output(r.plans, t) IN
  /\ Entry(r.draft, t) = Fingerprint(source, path, f[path])
  /\ Carries(f[path], source, r.plans[t[1]].master_identities,
             r.plans[t[1]].host_pubkey)

(* A target fails, waits or is done, and has an entry only when it is done.*)
Accounted(r, f, t) ==
  IF t \in r.failed
  THEN /\ ~Waiting(r, t)
       /\ Entry(r.draft, t) = None
       /\ t \in r.doomed \cup r.left \/ f[Output(r.plans, t)] = Absent
  ELSE IF Waiting(r, t) THEN Entry(r.draft, t) = None ELSE Done(r, f, t)

(* A rekey past loading: its sections are those of its plans' keys, only   *)
(* failed targets are purged, no target waits in two lists, and each is    *)
(* accounted for.                                                          *)
Rekeying(r, f) ==
  r.cmd = "rekey" /\ r.pc # "load" =>
    /\ HasHeaders(r.draft, r.plans)
    /\ r.doomed \cup r.left \subseteq r.failed
    /\ r.work \cap r.stale = {}
    /\ \A t \in r.work \cup r.stale : Source(r.plans, t) \notin r.unread
    /\ \A t \in Targets(r.plans) : Accounted(r, f, t)

(* What was read is what the source still is, and what was swept is clean. *)
Settling(r, f) ==
  r.cmd = "rekey" /\ r.pc # "load" =>
    /\ SourcesApart =>
         \A t \in Targets(r.plans) \ r.failed :
           LET s == Source(r.plans, t) IN
           s \notin r.unread => r.bytes[s] = f[s]
    /\ r.pc \in {"sweep", "commit"} =>
         \A h \in Planned(r.plans) \ r.unswept : \A x \in Orphans(r.plans, h) :
           f[x] = Absent \/ x \in r.victims

(* The rekey inside an edit finds the source as the edit left it.          *)
Deploying(r, f) ==
  EditsApart /\ r.cmd = "rekey" /\ r.secret # None =>
    f[r.secret] \in Cipher /\ f[r.secret].plain = r.staged

(* What holds of a process in state r beside the files f and the manifest  *)
(* m, when nobody else touches either while it runs.                       *)
Steadily(r, f, m) ==
  /\ Drafting(r, m) /\ Editing(r, f) /\ Resealing(r, f)
  /\ Rekeying(r, f) /\ Settling(r, f) /\ Deploying(r, f)

(* The invariant of a program that runs alone.                             *)
Steady == \A p \in Proc : Steadily(run[p], files, manifest)

-----------------------------------------------------------------------------
(* Of a process that runs nothing, nothing is asked of the files.          *)
LEMMA IdleIsSteady ==
  ASSUME NEW r, NEW f, NEW m,
         r.pc = "idle", r.cmd = None, r.draft = r.loaded
  PROVE  Steadily(r, f, m)
  BY CommandAssumption DEF Steadily, Drafting, Editing, Resealing, Rekeying,
     Settling, Deploying, CommandSet

(* However a command ends, its process is steady again.                    *)
LEMMA ReturnIsSteady ==
  ASSUME NEW exit, NEW f, NEW m
  PROVE  Steadily(Idle(exit), f, m)
<1>1. /\ Idle(exit).pc = "idle" /\ Idle(exit).cmd = None
      /\ Idle(exit).draft = Idle(exit).loaded
  BY DEF Idle
<1> QED
  BY <1>1, IdleIsSteady

(* Entering a fingerprint changes one section and no seal.                 *)
LEMMA WithEntryElsewhere ==
  ASSUME NEW m \in Manifest, NEW t \in Target, NEW fp
  PROVE  LET w == WithEntry(m, t, fp) IN
         /\ w.sources = m.sources
         /\ \A h \in Host \ {t[1]} : w.hosts[h] = m.hosts[h]
  BY DEF WithEntry, Manifest

(* Outputs of different targets are different files.                       *)
LEMMA OutputsDiffer ==
  ASSUME NEW plans \in PlanSet, ValidSet(plans),
         NEW t \in Targets(plans), NEW u \in Targets(plans), u # t
  PROVE  Output(plans, t) # Output(plans, u) /\ Output(plans, u) \in Path
  BY PlanTypes DEF ValidSet

(* A target about which nothing changes remains accounted for.             *)
LEMMA AccountIsKept ==
  ASSUME NEW r, NEW s, NEW f, NEW g, NEW t, Accounted(r, f, t),
         s.plans = r.plans,
         t \in s.failed <=> t \in r.failed,
         Waiting(s, t) <=> Waiting(r, t),
         Entry(s.draft, t) = Entry(r.draft, t),
         \/ Waiting(r, t)
         \/ s.bytes[Source(r.plans, t)] = r.bytes[Source(r.plans, t)],
         g[Output(r.plans, t)] = f[Output(r.plans, t)],
         t \in r.doomed \cup r.left => t \in s.doomed \cup s.left
  PROVE  Accounted(s, g, t)
  BY DEF Accounted, Done

-----------------------------------------------------------------------------
(* rekey *)

(* What a rekey never changes on its way.                                  *)
SameRekey(r, s) ==
  /\ s.cmd = "rekey" /\ s.plans = r.plans /\ s.loaded = r.loaded
  /\ s.secret = r.secret /\ s.staged = r.staged

(* What every step of a rekey that goes on has in common: the files it     *)
(* writes are neither sources nor the file edited.                         *)
LEMMA RekeyGoesOn ==
  ASSUME Inv, NEW p \in Proc, Orderly(run[p]),
         Steadily(run[p], files, manifest), Moves(p), NEW s,
         run[p].cmd = "rekey", run[p].pc \in {"classify", "decrypt", "sweep"},
         SameRekey(run[p], s),
         s.pc \in {"classify", "decrypt", "sweep", "commit"},
         manifest' = manifest,
         s.draft.sources = run[p].draft.sources,
         \A h \in Host \ Planned(s.plans) :
           s.draft.hosts[h] = run[p].draft.hosts[h],
         Rekeying(s, files'),
         \A t \in Targets(s.plans) \ s.failed :
           LET x == Source(s.plans, t) IN
           x \notin s.unread =>
             \/ s.bytes[x] = files[x]
             \/ /\ t \notin run[p].failed /\ x \notin run[p].unread
                /\ s.bytes[x] = run[p].bytes[x],
         s.pc \in {"sweep", "commit"} =>
           \A h \in Planned(s.plans) \ s.unswept :
             \A x \in Orphans(s.plans, h) : files'[x] = Absent \/ x \in s.victims
  PROVE  Steadily(s, files', manifest')
<1> DEFINE r == run[p]
<1>1. r.plans \in PlanSet
  BY RunIsSound
<1>2. \A x \in Path \ Stored(r.plans) : files'[x] = files[x]
  BY WritesWhatIsStored
<1>3. Drafting(s, manifest')
  BY DEF SameRekey, Steadily, Drafting
<1>4. Editing(s, files') /\ Resealing(s, files')
  BY DEF SameRekey, Editing, Resealing
<1>5. SourcesApart =>
        \A t \in Targets(r.plans) : files'[Source(r.plans, t)]
                                      = files[Source(r.plans, t)]
  BY <1>1, <1>2, PlanTypes DEF Orderly, Sources
<1>6. Settling(s, files')
  BY <1>5 DEF SameRekey, Steadily, Settling
<1>7. EditsApart /\ r.secret # None => files'[r.secret] = files[r.secret]
  BY <1>2, EditAssumption DEF Orderly
<1>8. Deploying(s, files')
  BY <1>7 DEF SameRekey, Steadily, Deploying
<1> QED
  BY <1>3, <1>4, <1>6, <1>8 DEF Steadily

(* What the process knows of itself in the middle of a rekey.              *)
LEMMA RekeyFacts ==
  ASSUME Inv, NEW p \in Proc, Orderly(run[p]),
         Steadily(run[p], files, manifest),
         \/ run[p].pc \in {"classify", "decrypt"}
         \/ run[p].pc = "sweep" /\ run[p].cmd = "rekey"
  PROVE  LET r == run[p] IN
         /\ r \in RunState /\ r.plans \in PlanSet /\ r.cmd = "rekey"
         /\ ValidSet(r.plans) /\ r.draft \in Manifest
         /\ r.work \cup r.stale \cup r.doomed \subseteq Targets(r.plans)
         /\ files \in [Path -> File]
         /\ Rekeying(r, files)
         /\ \A t \in Targets(r.plans) : Accounted(r, files, t)
  BY RunIsSound DEF Orderly, Steadily, Rekeying, Sound, RunState, KeepsToPlans,
     Inv, TypeOK

(* A source is read: its targets wait in hand instead of with the source,  *)
(* and what was read is what the source is.                                *)
LEMMA ReadSourceIsSteady ==
  ASSUME Inv, NEW p \in Proc, Orderly(run[p]),
         Steadily(run[p], files, manifest), Moves(p), ReadSource(p)
  PROVE  Steadily(run'[p], files', manifest')
<1> DEFINE r == run[p]
<1>1. /\ r.pc = "classify" /\ r.work = {} /\ r.doomed = {}
      /\ files' = files /\ manifest' = manifest
  BY DEF ReadSource, Reading, storeVars
<1>2. /\ r \in RunState /\ r.plans \in PlanSet /\ r.cmd = "rekey"
      /\ Rekeying(r, files) /\ \A t \in Targets(r.plans) : Accounted(r, files, t)
  BY <1>1, RekeyFacts
<1>3. PICK x \in r.unread :
        Goto(p, [r EXCEPT !.unread   = @ \ {x},
                          !.bytes[x] = files[x],
                          !.work     = Consumers(r.plans, x)])
  BY DEF ReadSource
<1> DEFINE work  == Consumers(r.plans, x)
           state == [r EXCEPT !.unread = @ \ {x}, !.bytes[x] = files[x],
                              !.work = work]
<1>4. Goto(p, state) /\ \A t \in Targets(r.plans) : t \in work <=> Source(r.plans, t) = x
  BY <1>3 DEF Consumers
<1> HIDE DEF work
<1>5. /\ SameRekey(r, state) /\ state.pc = r.pc /\ state.draft = r.draft
      /\ state.unread = r.unread \ {x} /\ state.work = work
      /\ state.stale = r.stale /\ state.doomed = r.doomed
      /\ state.failed = r.failed /\ state.left = r.left
      /\ \A y \in Path : state.bytes[y] = IF y = x THEN files[x] ELSE r.bytes[y]
  BY <1>2 DEF RunState, SameRekey
<1>6. work \subseteq Targets(r.plans)
  BY <1>2, PlanTypes DEF work
<1>7. \A t \in Targets(r.plans) : Source(r.plans, t) \in Path
  BY <1>2, PlanTypes
<1> HIDE DEF state
<1>8. ASSUME NEW t \in Targets(r.plans)
      PROVE  Accounted(state, files, t)
  <2>1. Waiting(state, t) <=> Waiting(r, t)
    BY <1>1, <1>4, <1>5 DEF Waiting, SameRekey
  <2>2. \/ Waiting(r, t)
        \/ state.bytes[Source(r.plans, t)] = r.bytes[Source(r.plans, t)]
    BY <1>5, <1>7 DEF Waiting
  <2> QED
    BY <1>2, <1>5, <2>1, <2>2, AccountIsKept DEF SameRekey
<1>9. Rekeying(state, files')
  BY <1>1, <1>2, <1>4, <1>5, <1>6, <1>8 DEF Rekeying, SameRekey
<1>10. Steadily(state, files', manifest')
  BY <1>1, <1>2, <1>5, <1>7, <1>9, RekeyGoesOn DEF SameRekey
<1> QED
  BY <1>4, <1>10, GotoIs

(* A source cannot be read: its targets fail, without entries, and are to  *)
(* be purged.                                                              *)
LEMMA UnreadableSourceIsSteady ==
  ASSUME Inv, NEW p \in Proc, Orderly(run[p]),
         Steadily(run[p], files, manifest), Moves(p), UnreadableSource(p)
  PROVE  Steadily(run'[p], files', manifest')
<1> DEFINE r == run[p]
<1>1. /\ r.pc = "classify" /\ r.work = {} /\ r.doomed = {}
      /\ files' = files /\ manifest' = manifest
  BY DEF UnreadableSource, Reading
<1>2. /\ r \in RunState /\ r.plans \in PlanSet /\ r.cmd = "rekey"
      /\ Rekeying(r, files) /\ \A t \in Targets(r.plans) : Accounted(r, files, t)
  BY <1>1, RekeyFacts
<1>3. PICK x \in r.unread :
        Goto(p, [r EXCEPT !.unread = @ \ {x},
                          !.doomed = Consumers(r.plans, x),
                          !.failed = @ \cup Consumers(r.plans, x)])
  BY DEF UnreadableSource
<1> DEFINE lost  == Consumers(r.plans, x)
           state == [r EXCEPT !.unread = @ \ {x}, !.doomed = lost,
                              !.failed = @ \cup lost]
<1>4. /\ Goto(p, state)
      /\ \A t \in Targets(r.plans) : t \in lost <=> Source(r.plans, t) = x
  BY <1>3 DEF Consumers
<1> HIDE DEF lost
<1>5. /\ SameRekey(r, state) /\ state.pc = r.pc /\ state.draft = r.draft
      /\ state.unread = r.unread \ {x} /\ state.work = r.work
      /\ state.stale = r.stale /\ state.doomed = lost
      /\ state.failed = r.failed \cup lost /\ state.left = r.left
      /\ state.bytes = r.bytes
  BY <1>2 DEF RunState, SameRekey
<1> HIDE DEF state
<1>6. ASSUME NEW t \in Targets(r.plans)
      PROVE  Accounted(state, files, t)
  <2>1. CASE t \in lost
    <3>1. Waiting(r, t)
      BY <1>4, <2>1 DEF Waiting
    <3>2. Entry(r.draft, t) = None
      BY <1>2, <3>1 DEF Accounted
    <3>3. ~Waiting(state, t)
      BY <1>1, <1>2, <1>4, <1>5, <2>1 DEF Waiting, SameRekey, Rekeying
    <3> QED
      BY <1>5, <2>1, <3>2, <3>3 DEF Accounted
  <2>2. CASE t \notin lost
    <3>1. Waiting(state, t) <=> Waiting(r, t)
      BY <1>4, <1>5, <2>2 DEF Waiting, SameRekey
    <3> QED
      BY <1>1, <1>2, <1>5, <2>2, <3>1, AccountIsKept DEF SameRekey
  <2> QED
    BY <2>1, <2>2
<1>7. Rekeying(state, files')
  BY <1>1, <1>2, <1>5, <1>6 DEF Rekeying, SameRekey
<1>8. Steadily(state, files', manifest')
  BY <1>1, <1>2, <1>4, <1>5, <1>7, RekeyGoesOn DEF SameRekey
<1> QED
  BY <1>4, <1>8, GotoIs

(* The entry that a skipped target keeps is the fingerprint of the source  *)
(* and the output as they are now.                                         *)
LEMMA KeepsEntry ==
  ASSUME NEW m \in Manifest, NEW plans \in PlanSet, NEW t \in Targets(plans),
         NEW source, NEW output, MatchesPrev(m, plans, t, source, output)
  PROVE  /\ Entry(m, t) \in SecretFingerprint
         /\ Entry(m, t) = Fingerprint(source, Output(plans, t), output)
<1>1. t[1] \in Host /\ t[2] \in Name
  BY DEF Targets
<1>2. m.hosts[t[1]] # None /\ Entry(m, t) # None
  BY DEF MatchesPrev, MatchesHeader
<1>3. Entry(m, t) \in SecretFingerprint
  BY <1>1, <1>2 DEF Manifest, HostSection, Entry
<1> DEFINE fp == Entry(m, t)
<1>4. /\ fp.source_sha256 = Sha(source) /\ fp.output_file = Output(plans, t)
      /\ fp.output_sha256 = Sha(output)
  BY DEF MatchesPrev
<1> HIDE DEF fp
<1> QED
  BY <1>3, <1>4 DEF SecretFingerprint, Fingerprint, fp

(* What entering a fingerprint for t changes in the draft of a rekey.      *)
LEMMA DraftWithEntry ==
  ASSUME NEW m \in Manifest, NEW plans \in PlanSet, NEW t \in Targets(plans),
         HasHeaders(m, plans), NEW fp \in SecretFingerprint
  PROVE  LET w == WithEntry(m, t, fp) IN
         /\ HasHeaders(w, plans)
         /\ w.sources = m.sources
         /\ \A h \in Host \ Planned(plans) : w.hosts[h] = m.hosts[h]
         /\ \A u \in Targets(plans) :
              Entry(w, u) = IF u = t THEN fp ELSE Entry(m, u)
<1>1. t \in Target /\ Targets(plans) \subseteq Target
  BY PlanTypes
<1>2. \A u \in Targets(plans) : u[1] \in Planned(plans)
  BY DEF Targets, Planned
<1>3. \A u \in Targets(plans) : m.hosts[u[1]] # None
  BY <1>2 DEF HasHeaders
<1>4. HasHeaders(WithEntry(m, t, fp), plans)
  BY <1>1, <1>3, WithEntryHasHeaders
<1>5. \A u \in Targets(plans) :
        Entry(WithEntry(m, t, fp), u) = IF u = t THEN fp ELSE Entry(m, u)
  BY <1>1, <1>3, WithEntryIs
<1> QED
  BY <1>1, <1>2, <1>4, <1>5, WithEntryElsewhere

(* A target is skipped - its output carries the source, for the skip       *)
(* decision is right - or joins the stale ones.                            *)
LEMMA ClassifyTargetIsSteady ==
  ASSUME Inv, NEW p \in Proc, Orderly(run[p]),
         Steadily(run[p], files, manifest), Moves(p), ClassifyTarget(p)
  PROVE  Steadily(run'[p], files', manifest')
<1> DEFINE r == run[p]
<1>1. r.pc = "classify" /\ files' = files /\ manifest' = manifest
  BY DEF ClassifyTarget, storeVars
<1>2. /\ r \in RunState /\ r.plans \in PlanSet /\ r.cmd = "rekey"
      /\ Rekeying(r, files) /\ \A t \in Targets(r.plans) : Accounted(r, files, t)
      /\ r.draft \in Manifest /\ r.work \cup r.stale \subseteq Targets(r.plans)
  BY <1>1, RekeyFacts
<1>3. r.loaded \in Manifest /\ Certified(r.loaded)
  BY RunIsSound DEF Sound, RunState, WorksSoundly
<1>4. PICK t \in r.work :
        IF MatchesPrev(r.loaded, r.plans, t, r.bytes[Source(r.plans, t)],
                       files[Output(r.plans, t)])
        THEN Goto(p, [r EXCEPT !.work  = @ \ {t},
                               !.draft = WithEntry(@, t, Entry(r.loaded, t))])
        ELSE Goto(p, [r EXCEPT !.work  = @ \ {t},
                               !.stale = @ \cup {t}])
  BY DEF ClassifyTarget
<1> DEFINE source == r.bytes[Source(r.plans, t)]
           output == files[Output(r.plans, t)]
<1>5. t \in Targets(r.plans) /\ Waiting(r, t) /\ t \notin r.failed
  BY <1>2 DEF Waiting, Accounted
<1>6. CASE MatchesPrev(r.loaded, r.plans, t, source, output)
  <2> DEFINE fp    == Entry(r.loaded, t)
             new   == WithEntry(r.draft, t, fp)
             state == [r EXCEPT !.work = @ \ {t}, !.draft = new]
  <2>1. Goto(p, state)
    BY <1>4, <1>6
  <2>2. /\ fp \in SecretFingerprint
        /\ fp = Fingerprint(source, Output(r.plans, t), output)
    BY <1>2, <1>3, <1>5, <1>6, KeepsEntry
  <2>3. Carries(output, source, r.plans[t[1]].master_identities,
                r.plans[t[1]].host_pubkey)
    BY <1>2, <1>3, <1>5, <1>6, MatchIsCarried
  <2> HIDE DEF fp
  <2>4. /\ HasHeaders(new, r.plans) /\ new.sources = r.draft.sources
        /\ \A h \in Host \ Planned(r.plans) : new.hosts[h] = r.draft.hosts[h]
        /\ \A u \in Targets(r.plans) :
             Entry(new, u) = IF u = t THEN fp ELSE Entry(r.draft, u)
    BY <1>1, <1>2, <1>5, <2>2, DraftWithEntry DEF Rekeying
  <2> HIDE DEF new
  <2>5. /\ SameRekey(r, state) /\ state.pc = r.pc /\ state.draft = new
        /\ state.unread = r.unread /\ state.work = r.work \ {t}
        /\ state.stale = r.stale /\ state.doomed = r.doomed
        /\ state.failed = r.failed /\ state.left = r.left
        /\ state.bytes = r.bytes
    BY <1>2 DEF RunState, SameRekey
  <2> HIDE DEF state
  <2>6. ASSUME NEW u \in Targets(r.plans)
        PROVE  Accounted(state, files, u)
    <3>1. CASE u = t
      <4>1. ~Waiting(state, t)
        BY <1>1, <1>2, <2>5 DEF Waiting, SameRekey, Rekeying
      <4>2. Done(state, files, t)
        BY <1>5, <2>2, <2>3, <2>4, <2>5 DEF Done, SameRekey
      <4> QED
        BY <1>5, <2>5, <3>1, <4>1, <4>2 DEF Accounted
    <3>2. CASE u # t
      <4>1. Waiting(state, u) <=> Waiting(r, u)
        BY <2>5, <3>2 DEF Waiting, SameRekey
      <4> QED
        BY <1>2, <2>4, <2>5, <3>2, <4>1, AccountIsKept DEF SameRekey
    <3> QED
      BY <3>1, <3>2
  <2>7. Rekeying(state, files')
    BY <1>1, <1>2, <2>4, <2>5, <2>6 DEF Rekeying, SameRekey
  <2>8. Steadily(state, files', manifest')
    BY <1>1, <1>2, <2>4, <2>5, <2>7, RekeyGoesOn DEF SameRekey
  <2> QED
    BY <2>1, <2>8, GotoIs
<1>7. CASE ~MatchesPrev(r.loaded, r.plans, t, source, output)
  <2> DEFINE state == [r EXCEPT !.work = @ \ {t}, !.stale = @ \cup {t}]
  <2>1. Goto(p, state)
    BY <1>4, <1>7
  <2>2. /\ SameRekey(r, state) /\ state.pc = r.pc /\ state.draft = r.draft
        /\ state.unread = r.unread /\ state.work = r.work \ {t}
        /\ state.stale = r.stale \cup {t} /\ state.doomed = r.doomed
        /\ state.failed = r.failed /\ state.left = r.left
        /\ state.bytes = r.bytes
    BY <1>2 DEF RunState, SameRekey
  <2> HIDE DEF state
  <2>3. ASSUME NEW u \in Targets(r.plans)
        PROVE  Accounted(state, files, u)
    <3>1. Waiting(state, u) <=> Waiting(r, u)
      BY <2>2 DEF Waiting, SameRekey
    <3> QED
      BY <1>2, <2>2, <3>1, AccountIsKept DEF SameRekey
  <2>4. Rekeying(state, files')
    BY <1>1, <1>2, <2>2, <2>3 DEF Rekeying, SameRekey
  <2>5. Steadily(state, files', manifest')
    BY <1>1, <1>2, <2>2, <2>4, RekeyGoesOn DEF SameRekey
  <2> QED
    BY <2>1, <2>5, GotoIs
<1> QED
  BY <1>6, <1>7

(* All sources are read; the session is opened.                            *)
LEMMA EndClassifyIsSteady ==
  ASSUME Inv, NEW p \in Proc, Orderly(run[p]),
         Steadily(run[p], files, manifest), Moves(p), EndClassify(p)
  PROVE  Steadily(run'[p], files', manifest')
<1> DEFINE r == run[p]
<1>1. r.pc = "classify" /\ files' = files /\ manifest' = manifest
  BY DEF EndClassify, Reading
<1>2. /\ r \in RunState /\ r.plans \in PlanSet /\ r.cmd = "rekey"
      /\ Rekeying(r, files) /\ \A t \in Targets(r.plans) : Accounted(r, files, t)
  BY <1>1, RekeyFacts
<1>3. PICK session \in SUBSET PluginKey :
        Goto(p, [r EXCEPT !.pc = "decrypt", !.session = session])
  BY DEF EndClassify
<1> DEFINE state == [r EXCEPT !.pc = "decrypt", !.session = session]
<1>4. /\ SameRekey(r, state) /\ state.pc = "decrypt" /\ state.draft = r.draft
      /\ state.unread = r.unread /\ state.work = r.work
      /\ state.stale = r.stale /\ state.doomed = r.doomed
      /\ state.failed = r.failed /\ state.left = r.left
      /\ state.bytes = r.bytes
  BY <1>2 DEF RunState, SameRekey
<1>5. Goto(p, state)
  BY <1>3
<1> HIDE DEF state
<1>6. ASSUME NEW t \in Targets(r.plans)
      PROVE  Accounted(state, files, t)
  <2>1. Waiting(state, t) <=> Waiting(r, t)
    BY <1>4 DEF Waiting, SameRekey
  <2> QED
    BY <1>2, <1>4, <2>1, AccountIsKept DEF SameRekey
<1>7. Rekeying(state, files')
  BY <1>1, <1>2, <1>4, <1>6 DEF Rekeying, SameRekey
<1>8. Steadily(state, files', manifest')
  BY <1>1, <1>2, <1>4, <1>7, RekeyGoesOn DEF SameRekey
<1> QED
  BY <1>5, <1>8, GotoIs

(* A source is decrypted, and its stale targets are in hand; or it is not, *)
(* and they fail.                                                          *)
LEMMA DecryptIsSteady ==
  ASSUME Inv, NEW p \in Proc, Orderly(run[p]),
         Steadily(run[p], files, manifest), Moves(p),
         DecryptSource(p) \/ DecryptFails(p)
  PROVE  Steadily(run'[p], files', manifest')
<1> DEFINE r == run[p]
<1>1. /\ r.pc = "decrypt" /\ r.work = {} /\ r.doomed = {}
      /\ files' = files /\ manifest' = manifest
  BY DEF DecryptSource, DecryptFails, Decrypting, storeVars
<1>2. /\ r \in RunState /\ r.plans \in PlanSet /\ r.cmd = "rekey"
      /\ Rekeying(r, files) /\ \A t \in Targets(r.plans) : Accounted(r, files, t)
      /\ r.stale \subseteq Targets(r.plans)
  BY <1>1, RekeyFacts
<1>3. CASE DecryptSource(p)
  <2>1. PICK x \in Pending(r) : Goto(p, [r EXCEPT !.work  = StaleOf(r, x),
                                                  !.stale = @ \ StaleOf(r, x)])
    BY <1>3 DEF DecryptSource
  <2> DEFINE work  == StaleOf(r, x)
             state == [r EXCEPT !.work = work, !.stale = @ \ work]
  <2>2. Goto(p, state) /\ work \subseteq r.stale
    BY <2>1 DEF StaleOf
  <2> HIDE DEF work
  <2>3. /\ SameRekey(r, state) /\ state.pc = r.pc /\ state.draft = r.draft
        /\ state.unread = r.unread /\ state.work = work
        /\ state.stale = r.stale \ work /\ state.doomed = r.doomed
        /\ state.failed = r.failed /\ state.left = r.left
        /\ state.bytes = r.bytes
    BY <1>2 DEF RunState, SameRekey
  <2> HIDE DEF state
  <2>4. ASSUME NEW t \in Targets(r.plans)
        PROVE  Accounted(state, files, t)
    <3>1. Waiting(state, t) <=> Waiting(r, t)
      BY <1>1, <2>2, <2>3 DEF Waiting, SameRekey
    <3> QED
      BY <1>2, <2>3, <3>1, AccountIsKept DEF SameRekey
  <2>5. Rekeying(state, files')
    BY <1>1, <1>2, <2>2, <2>3, <2>4 DEF Rekeying, SameRekey
  <2>6. Steadily(state, files', manifest')
    BY <1>1, <1>2, <2>3, <2>5, RekeyGoesOn DEF SameRekey
  <2> QED
    BY <2>2, <2>6, GotoIs
<1>4. CASE DecryptFails(p)
  <2>1. PICK x \in Pending(r) : Goto(p, [r EXCEPT !.stale  = @ \ StaleOf(r, x),
                                                  !.doomed = StaleOf(r, x),
                                                  !.failed = @ \cup StaleOf(r, x)])
    BY <1>4 DEF DecryptFails
  <2> DEFINE lost  == StaleOf(r, x)
             state == [r EXCEPT !.stale = @ \ lost, !.doomed = lost,
                                !.failed = @ \cup lost]
  <2>2. Goto(p, state) /\ lost \subseteq r.stale
    BY <2>1 DEF StaleOf
  <2> HIDE DEF lost
  <2>3. /\ SameRekey(r, state) /\ state.pc = r.pc /\ state.draft = r.draft
        /\ state.unread = r.unread /\ state.work = r.work
        /\ state.stale = r.stale \ lost /\ state.doomed = lost
        /\ state.failed = r.failed \cup lost /\ state.left = r.left
        /\ state.bytes = r.bytes
    BY <1>2 DEF RunState, SameRekey
  <2> HIDE DEF state
  <2>4. ASSUME NEW t \in Targets(r.plans)
        PROVE  Accounted(state, files, t)
    <3>1. CASE t \in lost
      <4>1. Waiting(r, t)
        BY <2>2, <3>1 DEF Waiting
      <4>2. Entry(r.draft, t) = None
        BY <1>2, <4>1 DEF Accounted
      <4>3. ~Waiting(state, t)
        BY <1>1, <1>2, <2>2, <2>3, <3>1 DEF Waiting, SameRekey, Rekeying
      <4> QED
        BY <2>3, <3>1, <4>2, <4>3 DEF Accounted
    <3>2. CASE t \notin lost
      <4>1. Waiting(state, t) <=> Waiting(r, t)
        BY <2>3, <3>2 DEF Waiting, SameRekey
      <4> QED
        BY <1>1, <1>2, <2>3, <3>2, <4>1, AccountIsKept DEF SameRekey
    <3> QED
      BY <3>1, <3>2
  <2>5. Rekeying(state, files')
    BY <1>1, <1>2, <2>2, <2>3, <2>4 DEF Rekeying, SameRekey
  <2>6. Steadily(state, files', manifest')
    BY <1>1, <1>2, <2>3, <2>5, RekeyGoesOn DEF SameRekey
  <2> QED
    BY <2>2, <2>6, GotoIs
<1> QED
  BY <1>3, <1>4

(* A target is encrypted: its output carries the source as it was read,    *)
(* the new entry names just these bytes, and no other output is touched.   *)
LEMMA FanOutIsSteady ==
  ASSUME Inv, NEW p \in Proc, Orderly(run[p]),
         Steadily(run[p], files, manifest), Moves(p), FanOut(p)
  PROVE  Steadily(run'[p], files', manifest')
<1> DEFINE r == run[p]
<1>1. r.pc = "decrypt" /\ manifest' = manifest
  BY DEF FanOut
<1>2. /\ r \in RunState /\ r.plans \in PlanSet /\ r.cmd = "rekey"
      /\ Rekeying(r, files) /\ \A t \in Targets(r.plans) : Accounted(r, files, t)
      /\ r.draft \in Manifest /\ r.work \cup r.stale \subseteq Targets(r.plans)
      /\ files \in [Path -> File] /\ ValidSet(r.plans)
  BY <1>1, RekeyFacts
<1>3. PICK t \in r.work :
        LET source == r.bytes[Source(r.plans, t)]
            path   == Output(r.plans, t)
            host   == {r.plans[t[1]].host_pubkey}
            cipher == Encrypt(source.plain, host) IN
        /\ NewCiphers(source.plain, host) # {}
        /\ files' = [files EXCEPT ![path] = cipher]
        /\ Goto(p, [r EXCEPT
             !.work  = @ \ {t},
             !.draft = WithEntry(@, t, Fingerprint(source, path, cipher))])
  BY DEF FanOut
<1> DEFINE source == r.bytes[Source(r.plans, t)]
           path   == Output(r.plans, t)
           host   == {r.plans[t[1]].host_pubkey}
           cipher == Encrypt(source.plain, host)
           fp     == Fingerprint(source, path, cipher)
           new    == WithEntry(r.draft, t, fp)
           state  == [r EXCEPT !.work = @ \ {t}, !.draft = new]
<1>4. /\ t \in Targets(r.plans) /\ path \in Path
      /\ source \in Cipher /\ source.plain \in Plain /\ host \in SUBSET Key
      /\ Decrypts(source, r.plans[t[1]].master_identities \cup PluginKey)
  BY <1>1, RunIsSound, WorkIsDecrypted
<1>5. cipher \in Cipher /\ cipher.plain = source.plain /\ cipher.to = host
  BY <1>3, <1>4, EncryptType
<1>6. Carries(cipher, source, r.plans[t[1]].master_identities,
              r.plans[t[1]].host_pubkey)
  BY <1>4, <1>5 DEF Carries
<1>7. fp \in SecretFingerprint
  BY <1>4, <1>5, FingerprintType DEF Content
<1>8. Goto(p, state) /\ files' = [files EXCEPT ![path] = cipher]
  BY <1>3
<1>9. Waiting(r, t) /\ t \notin r.failed
  BY <1>2, <1>4 DEF Waiting, Accounted
<1> HIDE DEF cipher, fp
<1>10. /\ HasHeaders(new, r.plans) /\ new.sources = r.draft.sources
       /\ \A h \in Host \ Planned(r.plans) : new.hosts[h] = r.draft.hosts[h]
       /\ \A u \in Targets(r.plans) :
            Entry(new, u) = IF u = t THEN fp ELSE Entry(r.draft, u)
  BY <1>1, <1>2, <1>4, <1>7, DraftWithEntry DEF Rekeying
<1> HIDE DEF new
<1>11. /\ SameRekey(r, state) /\ state.pc = r.pc /\ state.draft = new
       /\ state.unread = r.unread /\ state.work = r.work \ {t}
       /\ state.stale = r.stale /\ state.doomed = r.doomed
       /\ state.failed = r.failed /\ state.left = r.left
       /\ state.bytes = r.bytes
  BY <1>2 DEF RunState, SameRekey
<1> HIDE DEF state
<1>12. ASSUME NEW u \in Targets(r.plans)
       PROVE  Accounted(state, files', u)
  <2>1. CASE u = t
    <3>1. ~Waiting(state, t)
      BY <1>1, <1>2, <1>11 DEF Waiting, SameRekey, Rekeying
    <3>2. files'[path] = cipher
      BY <1>2, <1>4, <1>8
    <3>3. Done(state, files', t)
      BY <1>4, <1>6, <1>10, <1>11, <3>2 DEF Done, SameRekey, fp
    <3> QED
      BY <1>9, <1>11, <2>1, <3>1, <3>3 DEF Accounted
  <2>2. CASE u # t
    <3>1. Waiting(state, u) <=> Waiting(r, u)
      BY <1>11, <2>2 DEF Waiting, SameRekey
    <3>2. files'[Output(r.plans, u)] = files[Output(r.plans, u)]
      BY <1>2, <1>4, <1>8, <2>2, OutputsDiffer
    <3> QED
      BY <1>2, <1>10, <1>11, <2>2, <3>1, <3>2, AccountIsKept DEF SameRekey
  <2> QED
    BY <2>1, <2>2
<1>13. Rekeying(state, files')
  BY <1>1, <1>2, <1>10, <1>11, <1>12 DEF Rekeying, SameRekey
<1>14. Steadily(state, files', manifest')
  BY <1>1, <1>2, <1>10, <1>11, <1>13, RekeyGoesOn DEF SameRekey
<1> QED
  BY <1>8, <1>14, GotoIs

(* Encrypting or writing a target fails: whatever is at its output now is  *)
(* to be purged.                                                           *)
LEMMA FanOutFailsIsSteady ==
  ASSUME Inv, NEW p \in Proc, Orderly(run[p]),
         Steadily(run[p], files, manifest), Moves(p), FanOutFails(p)
  PROVE  Steadily(run'[p], files', manifest')
<1> DEFINE r == run[p]
<1>1. r.pc = "decrypt" /\ r.doomed = {} /\ manifest' = manifest
  BY DEF FanOutFails
<1>2. /\ r \in RunState /\ r.plans \in PlanSet /\ r.cmd = "rekey"
      /\ Rekeying(r, files) /\ \A t \in Targets(r.plans) : Accounted(r, files, t)
      /\ r.work \cup r.stale \subseteq Targets(r.plans)
      /\ files \in [Path -> File] /\ ValidSet(r.plans)
  BY <1>1, RekeyFacts
<1>3. PICK t \in r.work :
        /\ \/ files' = files
           \/ \E c : files' = [files EXCEPT ![Output(r.plans, t)] = c]
        /\ Goto(p, [r EXCEPT !.work   = @ \ {t},
                             !.doomed = {t},
                             !.failed = @ \cup {t}])
  BY DEF FanOutFails
<1> DEFINE state == [r EXCEPT !.work = @ \ {t}, !.doomed = {t},
                              !.failed = @ \cup {t}]
<1>4. t \in Targets(r.plans) /\ Waiting(r, t) /\ Entry(r.draft, t) = None
  BY <1>2 DEF Waiting, Accounted
<1>5. /\ SameRekey(r, state) /\ state.pc = r.pc /\ state.draft = r.draft
      /\ state.unread = r.unread /\ state.work = r.work \ {t}
      /\ state.stale = r.stale /\ state.doomed = {t}
      /\ state.failed = r.failed \cup {t} /\ state.left = r.left
      /\ state.bytes = r.bytes
  BY <1>2 DEF RunState, SameRekey
<1>6. Goto(p, state)
  BY <1>3
<1> HIDE DEF state
<1>7. ASSUME NEW u \in Targets(r.plans)
      PROVE  Accounted(state, files', u)
  <2>1. CASE u = t
    <3>1. ~Waiting(state, t)
      BY <1>1, <1>2, <1>5 DEF Waiting, SameRekey, Rekeying
    <3> QED
      BY <1>4, <1>5, <2>1, <3>1 DEF Accounted
  <2>2. CASE u # t
    <3>1. Waiting(state, u) <=> Waiting(r, u)
      BY <1>5, <2>2 DEF Waiting, SameRekey
    <3>2. files'[Output(r.plans, u)] = files[Output(r.plans, u)]
      BY <1>2, <1>3, <1>4, <2>2, OutputsDiffer
    <3> QED
      BY <1>1, <1>2, <1>5, <2>2, <3>1, <3>2, AccountIsKept DEF SameRekey
  <2> QED
    BY <2>1, <2>2
<1>8. Rekeying(state, files')
  BY <1>1, <1>2, <1>5, <1>7 DEF Rekeying, SameRekey
<1>9. Steadily(state, files', manifest')
  BY <1>1, <1>2, <1>5, <1>8, RekeyGoesOn DEF SameRekey
<1> QED
  BY <1>6, <1>9, GotoIs

(* The output of a failed target is removed, or reported as left behind.   *)
LEMMA PurgeIsSteady ==
  ASSUME Inv, NEW p \in Proc, Orderly(run[p]),
         Steadily(run[p], files, manifest), Moves(p),
         PurgeOutput(p) \/ PurgeFails(p)
  PROVE  Steadily(run'[p], files', manifest')
<1> DEFINE r == run[p]
<1>1. /\ r.pc \in {"classify", "decrypt"} /\ manifest' = manifest
  BY RunIsSound DEF PurgeOutput, PurgeFails, Orderly, Sound, RunState
<1>2. /\ r \in RunState /\ r.plans \in PlanSet /\ r.cmd = "rekey"
      /\ Rekeying(r, files) /\ \A t \in Targets(r.plans) : Accounted(r, files, t)
      /\ r.doomed \subseteq Targets(r.plans) /\ r.doomed \subseteq r.failed
      /\ files \in [Path -> File] /\ ValidSet(r.plans)
  BY <1>1, RekeyFacts DEF Rekeying
<1>3. PICK t \in r.doomed : \E left \in {r.left, r.left \cup {t}} :
        /\ Goto(p, [r EXCEPT !.doomed = @ \ {t}, !.left = left])
        /\ \/ t \in left /\ files' = files
           \/ files' = [files EXCEPT ![Output(r.plans, t)] = Absent]
  <2>1. CASE PurgeOutput(p)
    <3>1. PICK t \in r.doomed :
            /\ files' = [files EXCEPT ![Output(r.plans, t)] = Absent]
            /\ Goto(p, [r EXCEPT !.doomed = @ \ {t}])
      BY <2>1 DEF PurgeOutput
    <3>2. [r EXCEPT !.doomed = @ \ {t}]
            = [r EXCEPT !.doomed = @ \ {t}, !.left = r.left]
      BY <1>2 DEF RunState
    <3> QED
      BY <3>1, <3>2
  <2>2. CASE PurgeFails(p)
    BY <2>2 DEF PurgeFails
  <2> QED
    BY <2>1, <2>2
<1>4. PICK left \in {r.left, r.left \cup {t}} :
        /\ Goto(p, [r EXCEPT !.doomed = @ \ {t}, !.left = left])
        /\ \/ t \in left /\ files' = files
           \/ files' = [files EXCEPT ![Output(r.plans, t)] = Absent]
  BY <1>3
<1> DEFINE state == [r EXCEPT !.doomed = @ \ {t}, !.left = left]
<1>5. /\ SameRekey(r, state) /\ state.pc = r.pc /\ state.draft = r.draft
      /\ state.unread = r.unread /\ state.work = r.work
      /\ state.stale = r.stale /\ state.doomed = r.doomed \ {t}
      /\ state.failed = r.failed /\ state.left = left
      /\ state.bytes = r.bytes
  BY <1>2 DEF RunState, SameRekey
<1>6. Goto(p, state)
  BY <1>4
<1>7. t \in Targets(r.plans) /\ t \in r.failed /\ Output(r.plans, t) \in Path
  BY <1>2, PlanTypes
<1> HIDE DEF state
<1>8. ASSUME NEW u \in Targets(r.plans)
      PROVE  Accounted(state, files', u)
  <2>1. Waiting(state, u) <=> Waiting(r, u)
    BY <1>5 DEF Waiting, SameRekey
  <2>2. CASE u = t
    <3>1. t \in left \/ files'[Output(r.plans, t)] = Absent
      BY <1>2, <1>4, <1>7
    <3> QED
      BY <1>2, <1>5, <1>7, <2>1, <2>2, <3>1 DEF Accounted, SameRekey
  <2>3. CASE u # t
    <3>1. files'[Output(r.plans, u)] = files[Output(r.plans, u)]
      BY <1>2, <1>4, <1>7, <2>3, OutputsDiffer
    <3> QED
      BY <1>2, <1>5, <2>1, <2>3, <3>1, AccountIsKept DEF SameRekey
  <2> QED
    BY <2>2, <2>3
<1>9. Rekeying(state, files')
  BY <1>1, <1>2, <1>4, <1>5, <1>8 DEF Rekeying, SameRekey
<1>10. Steadily(state, files', manifest')
  BY <1>1, <1>2, <1>5, <1>9, RekeyGoesOn DEF SameRekey
<1> QED
  BY <1>6, <1>10, GotoIs

(* All is fanned out; the sweep begins with every host, or the rekey ends  *)
(* in an error when an output was left behind.                             *)
LEMMA EndFanOutIsSteady ==
  ASSUME Inv, NEW p \in Proc, Orderly(run[p]),
         Steadily(run[p], files, manifest), Moves(p), EndFanOut(p)
  PROVE  Steadily(run'[p], files', manifest')
<1> DEFINE r     == run[p]
           hosts == Planned(r.plans)
           state == [r EXCEPT !.pc = "sweep", !.unswept = hosts]
<1>1. /\ r.pc = "decrypt" /\ files' = files /\ manifest' = manifest
      /\ Goto(p, state) \/ Goto(p, Idle("error"))
  BY DEF EndFanOut, Decrypting, Return, storeVars
<1>2. /\ r \in RunState /\ r.plans \in PlanSet /\ r.cmd = "rekey"
      /\ Rekeying(r, files) /\ \A t \in Targets(r.plans) : Accounted(r, files, t)
  BY <1>1, RekeyFacts
<1>3. CASE Goto(p, state)
  <2> HIDE DEF hosts
  <2>1. /\ SameRekey(r, state) /\ state.pc = "sweep" /\ state.draft = r.draft
        /\ state.unread = r.unread /\ state.work = r.work
        /\ state.stale = r.stale /\ state.doomed = r.doomed
        /\ state.failed = r.failed /\ state.left = r.left
        /\ state.bytes = r.bytes /\ state.unswept = hosts
    BY <1>2 DEF RunState, SameRekey
  <2>2. Goto(p, state)
    BY <1>3
  <2> HIDE DEF state
  <2>3. ASSUME NEW t \in Targets(r.plans)
        PROVE  Accounted(state, files, t)
    <3>1. Waiting(state, t) <=> Waiting(r, t)
      BY <2>1 DEF Waiting, SameRekey
    <3> QED
      BY <1>2, <2>1, <3>1, AccountIsKept DEF SameRekey
  <2>4. Rekeying(state, files')
    BY <1>1, <1>2, <2>1, <2>3 DEF Rekeying, SameRekey
  <2>5. Steadily(state, files', manifest')
    BY <1>1, <1>2, <2>1, <2>4, RekeyGoesOn DEF SameRekey, hosts
  <2> QED
    BY <2>2, <2>5, GotoIs
<1>4. CASE Goto(p, Idle("error"))
  BY <1>4, ReturnIsSteady, GotoIs
<1> QED
  BY <1>1, <1>3, <1>4

-----------------------------------------------------------------------------
(* The sweep, of rekey or of gc *)

(* What a step of a sweep keeps, when it changes nothing but where it is.  *)
SameSweep(r, s) ==
  /\ s.cmd = r.cmd /\ s.plans = r.plans /\ s.loaded = r.loaded
  /\ s.secret = r.secret /\ s.staged = r.staged /\ s.draft = r.draft
  /\ s.unread = r.unread /\ s.work = r.work /\ s.stale = r.stale
  /\ s.doomed = r.doomed /\ s.failed = r.failed /\ s.left = r.left
  /\ s.bytes = r.bytes

(* What a sweep removes is a path and no output of its plans.              *)
LEMMA SweepFacts ==
  ASSUME Inv, NEW p \in Proc
  PROVE  LET r == run[p] IN
         /\ r \in RunState /\ r.plans \in PlanSet /\ ValidSet(r.plans)
         /\ files \in [Path -> File] /\ r.victims \cap Outputs(r.plans) = {}
         /\ r.victims \subseteq Path
         /\ \A h \in Planned(r.plans) : Orphans(r.plans, h) \subseteq Path
<1>1. run[p].plans \in PlanSet
  BY RunIsSound
<1>2. \A h \in Planned(run[p].plans) : Orphans(run[p].plans, h) \subseteq Path
  BY <1>1 DEF Orphans, Planned, PlanSet, Plan
<1> QED
  BY <1>2, RunIsSound DEF Sound, KeepsToPlans, RunState, Inv, TypeOK

(* What every step of a sweep has in common: it changes no file but those  *)
(* it lists, and of each host it is done with every orphan is gone or      *)
(* listed.                                                                 *)
LEMMA SweepGoesOn ==
  ASSUME Inv, NEW p \in Proc, Orderly(run[p]),
         Steadily(run[p], files, manifest), Moves(p), NEW state,
         run[p].pc = "sweep", manifest' = manifest,
         SameSweep(run[p], state), state.pc \in {"sweep", "commit"},
         \A x \in Path \ run[p].victims : files'[x] = files[x],
         \A h \in Planned(run[p].plans) \ state.unswept :
           \A x \in Orphans(run[p].plans, h) :
             \/ files'[x] = Absent \/ x \in state.victims
             \/ /\ h \notin run[p].unswept /\ x \notin run[p].victims
                /\ files'[x] = files[x]
  PROVE  Steadily(state, files', manifest')
<1> DEFINE r == run[p]
<1>1. r.cmd \in {"rekey", "gc"}
  BY DEF Orderly
<1>2. CASE r.cmd = "gc"
  <2>1. state.cmd = "gc" /\ state.pc \in {"sweep", "commit"}
    BY <1>2 DEF SameSweep
  <2>2. Drafting(state, manifest')
    BY <1>2, <2>1 DEF Steadily, Drafting, SameSweep
  <2> QED
    BY <2>1, <2>2
       DEF Steadily, Editing, Resealing, Rekeying, Settling, Deploying
<1>3. CASE r.cmd = "rekey"
  <2>1. SameRekey(r, state)
    BY <1>3 DEF SameRekey, SameSweep
  <2>2. Rekeying(r, files) /\ \A t \in Targets(r.plans) : Accounted(r, files, t)
    BY <1>3, RekeyFacts
  <2>3. ASSUME NEW t \in Targets(r.plans)
        PROVE  Accounted(state, files', t)
    <3>1. Waiting(state, t) <=> Waiting(r, t)
      BY DEF Waiting, SameSweep
    <3>2. files'[Output(r.plans, t)] = files[Output(r.plans, t)]
      BY SweepFacts, PlanTypes DEF Outputs
    <3> QED
      BY <2>2, <3>1, <3>2, AccountIsKept DEF SameSweep
  <2>4. Rekeying(state, files')
    BY <1>3, <2>2, <2>3 DEF Rekeying, SameSweep
  <2>5. \A h \in Planned(r.plans) \ state.unswept :
          \A x \in Orphans(r.plans, h) :
            files'[x] = Absent \/ x \in state.victims
    BY <1>3 DEF Steadily, Settling
  <2>6. r.unread = {} /\ \A t \in Targets(r.plans) : Source(r.plans, t) \in Path
    BY SweepFacts, PlanTypes DEF Orderly
  <2> QED
    BY <1>3, <2>1, <2>4, <2>5, <2>6, RekeyGoesOn DEF SameSweep
<1> QED
  BY <1>1, <1>2, <1>3

(* The sweep lists a host's orphans, removes one of them, or is over.      *)
LEMMA SweepIsSteady ==
  ASSUME Inv, NEW p \in Proc, Orderly(run[p]),
         Steadily(run[p], files, manifest), Moves(p),
         ListOrphans(p) \/ RemoveOrphan(p) \/ EndSweep(p)
  PROVE  Steadily(run'[p], files', manifest')
<1> DEFINE r == run[p]
<1>1. r.pc = "sweep" /\ manifest' = manifest
  BY DEF ListOrphans, RemoveOrphan, EndSweep, storeVars
<1>2. /\ r \in RunState /\ files \in [Path -> File] /\ r.victims \subseteq Path
      /\ \A h \in Planned(r.plans) : Orphans(r.plans, h) \subseteq Path
  BY SweepFacts
<1>3. CASE ListOrphans(p)
  <2>1. PICK h \in r.unswept :
          Goto(p, [r EXCEPT
            !.unswept = @ \ {h},
            !.victims = {x \in Orphans(r.plans, h) : files[x] # Absent}])
    BY <1>3 DEF ListOrphans
  <2> DEFINE found == {x \in Orphans(r.plans, h) : files[x] # Absent}
             state == [r EXCEPT !.unswept = @ \ {h}, !.victims = found]
  <2>2. Goto(p, state) /\ files' = files /\ r.victims = {}
    BY <1>3, <2>1 DEF ListOrphans, storeVars
  <2>3. \A x \in Orphans(r.plans, h) : files[x] = Absent \/ x \in found
    OBVIOUS
  <2> HIDE DEF found
  <2>4. /\ SameSweep(r, state) /\ state.pc = "sweep"
        /\ state.unswept = r.unswept \ {h} /\ state.victims = found
    BY <1>1, <1>2 DEF RunState, SameSweep
  <2> HIDE DEF state
  <2>5. Steadily(state, files', manifest')
    BY <1>1, <2>2, <2>3, <2>4, SweepGoesOn
  <2> QED
    BY <2>2, <2>5, GotoIs
<1>4. CASE RemoveOrphan(p)
  <2>1. PICK y \in r.victims :
          /\ files' = [files EXCEPT ![y] = Absent]
          /\ Goto(p, [r EXCEPT !.victims = @ \ {y}])
    BY <1>4 DEF RemoveOrphan
  <2> DEFINE state == [r EXCEPT !.victims = @ \ {y}]
  <2>2. Goto(p, state)
    BY <2>1
  <2>3. /\ SameSweep(r, state) /\ state.pc = "sweep"
        /\ state.unswept = r.unswept /\ state.victims = r.victims \ {y}
    BY <1>1, <1>2 DEF RunState, SameSweep
  <2>4. \A x \in Path : files'[x] = IF x = y THEN Absent ELSE files[x]
    BY <1>2, <2>1
  <2> HIDE DEF state
  <2>5. Steadily(state, files', manifest')
    BY <1>1, <1>2, <2>3, <2>4, SweepGoesOn
  <2> QED
    BY <2>2, <2>5, GotoIs
<1>5. CASE EndSweep(p)
  <2> DEFINE state == [r EXCEPT !.pc = "commit"]
  <2>1. Goto(p, state) /\ files' = files /\ r.victims = {}
    BY <1>5 DEF EndSweep, storeVars
  <2>2. /\ SameSweep(r, state) /\ state.pc = "commit"
        /\ state.unswept = r.unswept /\ state.victims = r.victims
    BY <1>2 DEF RunState, SameSweep
  <2> HIDE DEF state
  <2>3. Steadily(state, files', manifest')
    BY <1>1, <2>1, <2>2, SweepGoesOn
  <2> QED
    BY <2>1, <2>3, GotoIs
<1> QED
  BY <1>3, <1>4, <1>5

-----------------------------------------------------------------------------
(* Starting and loading *)

(* A command is started or refused.                                        *)
LEMMA InvokeIsSteady ==
  ASSUME Inv, NEW p \in Proc, NEW cmd \in CommandSet, Invoke(p, cmd)
  PROVE  Steadily(run'[p], files', manifest')
<1>1. PICK hosts \in Selections :
        IF Accepted(cmd, Chosen(hosts))
        THEN Goto(p, [Idle("none") EXCEPT !.cmd = cmd, !.pc = "load",
                                          !.plans = Chosen(hosts)])
        ELSE Goto(p, Idle("error"))
  BY DEF Invoke, Return
<1> DEFINE plans == Chosen(hosts)
           state == [Idle("none") EXCEPT !.cmd = cmd, !.pc = "load",
                                         !.plans = plans]
<1>2. /\ state.pc = "load" /\ state.draft = state.loaded
      /\ state.prepared = {} /\ state.secret = None
  BY DEF Idle
<1>3. Goto(p, state) \/ Goto(p, Idle("error"))
  BY <1>1
<1> HIDE DEF state
<1>4. Steadily(state, files', manifest')
  BY <1>2 DEF Steadily, Drafting, Editing, Resealing, Rekeying, Settling,
     Deploying
<1> QED
  BY <1>3, <1>4, ReturnIsSteady, GotoIs

(* The draft a rekey starts from has the seals and the other hosts'        *)
(* sections of the manifest, and no entry for a target of its own.         *)
LEMMA NewSectionsAreEmpty ==
  ASSUME NEW m \in Manifest, NEW plans \in PlanSet
  PROVE  LET w == WithNewSections(m, plans) IN
         /\ w.sources = m.sources
         /\ \A h \in Host \ Planned(plans) : w.hosts[h] = m.hosts[h]
         /\ \A t \in Targets(plans) : Entry(w, t) = None
<1> DEFINE w == WithNewSections(m, plans)
<1>1. /\ w.sources = m.sources
      /\ \A h \in Host : w.hosts[h] = IF plans[h] # None
                                      THEN NewSection(plans[h]) ELSE m.hosts[h]
  BY DEF WithNewSections, Manifest
<1>2. ASSUME NEW t \in Targets(plans)
      PROVE  Entry(w, t) = None
  <2>1. t[1] \in Host /\ t[2] \in Name /\ plans[t[1]] # None
    BY DEF Targets
  <2>2. w.hosts[t[1]] = NewSection(plans[t[1]])
    BY <1>1, <2>1
  <2> QED
    BY <2>1, <2>2 DEF Entry, NewSection, NoSecrets
<1>3. \A h \in Host \ Planned(plans) : w.hosts[h] = m.hosts[h]
  BY <1>1 DEF Planned
<1> QED
  BY <1>1, <1>2, <1>3

(* A command loads the manifest: rekey with all targets waiting, reseal    *)
(* with all sources unread, gc with the pruned manifest for a draft.       *)
LEMMA LoadIsSteady ==
  ASSUME Inv, NEW p \in Proc, Orderly(run[p]),
         Steadily(run[p], files, manifest),
         LoadRekey(p) \/ LoadReseal(p) \/ LoadGc(p)
  PROVE  Steadily(run'[p], files', manifest')
<1> DEFINE r == run[p]
<1>1. r \in RunState /\ r.plans \in PlanSet /\ manifest \in Manifest
  BY RunIsSound DEF Sound, Inv, TypeOK
<1>2. r.pc = "load" /\ files' = files /\ manifest' = manifest
  BY DEF LoadRekey, LoadReseal, LoadGc, storeVars
<1>3. CASE LoadRekey(p)
  <2> DEFINE new   == WithNewSections(manifest, r.plans)
             all   == Sources(r.plans)
             state == [r EXCEPT !.pc = "classify", !.loaded = manifest,
                                !.draft = new, !.unread = all]
  <2>1. Goto(p, state) /\ r.cmd = "rekey"
    BY <1>3 DEF LoadRekey
  <2>2. /\ HasHeaders(new, r.plans) /\ new.sources = manifest.sources
        /\ \A h \in Host \ Planned(r.plans) : new.hosts[h] = manifest.hosts[h]
        /\ \A t \in Targets(r.plans) : Entry(new, t) = None
    BY <1>1, NewSectionsAreTrue, NewSectionsAreEmpty DEF Inv, Truthful
  <2>3. \A t \in Targets(r.plans) : Source(r.plans, t) \in all
    BY DEF Sources
  <2> HIDE DEF new, all
  <2>4. /\ SameRekey([r EXCEPT !.loaded = manifest], state)
        /\ state.pc = "classify" /\ state.draft = new /\ state.loaded = manifest
        /\ state.unread = all /\ state.work = r.work
        /\ state.stale = r.stale /\ state.doomed = r.doomed
        /\ state.failed = r.failed /\ state.left = r.left
        /\ state.cmd = "rekey" /\ state.plans = r.plans
        /\ state.secret = r.secret /\ state.staged = r.staged
    BY <1>1, <2>1 DEF RunState, SameRekey
  <2> HIDE DEF state
  <2>5. /\ r.work = {} /\ r.stale = {} /\ r.doomed = {} /\ r.left = {}
        /\ r.failed = {}
    BY <1>2 DEF Orderly
  <2>6. Drafting(state, manifest')
    BY <1>2, <2>2, <2>4 DEF Drafting
  <2>7. Rekeying(state, files')
    BY <2>2, <2>3, <2>4, <2>5 DEF Rekeying, Accounted, Waiting
  <2>8. Settling(state, files')
    BY <2>3, <2>4 DEF Settling
  <2>9. Editing(state, files') /\ Resealing(state, files')
    BY <2>4 DEF Editing, Resealing
  <2>10. Deploying(state, files')
    BY <1>2, <2>1, <2>4 DEF Steadily, Deploying
  <2> QED
    BY <2>1, <2>6, <2>7, <2>8, <2>9, <2>10, GotoIs DEF Steadily
<1>4. CASE LoadReseal(p)
  <2> DEFINE all   == Sources(r.plans)
             state == [r EXCEPT !.pc = "prepare", !.loaded = manifest,
                                !.draft = manifest, !.unread = all]
  <2>1. Goto(p, state) /\ r.cmd \in {"reseal", "reseal --force"}
    BY <1>4 DEF LoadReseal
  <2> HIDE DEF all
  <2>2. /\ state.pc = "prepare" /\ state.draft = manifest
        /\ state.loaded = manifest /\ state.unread = all
        /\ state.cmd = r.cmd /\ state.plans = r.plans
        /\ state.prepared = r.prepared
    BY <1>1 DEF RunState
  <2> HIDE DEF state
  <2>3. r.prepared = {}
    BY <1>2 DEF Orderly
  <2>4. Steadily(state, files', manifest')
    BY <1>2, <2>1, <2>2, <2>3
       DEF Steadily, Drafting, Editing, Resealing, Rekeying, Settling, Deploying,
           all
  <2> QED
    BY <2>1, <2>4, GotoIs
<1>5. CASE LoadGc(p)
  <2> DEFINE new   == Pruned(manifest, r.plans)
             all   == Planned(r.plans)
             state == [r EXCEPT !.pc = "sweep", !.loaded = manifest,
                                !.draft = new, !.unswept = all]
  <2>1. Goto(p, state) /\ r.cmd = "gc"
    BY <1>5 DEF LoadGc
  <2>2. \A h \in Host \ Planned(r.plans) : new.hosts[h] = manifest.hosts[h]
    BY DEF Pruned, Planned
  <2> HIDE DEF new, all
  <2>3. /\ state.pc = "sweep" /\ state.draft = new /\ state.loaded = manifest
        /\ state.cmd = r.cmd /\ state.plans = r.plans
    BY <1>1 DEF RunState
  <2> HIDE DEF state
  <2>4. Steadily(state, files', manifest')
    BY <1>2, <2>1, <2>2, <2>3
       DEF Steadily, Drafting, Editing, Resealing, Rekeying, Settling, Deploying,
           new
  <2> QED
    BY <2>1, <2>4, GotoIs
<1> QED
  BY <1>3, <1>4, <1>5

-----------------------------------------------------------------------------
(* reseal *)

(* Entering a seal for s changes nothing else.                             *)
LEMMA WithSealIs ==
  ASSUME NEW m \in Manifest, NEW s \in Path, NEW bytes \in Content,
         NEW masters \in SUBSET MasterKey
  PROVE  LET w == WithSeal(m, s, bytes, masters) IN
         /\ w.hosts = m.hosts
         /\ SealMatches(w, s, bytes, masters)
         /\ \A x \in Path \ {s} : w.sources[x] = m.sources[x]
<1> DEFINE seal == [ciphertext_sha256 |-> Sha(bytes),
                    master_set_sha256 |-> Sha(masters)]
           w    == WithSeal(m, s, bytes, masters)
<1>1. seal \in SourceSealState
  BY DEF SourceSealState, Sha
<1>2. /\ seal # None /\ seal.ciphertext_sha256 = Sha(bytes)
      /\ seal.master_set_sha256 = Sha(masters)
  BY <1>1, SentinelAssumption
<1>3. w = [m EXCEPT !.sources[s] = seal]
  BY DEF WithSeal
<1> HIDE DEF seal, w
<1>4. /\ w.hosts = m.hosts /\ w.sources[s] = seal
      /\ \A x \in Path \ {s} : w.sources[x] = m.sources[x]
  BY <1>3 DEF Manifest
<1> QED
  BY <1>2, <1>4 DEF SealMatches, w

(* What every step of a reseal that goes on has in common.                 *)
LEMMA ResealGoesOn ==
  ASSUME NEW r, NEW s, NEW f, NEW m, Drafting(r, m),
         r.cmd \in {"reseal", "reseal --force"},
         r.pc \in {"prepare", "reseal"},
         s.pc \in {"prepare", "reseal", "commit"},
         s.cmd = r.cmd, s.plans = r.plans, s.loaded = r.loaded,
         \A h \in Host : s.draft.hosts[h] = r.draft.hosts[h],
         Resealing(s, f)
  PROVE  Steadily(s, f, m)
<1>1. Drafting(s, m)
  BY DEF Drafting
<1> QED
  BY <1>1 DEF Steadily, Editing, Rekeying, Settling, Deploying

(* What a process knows of itself in the middle of a reseal.               *)
LEMMA ResealFacts ==
  ASSUME Inv, NEW p \in Proc, Orderly(run[p]),
         Steadily(run[p], files, manifest),
         run[p].pc \in {"prepare", "reseal"}
  PROVE  LET r == run[p] IN
         /\ r \in RunState /\ r.plans \in PlanSet /\ r.draft \in Manifest
         /\ r.cmd \in {"reseal", "reseal --force"}
         /\ r.prepared \subseteq Path /\ files \in [Path -> File]
         /\ Drafting(r, manifest) /\ Resealing(r, files)
  BY RunIsSound DEF Orderly, Steadily, Sound, RunState, Inv, TypeOK

(* A source is read and either taken in hand or passed over, in which case *)
(* its seal in the draft is that of its present bytes; or it cannot be     *)
(* read and is reported.                                                   *)
LEMMA PrepareIsSteady ==
  ASSUME Inv, NEW p \in Proc, Orderly(run[p]),
         Steadily(run[p], files, manifest),
         PrepareSource(p) \/ UnpreparedSource(p) \/ EndPrepare(p)
  PROVE  Steadily(run'[p], files', manifest')
<1> DEFINE r == run[p]
<1>1. r.pc = "prepare" /\ files' = files /\ manifest' = manifest
  BY DEF PrepareSource, UnpreparedSource, EndPrepare, storeVars
<1>2. /\ r \in RunState /\ r.plans \in PlanSet
      /\ r.cmd \in {"reseal", "reseal --force"}
      /\ Drafting(r, manifest) /\ Resealing(r, files)
  BY <1>1, ResealFacts
<1>3. /\ r.draft = r.loaded /\ r.prepared \cap r.unread = {}
      /\ \A x \in r.prepared : r.bytes[x] = files[x]
      /\ \A x \in Sources(r.plans) \ (r.unread \cup r.prepared \cup r.unsealed) :
           SealMatches(r.draft, x, files[x], MastersOf(r.plans, x))
  BY <1>1, <1>2 DEF Resealing
<1>4. CASE PrepareSource(p)
  <2>1. PICK s \in r.unread : \E prepared \in {r.prepared, r.prepared \cup {s}} :
          /\ Goto(p, [r EXCEPT !.unread = @ \ {s}, !.bytes[s] = files[s],
                               !.prepared = prepared])
          /\ \/ s \in prepared
             \/ SealMatches(r.loaded, s, files[s], MastersOf(r.plans, s))
    <3>1. PICK s \in r.unread :
            LET masters == MastersOf(r.plans, s)
                skip    == /\ r.cmd = "reseal"
                           /\ SealMatches(r.loaded, s, files[s], masters) IN
            Goto(p, [r EXCEPT !.unread   = @ \ {s},
                              !.bytes[s] = files[s],
                              !.prepared = IF skip THEN @ ELSE @ \cup {s}])
      BY <1>4 DEF PrepareSource
    <3>2. CASE /\ r.cmd = "reseal"
               /\ SealMatches(r.loaded, s, files[s], MastersOf(r.plans, s))
      <4>1. Goto(p, [r EXCEPT !.unread = @ \ {s}, !.bytes[s] = files[s],
                              !.prepared = r.prepared])
        BY <1>2, <3>1, <3>2 DEF RunState
      <4> QED
        BY <3>2, <4>1
    <3>3. CASE ~(/\ r.cmd = "reseal"
                 /\ SealMatches(r.loaded, s, files[s], MastersOf(r.plans, s)))
      <4>1. Goto(p, [r EXCEPT !.unread = @ \ {s}, !.bytes[s] = files[s],
                              !.prepared = r.prepared \cup {s}])
        BY <1>2, <3>1, <3>3 DEF RunState
      <4> QED
        BY <4>1
    <3> QED
      BY <3>2, <3>3
  <2>2. PICK prepared \in {r.prepared, r.prepared \cup {s}} :
          /\ Goto(p, [r EXCEPT !.unread = @ \ {s}, !.bytes[s] = files[s],
                               !.prepared = prepared])
          /\ \/ s \in prepared
             \/ SealMatches(r.loaded, s, files[s], MastersOf(r.plans, s))
    BY <2>1
  <2> DEFINE state == [r EXCEPT !.unread = @ \ {s}, !.bytes[s] = files[s],
                                !.prepared = prepared]
  <2>3. /\ state.pc = "prepare" /\ state.cmd = r.cmd /\ state.plans = r.plans
        /\ state.loaded = r.loaded /\ state.draft = r.draft
        /\ state.unread = r.unread \ {s} /\ state.prepared = prepared
        /\ state.unsealed = r.unsealed
        /\ \A x \in Path : state.bytes[x] = IF x = s THEN files[s] ELSE r.bytes[x]
    BY <1>1, <1>2 DEF RunState
  <2>4. Goto(p, state)
    BY <2>2
  <2>5. r.prepared \subseteq Path /\ r.unread \subseteq Path
    BY <1>2 DEF RunState
  <2> HIDE DEF state
  <2>6. Resealing(state, files')
    BY <1>1, <1>3, <2>2, <2>3, <2>5 DEF Resealing
  <2>7. Steadily(state, files', manifest')
    BY <1>1, <1>2, <2>3, <2>6, ResealGoesOn
  <2> QED
    BY <2>4, <2>7, GotoIs
<1>5. CASE UnpreparedSource(p)
  <2>1. PICK s \in r.unread :
          Goto(p, [r EXCEPT !.unread = @ \ {s}, !.unsealed = @ \cup {s}])
    BY <1>5 DEF UnpreparedSource
  <2> DEFINE state == [r EXCEPT !.unread = @ \ {s}, !.unsealed = @ \cup {s}]
  <2>2. /\ state.pc = "prepare" /\ state.cmd = r.cmd /\ state.plans = r.plans
        /\ state.loaded = r.loaded /\ state.draft = r.draft
        /\ state.unread = r.unread \ {s} /\ state.prepared = r.prepared
        /\ state.unsealed = r.unsealed \cup {s} /\ state.bytes = r.bytes
    BY <1>1, <1>2 DEF RunState
  <2>3. Goto(p, state)
    BY <2>1
  <2> HIDE DEF state
  <2>4. Resealing(state, files')
    BY <1>1, <1>3, <2>2 DEF Resealing
  <2>5. Steadily(state, files', manifest')
    BY <1>1, <1>2, <2>2, <2>4, ResealGoesOn
  <2> QED
    BY <2>3, <2>5, GotoIs
<1>6. CASE EndPrepare(p)
  <2>1. PICK session \in SUBSET PluginKey :
          Goto(p, [r EXCEPT !.pc = "reseal", !.session = session])
    BY <1>6 DEF EndPrepare
  <2> DEFINE state == [r EXCEPT !.pc = "reseal", !.session = session]
  <2>2. /\ state.pc = "reseal" /\ state.cmd = r.cmd /\ state.plans = r.plans
        /\ state.loaded = r.loaded /\ state.draft = r.draft
        /\ state.unread = r.unread /\ state.prepared = r.prepared
        /\ state.unsealed = r.unsealed /\ state.bytes = r.bytes
    BY <1>2 DEF RunState
  <2>3. Goto(p, state)
    BY <2>1
  <2> HIDE DEF state
  <2>4. Resealing(state, files')
    BY <1>1, <1>3, <2>2 DEF Resealing
  <2>5. Steadily(state, files', manifest')
    BY <1>1, <1>2, <2>2, <2>4, ResealGoesOn
  <2> QED
    BY <2>3, <2>5, GotoIs
<1> QED
  BY <1>4, <1>5, <1>6

(* A source is written and its seal entered, or it is reported; no other   *)
(* source changes, nor the seal of one.                                    *)
LEMMA ResealIsSteady ==
  ASSUME Inv, NEW p \in Proc, Orderly(run[p]),
         Steadily(run[p], files, manifest),
         ResealSource(p) \/ ResealFails(p) \/ EndReseal(p)
  PROVE  Steadily(run'[p], files', manifest')
<1> DEFINE r == run[p]
<1>1. r.pc = "reseal" /\ manifest' = manifest
  BY DEF ResealSource, ResealFails, EndReseal, storeVars
<1>2. /\ r \in RunState /\ r.plans \in PlanSet /\ r.draft \in Manifest
      /\ r.cmd \in {"reseal", "reseal --force"}
      /\ r.prepared \subseteq Path /\ files \in [Path -> File]
      /\ Drafting(r, manifest) /\ Resealing(r, files)
  BY <1>1, ResealFacts
<1>3. /\ r.prepared \cap r.unread = {}
      /\ \A x \in r.prepared : r.bytes[x] = files[x]
      /\ \A x \in Sources(r.plans) \ (r.unread \cup r.prepared \cup r.unsealed) :
           SealMatches(r.draft, x, files[x], MastersOf(r.plans, x))
  BY <1>1, <1>2 DEF Resealing
<1>4. Sources(r.plans) \subseteq Path
  BY <1>2, PlanTypes
<1>5. CASE ResealSource(p)
  <2>1. PICK s \in r.prepared :
          LET masters == MastersOf(r.plans, s)
              cipher  == Encrypt(r.bytes[s].plain, masters) IN
          /\ Decrypts(r.bytes[s], Openers(r, s))
          /\ NewCiphers(r.bytes[s].plain, masters) # {}
          /\ files' = [files EXCEPT ![s] = cipher]
          /\ Goto(p, [r EXCEPT !.prepared = @ \ {s},
                               !.draft    = WithSeal(@, s, cipher, masters)])
    BY <1>5 DEF ResealSource
  <2> DEFINE masters == MastersOf(r.plans, s)
             cipher  == Encrypt(r.bytes[s].plain, masters)
             new     == WithSeal(r.draft, s, cipher, masters)
             state   == [r EXCEPT !.prepared = @ \ {s}, !.draft = new]
  <2>2. Goto(p, state) /\ files' = [files EXCEPT ![s] = cipher]
    BY <2>1
  <2>3. cipher \in Content
    BY <1>2, <2>1, RunIsSound, ResealedType DEF Content
  <2>4. masters \in SUBSET MasterKey /\ s \in Path
    BY <1>2, PlanTypes
  <2>5. /\ new.hosts = r.draft.hosts /\ SealMatches(new, s, cipher, masters)
        /\ \A x \in Path \ {s} : new.sources[x] = r.draft.sources[x]
    <3> HIDE DEF cipher, masters
    <3> QED
      BY <1>2, <2>3, <2>4, WithSealIs
  <2>6. \A x \in Path : files'[x] = IF x = s THEN cipher ELSE files[x]
    BY <1>2, <2>2
  <2> HIDE DEF new, cipher
  <2>7. /\ state.pc = "reseal" /\ state.cmd = r.cmd /\ state.plans = r.plans
        /\ state.loaded = r.loaded /\ state.draft = new
        /\ state.unread = r.unread /\ state.prepared = r.prepared \ {s}
        /\ state.unsealed = r.unsealed /\ state.bytes = r.bytes
    BY <1>1, <1>2 DEF RunState
  <2> HIDE DEF state
  <2>8. ASSUME NEW x \in Sources(r.plans) \ (state.unread \cup state.prepared
                                                          \cup state.unsealed)
        PROVE  SealMatches(state.draft, x, files'[x], MastersOf(r.plans, x))
    <3>1. CASE x = s
      BY <2>4, <2>5, <2>6, <2>7, <3>1
    <3>2. CASE x # s
      <4>1. SealMatches(r.draft, x, files[x], MastersOf(r.plans, x))
        BY <1>3, <2>7, <2>8, <3>2
      <4> QED
        BY <1>4, <2>5, <2>6, <2>7, <2>8, <3>2, <4>1 DEF SealMatches
    <3> QED
      BY <3>1, <3>2
  <2>9. Resealing(state, files')
    BY <1>2, <1>3, <2>6, <2>7, <2>8 DEF Resealing
  <2>10. Steadily(state, files', manifest')
    BY <1>1, <1>2, <2>5, <2>7, <2>9, ResealGoesOn
  <2> QED
    BY <2>2, <2>10, GotoIs
<1>6. CASE ResealFails(p)
  <2>1. PICK s \in r.prepared : \E c :
          /\ files' = files \/ files' = [files EXCEPT ![s] = c]
          /\ Goto(p, [r EXCEPT !.prepared = @ \ {s}, !.unsealed = @ \cup {s}])
    BY <1>6 DEF ResealFails
  <2> DEFINE state == [r EXCEPT !.prepared = @ \ {s}, !.unsealed = @ \cup {s}]
  <2>2. /\ Goto(p, state)
        /\ \A x \in Path \ {s} : files'[x] = files[x]
    BY <1>2, <2>1
  <2>3. /\ state.pc = "reseal" /\ state.cmd = r.cmd /\ state.plans = r.plans
        /\ state.loaded = r.loaded /\ state.draft = r.draft
        /\ state.unread = r.unread /\ state.prepared = r.prepared \ {s}
        /\ state.unsealed = r.unsealed \cup {s} /\ state.bytes = r.bytes
    BY <1>1, <1>2 DEF RunState
  <2> HIDE DEF state
  <2>4. Resealing(state, files')
    BY <1>2, <1>3, <1>4, <2>2, <2>3 DEF Resealing
  <2>5. Steadily(state, files', manifest')
    BY <1>1, <1>2, <2>3, <2>4, ResealGoesOn
  <2> QED
    BY <2>2, <2>5, GotoIs
<1>7. CASE EndReseal(p)
  <2> DEFINE state == [r EXCEPT !.pc = "commit"]
  <2>1. Goto(p, state) /\ files' = files
    BY <1>7 DEF EndReseal, storeVars
  <2>2. /\ state.pc = "commit" /\ state.cmd = r.cmd /\ state.plans = r.plans
        /\ state.loaded = r.loaded /\ state.draft = r.draft
        /\ state.unread = r.unread /\ state.prepared = r.prepared
        /\ state.unsealed = r.unsealed /\ state.bytes = r.bytes
    BY <1>2 DEF RunState
  <2> HIDE DEF state
  <2>3. Resealing(state, files')
    BY <1>3, <2>1, <2>2 DEF Resealing
  <2>4. Steadily(state, files', manifest')
    BY <1>1, <1>2, <2>1, <2>2, <2>3, ResealGoesOn
  <2> QED
    BY <2>1, <2>4, GotoIs
<1> QED
  BY <1>5, <1>6, <1>7

-----------------------------------------------------------------------------
(* edit *)

(* The source in the editor opened with the masters of a consumer, and so  *)
(* with those of every consumer, for they agree.                           *)
LEMMA LoadEditIsSteady ==
  ASSUME Inv, NEW p \in Proc, Steadily(run[p], files, manifest), LoadEdit(p)
  PROVE  Steadily(run'[p], files', manifest')
<1> DEFINE r == run[p]
<1>1. /\ r.pc = "load" /\ r.cmd = "edit"
      /\ files' = files /\ manifest' = manifest
  BY DEF LoadEdit, storeVars
<1>2. r \in RunState /\ Consistent(r.plans)
  BY <1>1, RunIsSound DEF Sound, KeepsToPlans
<1>3. PICK s \in Editable : \E plain : \E h \in Canonical(r.plans, s) :
        LET masters == r.plans[h].master_identities IN
        /\ files[s] # Absent => Decrypts(files[s], masters)
        /\ Goto(p, [r EXCEPT !.pc = "edit", !.secret = s, !.staged = plain,
                             !.masters = masters])
  BY DEF LoadEdit
<1>4. PICK plain : \E h \in Canonical(r.plans, s) :
        LET masters == r.plans[h].master_identities IN
        /\ files[s] # Absent => Decrypts(files[s], masters)
        /\ Goto(p, [r EXCEPT !.pc = "edit", !.secret = s, !.staged = plain,
                             !.masters = masters])
  BY <1>3
<1>5. PICK h \in Canonical(r.plans, s) :
        LET masters == r.plans[h].master_identities IN
        /\ files[s] # Absent => Decrypts(files[s], masters)
        /\ Goto(p, [r EXCEPT !.pc = "edit", !.secret = s, !.staged = plain,
                             !.masters = masters])
  BY <1>4
<1> DEFINE masters == r.plans[h].master_identities
           state   == [r EXCEPT !.pc = "edit", !.secret = s, !.staged = plain,
                                !.masters = masters]
<1>6. Goto(p, state) /\ (files[s] # Absent => Decrypts(files[s], masters))
  BY <1>5
<1>7. ASSUME NEW t \in Consumers(r.plans, s)
      PROVE  masters = r.plans[t[1]].master_identities
  <2>1. PICK u \in Consumers(r.plans, s) : h = u[1]
    BY <1>5 DEF Canonical
  <2> QED
    BY <1>2, <2>1 DEF Consistent, Consumers
<1> HIDE DEF masters
<1>8. /\ state.pc = "edit" /\ state.cmd = r.cmd /\ state.plans = r.plans
      /\ state.loaded = r.loaded /\ state.draft = r.draft
      /\ state.secret = s /\ state.masters = masters
  BY <1>2 DEF RunState
<1> HIDE DEF state
<1>9. Drafting(state, manifest') /\ Editing(state, files')
  BY <1>1, <1>6, <1>7, <1>8 DEF Steadily, Drafting, Editing
<1> QED
  BY <1>1, <1>6, <1>8, <1>9, GotoIs
     DEF Steadily, Resealing, Rekeying, Settling, Deploying

(* What the editor leaves changes neither the source nor its masters.      *)
LEMMA EditorSavesIsSteady ==
  ASSUME Inv, NEW p \in Proc, Orderly(run[p]),
         Steadily(run[p], files, manifest), EditorSaves(p)
  PROVE  Steadily(run'[p], files', manifest')
<1> DEFINE r == run[p]
<1>1. /\ r.pc = "edit" /\ r.cmd = "edit" /\ r \in RunState
      /\ files' = files /\ manifest' = manifest
  BY DEF EditorSaves, Orderly, Inv, TypeOK
<1>2. PICK plain : Goto(p, [r EXCEPT !.pc = "save", !.staged = plain])
  BY DEF EditorSaves
<1> DEFINE state == [r EXCEPT !.pc = "save", !.staged = plain]
<1>3. /\ state.pc = "save" /\ state.cmd = r.cmd /\ state.plans = r.plans
      /\ state.loaded = r.loaded /\ state.draft = r.draft
      /\ state.secret = r.secret /\ state.masters = r.masters
  BY <1>1 DEF RunState
<1>4. Goto(p, state)
  BY <1>2
<1> HIDE DEF state
<1>5. Drafting(state, manifest') /\ Editing(state, files')
  BY <1>1, <1>3 DEF Steadily, Drafting, Editing
<1> QED
  BY <1>1, <1>3, <1>4, <1>5, GotoIs
     DEF Steadily, Resealing, Rekeying, Settling, Deploying

(* The rekey that an edit goes on with finds the edited text in the        *)
(* source.                                                                 *)
LEMMA SaveIsSteady ==
  ASSUME Inv, NEW p \in Proc, Steadily(run[p], files, manifest), Save(p)
  PROVE  Steadily(run'[p], files', manifest')
<1> DEFINE r      == run[p]
           cipher == Encrypt(r.staged, r.masters)
           state  == [r EXCEPT !.pc = "load", !.cmd = "rekey"]
<1>1. /\ r.pc = "save" /\ NewCiphers(r.staged, r.masters) # {}
      /\ files' = [files EXCEPT ![r.secret] = cipher]
      /\ Goto(p, state) /\ manifest' = manifest
  BY DEF Save
<1>2. r \in RunState /\ r.secret \in Path /\ r.staged \in Plain
  BY <1>1, RunIsSound DEF Sound, KeepsToPlans
<1>3. r.masters \in SUBSET Key
  BY <1>2 DEF RunState, Key
<1>4. cipher \in Cipher /\ cipher.plain = r.staged
  BY <1>1, <1>2, <1>3, EncryptType
<1> HIDE DEF cipher
<1>5. files'[r.secret] = cipher
  BY <1>1, <1>2 DEF Inv, TypeOK
<1>6. /\ state.pc = "load" /\ state.cmd = "rekey" /\ state.plans = r.plans
      /\ state.loaded = r.loaded /\ state.draft = r.draft
      /\ state.secret = r.secret /\ state.staged = r.staged
  BY <1>2 DEF RunState
<1>7. Goto(p, state)
  BY <1>1
<1> HIDE DEF state
<1>8. Drafting(state, manifest')
  BY <1>1, <1>6 DEF Steadily, Drafting
<1>9. Deploying(state, files')
  BY <1>4, <1>5, <1>6 DEF Deploying
<1> QED
  BY <1>6, <1>7, <1>8, <1>9, GotoIs
     DEF Steadily, Editing, Resealing, Rekeying, Settling

-----------------------------------------------------------------------------
(* The whole program *)

(* Each move of a steady process leaves it steady.                         *)
LEMMA MoveIsSteady ==
  ASSUME Inv, NEW p \in Proc, Orderly(run[p]),
         Steadily(run[p], files, manifest), Moves(p)
  PROVE  Steadily(run'[p], files', manifest')
<1>1. ASSUME NEW cmd \in Commands[p], Invoke(p, cmd)
      PROVE  Steadily(run'[p], files', manifest')
  BY <1>1, CommandAssumption, InvokeIsSteady
<1>2. CASE \/ LoadFails(p) \/ SweepFails(p) \/ Crash(p)
           \/ Commit(p) \/ CommitFails(p) \/ SaveFails(p)
           \/ View(p) \/ SecretUnreadable(p) \/ EditorGivesUp(p)
  BY <1>2, EndsInOrder, ReturnIsSteady, GotoIs
<1>3. CASE RekeyStep(p)
  BY <1>3, LoadIsSteady, ReadSourceIsSteady, UnreadableSourceIsSteady,
     ClassifyTargetIsSteady, EndClassifyIsSteady, DecryptIsSteady,
     FanOutIsSteady, FanOutFailsIsSteady, PurgeIsSteady, EndFanOutIsSteady
     DEF RekeyStep
<1>4. CASE ResealStep(p)
  BY <1>4, LoadIsSteady, PrepareIsSteady, ResealIsSteady DEF ResealStep
<1>5. CASE EditStep(p)
  BY <1>2, <1>5, LoadEditIsSteady, EditorSavesIsSteady, SaveIsSteady DEF EditStep
<1>6. CASE LoadGc(p) \/ ListOrphans(p) \/ RemoveOrphan(p) \/ EndSweep(p)
  BY <1>6, LoadIsSteady, SweepIsSteady
<1> QED
  BY <1>1, <1>2, <1>3, <1>4, <1>5, <1>6 DEF Moves, Step

(* Other hands act only while nothing runs, but for the configuration,     *)
(* which a running process does not look at again.                         *)
LEMMA WorldIsSteady ==
  ASSUME Ordered, Steady, Environment, ~Meddling
  PROVE  Steady'
<1>1. CASE Reconfigure
  BY <1>1 DEF Reconfigure, Steady
<1>2. CASE AllIdle
  <2>1. \A p \in Proc : /\ run[p].pc = "idle" /\ run[p].cmd = None
                        /\ run[p].draft = run[p].loaded
    BY <1>2 DEF AllIdle, Ordered, Orderly, Steady, Steadily, Drafting
  <2> QED
    BY <2>1, WorldRunsNothing, IdleIsSteady DEF Steady
<1> QED
  BY <1>1, <1>2
     DEF Environment, ChangeSource, ChangeOutput, LoseManifest, Undisturbed

(* One process, no other hands while it runs: each step of the system      *)
(* keeps the invariant.                                                    *)
LEMMA SteadyIsKept ==
  ASSUME Solo, Inv, Ordered, Steady, [Next]_vars
  PROVE  Steady'
<1>1. CASE Environment
  BY <1>1, WorldIsSteady DEF Solo
<1>2. ASSUME NEW p \in Proc, Moves(p)
      PROVE  Steady'
  <2>1. Steadily(run'[p], files', manifest')
    BY <1>2, MoveIsSteady DEF Ordered, Steady
  <2>2. \A q \in Proc : q = p
    BY DEF Solo
  <2> QED
    BY <2>1, <2>2 DEF Steady
<1>3. CASE UNCHANGED vars
  BY <1>3 DEF vars, Steady
<1> QED
  BY <1>1, <1>2, <1>3, StepIs

(* A program that runs alone knows at every moment what it has done and    *)
(* what it still has to do, whatever fails and wherever it is killed.      *)
THEOREM SteadyAlways ==
  ASSUME Solo
  PROVE  Spec => []Steady
<1>1. Init => Steady
  BY ReturnIsSteady DEF Init, Steady
<1>2. Inv /\ Ordered /\ Steady /\ [Next]_vars => Steady'
  BY SteadyIsKept
<1> QED
  BY <1>1, <1>2, Invariance, OrderedAlways, PTL DEF Spec

-----------------------------------------------------------------------------
(* What a move may change *)

(* What a process does at the end of a run.                                *)
LEMMA EndingsAre ==
  ASSUME NEW p \in Proc, Orderly(run[p]), Moves(p), run[p].pc = "commit"
  PROVE  Commit(p) \/ CommitFails(p) \/ Crash(p)
<1>1. \A cmd : ~Invoke(p, cmd)
  BY DEF Invoke
<1>2. ~RekeyStep(p)
  BY DEF Orderly, RekeyStep, LoadRekey, ReadSource, UnreadableSource, ClassifyTarget,
     EndClassify, DecryptSource, DecryptFails, FanOut, FanOutFails, PurgeOutput,
     PurgeFails, EndFanOut, Reading, Decrypting
<1>3. ~ResealStep(p)
  BY DEF ResealStep, LoadReseal, PrepareSource, UnpreparedSource, EndPrepare,
     ResealSource, ResealFails, EndReseal
<1>4. ~EditStep(p)
  BY DEF EditStep, LoadEdit, View, SecretUnreadable, EditorSaves, EditorGivesUp,
     Save, SaveFails
<1>5. ~LoadGc(p) /\ ~LoadFails(p) /\ ~ListOrphans(p) /\ ~RemoveOrphan(p)
  BY DEF LoadGc, LoadFails, ListOrphans, RemoveOrphan
<1>6. ~SweepFails(p) /\ ~EndSweep(p)
  BY DEF SweepFails, EndSweep
<1> QED
  BY <1>1, <1>2, <1>3, <1>4, <1>5, <1>6 DEF Moves, Step

(* The manifest changes only at the end of a run, into its draft.          *)
LEMMA ManifestBecomes ==
  ASSUME NEW p \in Proc, Moves(p), manifest' # manifest
  PROVE  run[p].pc = "commit" /\ manifest' = run[p].draft /\ files' = files
<1>1. Commit(p) \/ CommitFails(p)
  BY DEF Moves, Step, RekeyStep, ResealStep, EditStep, Invoke, LoadRekey,
     ReadSource, UnreadableSource, ClassifyTarget, EndClassify, DecryptSource,
     DecryptFails, FanOut, FanOutFails, PurgeOutput, PurgeFails, EndFanOut,
     LoadReseal, PrepareSource, UnpreparedSource, EndPrepare, ResealSource,
     ResealFails, EndReseal, LoadGc, LoadEdit, View, SecretUnreadable,
     EditorSaves, EditorGivesUp, Save, SaveFails, LoadFails, ListOrphans,
     RemoveOrphan, SweepFails, EndSweep, Crash, storeVars
<1> QED
  BY <1>1 DEF Commit, CommitFails

(* A process that commits leaves its draft as the manifest, and has been   *)
(* through with everything.                                                *)
LEMMA CommitIs ==
  ASSUME Inv, NEW p \in Proc, Orderly(run[p]),
         Steadily(run[p], files, manifest), Moves(p), Committed(p)
  PROVE  LET r == run[p] IN
         /\ r.pc = "commit" /\ files' = files /\ manifest' = r.draft
         /\ run'[p].exit = "ok" => r.failed = {} /\ r.unsealed = {}
         /\ r.unread = {} /\ r.work = {} /\ r.stale = {} /\ r.doomed = {}
         /\ r.left = {} /\ r.prepared = {} /\ r.unswept = {} /\ r.victims = {}
<1> DEFINE r    == run[p]
           exit == IF r.failed = {} /\ r.unsealed = {} THEN "ok" ELSE "failures"
<1>1. r.pc = "commit"
  BY DEF Committed
<1>2. ASSUME NEW e, Goto(p, Idle(e))
      PROVE  run'[p].exit = e
  BY <1>2, GotoIs DEF Idle
<1>3. ~Crash(p) /\ ~CommitFails(p)
  BY <1>2 DEF Committed, Crash, CommitFails, Return
<1>4. Commit(p)
  BY <1>1, <1>3, EndingsAre
<1>5. run'[p].exit = exit
  BY <1>2, <1>4 DEF Commit, Return
<1>6. r.loaded = manifest
  BY <1>1 DEF Steadily, Drafting
<1>7. files' = files /\ manifest' = r.draft
  BY <1>4, <1>6 DEF Commit
<1> QED
  BY <1>1, <1>5, <1>7 DEF Orderly

(* A step in which a process changes, or commits, is a move of its own.    *)
LEMMA ChangeIsMove ==
  ASSUME Inv, Ordered, [Next]_vars, NEW p \in Proc,
         run'[p] # run[p] \/ Committed(p)
  PROVE  Moves(p)
<1>1. Committed(p) => run'[p] # run[p]
  BY DEF Committed, Ordered, Orderly
<1> QED
  BY <1>1, StepIs, WorldRunsNothing, MovesItself DEF vars

-----------------------------------------------------------------------------
(* The promises *)

(* A command that runs alone, whatever happens to it, leaves the sections  *)
(* of hosts whose plans it was not given, and rekey leaves every seal.     *)
THEOREM OthersSafe ==
  ASSUME Solo
  PROVE  Spec => OthersUntouched
<1> DEFINE Keeps == \A p \in Proc :
             run'[p] # run[p] =>
               /\ \A h \in Host \ Planned(run[p].plans) :
                    manifest'.hosts[h] = manifest.hosts[h]
               /\ run[p].cmd = "rekey" => manifest'.sources = manifest.sources
<1>1. ASSUME Inv, Ordered, Steady, [Next]_vars, NEW p \in Proc,
             run'[p] # run[p]
      PROVE  /\ \A h \in Host \ Planned(run[p].plans) :
                  manifest'.hosts[h] = manifest.hosts[h]
             /\ run[p].cmd = "rekey" => manifest'.sources = manifest.sources
  <2>1. Moves(p)
    BY <1>1, ChangeIsMove
  <2>2. CASE manifest' # manifest
    <3>1. run[p].pc = "commit" /\ manifest' = run[p].draft
      BY <2>1, <2>2, ManifestBecomes
    <3> QED
      BY <1>1, <3>1 DEF Steady, Steadily, Drafting
  <2> QED
    BY <2>2
<1>2. Inv /\ Ordered /\ Steady /\ [Next]_vars => [Keeps]_vars
  BY <1>1
<1>3. OthersUntouched <=> [][Keeps]_vars
  BY DEF OthersUntouched
<1> HIDE DEF Keeps
<1> QED
  BY <1>2, <1>3, Invariance, OrderedAlways, SteadyAlways, PTL DEF Spec

(* An edit with no other hands at work replaces the source it was asked    *)
(* for and nothing else, with what the editor left, for exactly the        *)
(* masters of every consumer; and it was able to read what it replaces.    *)
THEOREM EditsSafe ==
  ASSUME Solo
  PROVE  Spec => EditSealsForConsumers
<1> DEFINE Keeps == \A p \in Proc :
             LET r == run[p] IN
             run'[p] # run[p] /\ r.cmd = "edit" =>
               \A s \in Path :
                 files'[s] # files[s] =>
                   /\ s = r.secret
                   /\ files[s] # Absent => Decrypts(files[s], r.masters)
                   /\ files'[s] \in Cipher /\ files'[s].plain = r.staged
                   /\ \A t \in Consumers(r.plans, s) :
                        files'[s].to = r.plans[t[1]].master_identities
<1>1. ASSUME Inv, Ordered, Steady, [Next]_vars, NEW p \in Proc,
             run'[p] # run[p], run[p].cmd = "edit",
             NEW s \in Path, files'[s] # files[s]
      PROVE  LET r == run[p] IN
             /\ s = r.secret
             /\ files[s] # Absent => Decrypts(files[s], r.masters)
             /\ files'[s] \in Cipher /\ files'[s].plain = r.staged
             /\ \A t \in Consumers(r.plans, s) :
                  files'[s].to = r.plans[t[1]].master_identities
    <2> DEFINE r      == run[p]
               cipher == Encrypt(r.staged, r.masters)
    <2>1. Moves(p)
      BY <1>1, ChangeIsMove
    <2>2. Orderly(r) /\ Steadily(r, files, manifest)
      BY <1>1 DEF Ordered, Steady
    <2>3. r.pc \in {"load", "edit", "save"}
      BY <1>1, <2>2, RunIsSound, CommandAssumption
         DEF Orderly, Sound, RunState, CommandSet
    <2>4. Save(p) \/ SaveFails(p)
      BY <1>1, <2>1, <2>2, <2>3, WritersAre DEF Orderly, FanOut, FanOutFails, PurgeOutput,
         Decrypting, RemoveOrphan, ResealSource, ResealFails
    <2>5. /\ r.pc = "save" /\ NewCiphers(r.staged, r.masters) # {}
          /\ files' = [files EXCEPT ![r.secret] = cipher]
      BY <1>1, <2>4 DEF Save, SaveFails
    <2>6. r \in RunState /\ r.staged \in Plain
      BY <1>1, <2>5, RunIsSound DEF Sound, KeepsToPlans
    <2>7. r.masters \in SUBSET Key
      BY <2>6 DEF RunState, Key
    <2>8. /\ cipher \in Cipher /\ cipher.plain = r.staged
          /\ cipher.to = r.masters
      BY <2>5, <2>6, <2>7, EncryptType
    <2> HIDE DEF cipher
    <2>9. s = r.secret /\ files'[s] = cipher
      BY <1>1, <2>5 DEF Inv, TypeOK
    <2> QED
      BY <2>2, <2>5, <2>8, <2>9 DEF Steadily, Editing
<1>2. Inv /\ Ordered /\ Steady /\ [Next]_vars => [Keeps]_vars
  BY <1>1
<1>3. EditSealsForConsumers <=> [][Keeps]_vars
  BY DEF EditSealsForConsumers
<1> HIDE DEF Keeps
<1> QED
  BY <1>2, <1>3, Invariance, OrderedAlways, SteadyAlways, PTL DEF Spec

(* reseal, whatever fails on the way, keeps every plaintext, encrypts for  *)
(* exactly the masters declared, and reports what it did not seal.         *)
THEOREM ResealsSafe ==
  ASSUME Solo
  PROVE  Spec => ResealKeepsPlaintext
<1> DEFINE Keeps == \A p \in Proc :
             LET r == run[p] IN
             run'[p] # run[p] /\ r.cmd \in {"reseal", "reseal --force"} =>
               /\ \A s \in Path :
                    files'[s] # files[s] =>
                      /\ files[s] \in Cipher /\ files'[s] \in Cipher
                      /\ files'[s].plain = files[s].plain
                      /\ \A t \in Consumers(r.plans, s) :
                           files'[s].to = r.plans[t[1]].master_identities
               /\ Committed(p) =>
                    \A s \in Sources(r.plans) \ r.unsealed :
                      SealMatches(manifest', s, files'[s], MastersOf(r.plans, s))
<1>1. ASSUME Inv, Ordered, Steady, [Next]_vars, NEW p \in Proc,
             run'[p] # run[p], run[p].cmd \in {"reseal", "reseal --force"}
      PROVE  /\ Moves(p) /\ Orderly(run[p])
             /\ Steadily(run[p], files, manifest)
             /\ run[p].pc \in {"load", "prepare", "reseal", "commit"}
  <2>1. Moves(p)
    BY <1>1, ChangeIsMove
  <2>2. Orderly(run[p]) /\ Steadily(run[p], files, manifest)
    BY <1>1 DEF Ordered, Steady
  <2>3. run[p].pc \in {"load", "prepare", "reseal", "commit"}
    BY <1>1, <2>2, RunIsSound, CommandAssumption
       DEF Orderly, Sound, RunState, CommandSet
  <2> QED
    BY <2>1, <2>2, <2>3
<1>2. ASSUME Inv, Ordered, Steady, [Next]_vars, NEW p \in Proc,
             run'[p] # run[p], run[p].cmd \in {"reseal", "reseal --force"},
             NEW s \in Path, files'[s] # files[s]
      PROVE  LET r == run[p] IN
             /\ files[s] \in Cipher /\ files'[s] \in Cipher
             /\ files'[s].plain = files[s].plain
             /\ \A t \in Consumers(r.plans, s) :
                  files'[s].to = r.plans[t[1]].master_identities
  <2> DEFINE r == run[p]
  <2>1. /\ Moves(p) /\ r.pc \in {"load", "prepare", "reseal", "commit"}
        /\ Orderly(r) /\ Steadily(r, files, manifest)
    BY <1>1, <1>2
  <2>2. ResealSource(p) \/ ResealFails(p)
    BY <1>2, <2>1, WritersAre DEF Orderly, FanOut, FanOutFails, PurgeOutput,
       Decrypting, RemoveOrphan, Save, SaveFails
  <2>3. PICK x \in r.prepared :
          LET masters == MastersOf(r.plans, x)
              plain   == r.bytes[x].plain IN
          /\ Decrypts(r.bytes[x], Openers(r, x))
          /\ NewCiphers(plain, masters) # {}
          /\ files' = [files EXCEPT ![x] = Encrypt(plain, masters)]
    BY <1>2, <2>2 DEF ResealSource, ResealFails
  <2> DEFINE masters == MastersOf(r.plans, x)
             cipher  == Encrypt(r.bytes[x].plain, masters)
  <2>4. /\ r.pc = "reseal" /\ Sound(r) /\ r.plans \in PlanSet
        /\ Consistent(r.plans)
    BY <1>2, <2>2, RunIsSound DEF ResealSource, ResealFails, Sound, KeepsToPlans
  <2>5. x \in Path /\ r.bytes[x].plain \in Plain /\ r.bytes[x] \in Cipher
    BY <2>3, <2>4 DEF Sound, RunState, Decrypts, Cipher
  <2>6. masters \in SUBSET Key
    BY <2>4, <2>5, PlanTypes DEF Key
  <2>7. /\ cipher \in Cipher /\ cipher.plain = r.bytes[x].plain
        /\ cipher.to = masters
    BY <2>3, <2>5, <2>6, EncryptType
  <2>8. r.bytes[x] = files[x]
    BY <1>2, <2>1, <2>3 DEF Steadily, Resealing
  <2>9. \A t \in Consumers(r.plans, x) :
          masters = r.plans[t[1]].master_identities
    BY <2>4, MastersAreShared DEF Consumers
  <2>10. files' = [files EXCEPT ![x] = cipher]
    BY <2>3
  <2> HIDE DEF cipher, masters
  <2>11. s = x /\ files'[s] = cipher
    BY <1>2, <2>10 DEF Inv, TypeOK
  <2> QED
    BY <2>5, <2>7, <2>8, <2>9, <2>11
<1>3. ASSUME Inv, Ordered, Steady, [Next]_vars, NEW p \in Proc,
             run'[p] # run[p], run[p].cmd \in {"reseal", "reseal --force"},
             Committed(p), NEW s \in Sources(run[p].plans) \ run[p].unsealed
      PROVE  SealMatches(manifest', s, files'[s], MastersOf(run[p].plans, s))
  <2>1. /\ Moves(p) /\ Orderly(run[p]) /\ Steadily(run[p], files, manifest)
    BY <1>1, <1>3
  <2>2. /\ files' = files /\ manifest' = run[p].draft /\ run[p].pc = "commit"
        /\ run[p].unread = {} /\ run[p].prepared = {}
    BY <1>3, <2>1, CommitIs
  <2> QED
    BY <1>3, <2>1, <2>2 DEF Steadily, Resealing
<1>4. Inv /\ Ordered /\ Steady /\ [Next]_vars => [Keeps]_vars
  BY <1>2, <1>3
<1>5. ResealKeepsPlaintext <=> [][Keeps]_vars
  BY DEF ResealKeepsPlaintext
<1> HIDE DEF Keeps
<1> QED
  BY <1>4, <1>5, Invariance, OrderedAlways, SteadyAlways, PTL DEF Spec

(* Pruning keeps what the skip decisions for these plans look at.          *)
LEMMA PrunedKeepsSkips ==
  ASSUME NEW m \in Manifest, NEW plans \in PlanSet
  PROVE  LET w == Pruned(m, plans) IN
         /\ \A t \in Targets(plans) : \A source, output :
              MatchesPrev(m, plans, t, source, output)
                => MatchesPrev(w, plans, t, source, output)
         /\ \A s \in Sources(plans) : \A bytes, masters :
              SealMatches(m, s, bytes, masters)
                => SealMatches(w, s, bytes, masters)
<1> DEFINE w == Pruned(m, plans)
<1>1. ASSUME NEW t \in Targets(plans), NEW source, NEW output,
             MatchesPrev(m, plans, t, source, output)
      PROVE  MatchesPrev(w, plans, t, source, output)
  <2>1. /\ t[1] \in Host /\ t[2] \in Name /\ plans[t[1]] # None
        /\ t = <<t[1], t[2]>>
    BY DEF Targets
  <2>2. t[2] \in Live(plans, t[1])
    BY <2>1 DEF Live
  <2>3. m.hosts[t[1]] # None /\ m.hosts[t[1]] \in HostSection
    BY <1>1, <2>1 DEF MatchesPrev, MatchesHeader, Manifest
  <2> DEFINE h    == t[1]
             kept == [n \in Name |-> IF n \in Live(plans, h)
                                     THEN m.hosts[h].secrets[n] ELSE None]
  <2>4. w.hosts[h] = [m.hosts[h] EXCEPT !.secrets = kept]
    BY <2>1, <2>3, Zenon DEF Pruned
  <2>5. /\ kept[t[2]] = m.hosts[h].secrets[t[2]]
        /\ kept \in [Name -> SecretFingerprint \cup {None}]
    BY <2>1, <2>2, <2>3 DEF HostSection
  <2> HIDE DEF kept
  <2>6. /\ w.hosts[h] \in HostSection /\ w.hosts[h].secrets = kept
        /\ w.hosts[h].host_pubkey_sha256 = m.hosts[h].host_pubkey_sha256
        /\ w.hosts[h].master_set_sha256 = m.hosts[h].master_set_sha256
    BY <2>3, <2>4, <2>5 DEF HostSection
  <2> QED
    BY <1>1, <2>5, <2>6, SentinelAssumption
       DEF MatchesPrev, MatchesHeader, Entry
<1>2. ASSUME NEW s \in Sources(plans), NEW bytes, NEW masters,
             SealMatches(m, s, bytes, masters)
      PROVE  SealMatches(w, s, bytes, masters)
  <2>1. w.sources[s] = m.sources[s]
    BY PlanTypes DEF Pruned
  <2> QED
    BY <1>2, <2>1 DEF SealMatches
<1> QED
  BY <1>1, <1>2

(* gc changes neither an output nor a source of its plans.                 *)
LEMMA GcWrites ==
  ASSUME SourcesApart, Inv, NEW p \in Proc, Orderly(run[p]), Moves(p),
         run[p].cmd = "gc"
  PROVE  LET plans == run[p].plans IN
         /\ \A t \in Targets(plans) : files'[Output(plans, t)]
                                        = files[Output(plans, t)]
         /\ \A s \in Sources(plans) : files'[s] = files[s]
<1> DEFINE r == run[p]
<1>1. r.plans \in PlanSet
  BY RunIsSound
<1>2. \A s \in Sources(r.plans) : s \in Path /\ s \notin Stored(r.plans)
  BY <1>1, PlanTypes DEF Orderly
<1>3. \A s \in Sources(r.plans) : files'[s] = files[s]
  BY <1>2, WritesWhatIsStored
<1>4. files' # files => RemoveOrphan(p)
  BY WritersAre DEF Orderly, FanOut, FanOutFails, PurgeOutput,
     ResealSource, ResealFails, Save, SaveFails
<1>5. ASSUME NEW t \in Targets(r.plans), RemoveOrphan(p)
      PROVE  files'[Output(r.plans, t)] = files[Output(r.plans, t)]
  <2>1. PICK x \in r.victims : files' = [files EXCEPT ![x] = Absent]
    BY <1>5 DEF RemoveOrphan
  <2>2. Output(r.plans, t) # x /\ Output(r.plans, t) \in Path
    BY SweepFacts, PlanTypes DEF Outputs
  <2> QED
    BY <2>1, <2>2 DEF Inv, TypeOK
<1> QED
  BY <1>3, <1>4, <1>5

(* gc, run alone, costs nobody a skip: what rekey or reseal would have     *)
(* passed over before a step of it, they pass over after.  Where sources   *)
(* lie in a storage directory a sweep may delete one, and this fails.      *)
THEOREM GcSafe ==
  ASSUME Solo, SourcesApart
  PROVE  Spec => GcKeepsSkips
<1> DEFINE Keeps == \A p \in Proc :
             LET plans == run[p].plans IN
             run'[p] # run[p] /\ run[p].cmd = "gc" =>
               /\ \A t \in Targets(plans) :
                    LET source == Source(plans, t)
                        output == Output(plans, t) IN
                    MatchesPrev(manifest, plans, t, files[source], files[output])
                      => MatchesPrev(manifest', plans, t, files'[source],
                                     files'[output])
               /\ \A s \in Sources(plans) :
                    SealMatches(manifest, s, files[s], MastersOf(plans, s))
                      => SealMatches(manifest', s, files'[s],
                                     MastersOf(plans, s))
<1>1. ASSUME Inv, Ordered, Steady, [Next]_vars, NEW p \in Proc,
             run'[p] # run[p], run[p].cmd = "gc"
      PROVE  LET plans == run[p].plans IN
             /\ \A t \in Targets(plans) :
                  /\ files'[Output(plans, t)] = files[Output(plans, t)]
                  /\ files'[Source(plans, t)] = files[Source(plans, t)]
             /\ \A s \in Sources(plans) : files'[s] = files[s]
             /\ \/ manifest' = manifest
                \/ manifest' = Pruned(manifest, plans)
  <2> DEFINE r == run[p]
  <2>1. Moves(p) /\ Orderly(r) /\ Steadily(r, files, manifest)
    BY <1>1, ChangeIsMove DEF Ordered, Steady
  <2>2. /\ \A t \in Targets(r.plans) :
             files'[Output(r.plans, t)] = files[Output(r.plans, t)]
        /\ \A s \in Sources(r.plans) : files'[s] = files[s]
    BY <1>1, <2>1, GcWrites
  <2>3. manifest' # manifest => manifest' = Pruned(manifest, r.plans)
    BY <1>1, <2>1, ManifestBecomes DEF Steadily, Drafting
  <2> QED
    BY <2>2, <2>3 DEF Sources
<1>2. ASSUME Inv, Ordered, Steady, [Next]_vars, NEW p \in Proc,
             run'[p] # run[p], run[p].cmd = "gc",
             NEW t \in Targets(run[p].plans),
             MatchesPrev(manifest, run[p].plans, t,
                         files[Source(run[p].plans, t)],
                         files[Output(run[p].plans, t)])
      PROVE  MatchesPrev(manifest', run[p].plans, t,
                         files'[Source(run[p].plans, t)],
                         files'[Output(run[p].plans, t)])
  <2>1. manifest \in Manifest /\ run[p].plans \in PlanSet
    BY <1>2, RunIsSound DEF Inv, TypeOK
  <2> QED
    BY <1>1, <1>2, <2>1, PrunedKeepsSkips
<1>3. ASSUME Inv, Ordered, Steady, [Next]_vars, NEW p \in Proc,
             run'[p] # run[p], run[p].cmd = "gc",
             NEW s \in Sources(run[p].plans),
             SealMatches(manifest, s, files[s], MastersOf(run[p].plans, s))
      PROVE  SealMatches(manifest', s, files'[s], MastersOf(run[p].plans, s))
  <2>1. manifest \in Manifest /\ run[p].plans \in PlanSet
    BY <1>3, RunIsSound DEF Inv, TypeOK
  <2> QED
    BY <1>1, <1>3, <2>1, PrunedKeepsSkips
<1>4. Inv /\ Ordered /\ Steady /\ [Next]_vars => [Keeps]_vars
  BY <1>2, <1>3
<1>5. GcKeepsSkips <=> [][Keeps]_vars
  BY DEF GcKeepsSkips
<1> HIDE DEF Keeps
<1> QED
  BY <1>4, <1>5, Invariance, OrderedAlways, SteadyAlways, PTL DEF Spec

(* When a rekey commits, each of its targets either failed and has neither *)
(* output nor entry, or carries the source as read and is vouched for.     *)
LEMMA RekeyEnds ==
  ASSUME Inv, NEW p \in Proc, Orderly(run[p]),
         Steadily(run[p], files, manifest), Moves(p), Committed(p),
         run[p].cmd = "rekey", NEW t \in Targets(run[p].plans)
  PROVE  LET r    == run[p]
             path == Output(r.plans, t) IN
         IF t \in r.failed
         THEN files[path] = Absent /\ Entry(manifest', t) = None
         ELSE Done(r, files, t) /\ manifest' = r.draft
<1>1. /\ run[p].pc = "commit" /\ manifest' = run[p].draft
      /\ run[p].unread = {} /\ run[p].work = {} /\ run[p].stale = {}
      /\ run[p].doomed = {} /\ run[p].left = {}
  BY CommitIs
<1>2. Accounted(run[p], files, t)
  BY <1>1 DEF Steadily, Rekeying
<1>3. ~Waiting(run[p], t)
  BY <1>1 DEF Waiting
<1> QED
  BY <1>1, <1>2, <1>3 DEF Accounted

(* A rekey that runs alone leaves no output and no entry that is not true  *)
(* of the source it read, whatever failed on the way.                      *)
THEOREM RekeySafe ==
  ASSUME Solo
  PROVE  Spec => RekeyLeavesNoStale
<1> DEFINE Keeps == \A p \in Proc :
             LET r == run[p] IN
             Committed(p) /\ r.cmd = "rekey" =>
               \A t \in Targets(r.plans) :
                 LET source == r.bytes[Source(r.plans, t)]
                     path   == Output(r.plans, t)
                     plan   == r.plans[t[1]] IN
                 IF t \in r.failed
                 THEN files[path] = Absent /\ Entry(manifest', t) = None
                 ELSE /\ Carries(files[path], source, plan.master_identities,
                                 plan.host_pubkey)
                      /\ Entry(manifest', t)
                           = Fingerprint(source, path, files[path])
<1>1. ASSUME Inv, Ordered, Steady, [Next]_vars, NEW p \in Proc,
             Committed(p), run[p].cmd = "rekey", NEW t \in Targets(run[p].plans)
      PROVE  LET r      == run[p]
                 source == r.bytes[Source(r.plans, t)]
                 path   == Output(r.plans, t)
                 plan   == r.plans[t[1]] IN
             IF t \in r.failed
             THEN files[path] = Absent /\ Entry(manifest', t) = None
             ELSE /\ Carries(files[path], source, plan.master_identities,
                             plan.host_pubkey)
                  /\ Entry(manifest', t)
                       = Fingerprint(source, path, files[path])
  <2>1. Moves(p) /\ Orderly(run[p]) /\ Steadily(run[p], files, manifest)
    BY <1>1, ChangeIsMove DEF Ordered, Steady
  <2> QED
    BY <1>1, <2>1, RekeyEnds DEF Done
<1>2. Inv /\ Ordered /\ Steady /\ [Next]_vars => [Keeps]_vars
  BY <1>1
<1>3. RekeyLeavesNoStale <=> [][Keeps]_vars
  BY DEF RekeyLeavesNoStale
<1> HIDE DEF Keeps
<1> QED
  BY <1>2, <1>3, Invariance, OrderedAlways, SteadyAlways, PTL DEF Spec

(* A target that is done, with the source as it was read, is one the next  *)
(* rekey skips.                                                            *)
LEMMA DoneIsSkipped ==
  ASSUME NEW r \in RunState, NEW f, NEW t \in Targets(r.plans),
         HasHeaders(r.draft, r.plans), Done(r, f, t),
         r.bytes[Source(r.plans, t)] = f[Source(r.plans, t)]
  PROVE  MatchesPrev(r.draft, r.plans, t, f[Source(r.plans, t)],
                     f[Output(r.plans, t)])
<1> DEFINE source == f[Source(r.plans, t)]
           path   == Output(r.plans, t)
           output == f[path]
           fp     == Fingerprint(source, path, output)
<1>1. source \in Cipher /\ output \in Cipher /\ Entry(r.draft, t) = fp
  BY DEF Done, Carries, Decrypts
<1>2. path \in Path /\ t[1] \in Planned(r.plans)
  BY PlanTypes DEF RunState, Targets, Planned
<1> HIDE DEF source, output, path
<1>3. fp \in SecretFingerprint /\ output # Absent
  BY <1>1, <1>2, SentinelAssumption
     DEF SecretFingerprint, Fingerprint, Sha, Content
<1>4. /\ fp # None /\ fp.source_sha256 = Sha(source)
      /\ fp.output_file = path /\ fp.output_sha256 = Sha(output)
  BY <1>3, SentinelAssumption DEF Fingerprint
<1> HIDE DEF fp
<1> QED
  BY <1>1, <1>2, <1>3, <1>4
     DEF MatchesPrev, MatchesHeader, HasHeaders, source, output, path

(* A rekey that runs alone and exits 0 leaves nothing for the next one to  *)
(* do: it would skip every target, and there is no orphan to sweep.        *)
THEOREM RekeySettled ==
  ASSUME Solo, SourcesApart
  PROVE  Spec => RekeySettles
<1> DEFINE Keeps == \A p \in Proc :
             LET r == run[p] IN
             Committed(p) /\ r.cmd = "rekey" /\ run'[p].exit = "ok" =>
               /\ \A t \in Targets(r.plans) :
                    MatchesPrev(manifest', r.plans, t,
                                files[Source(r.plans, t)],
                                files[Output(r.plans, t)])
               /\ \A h \in Planned(r.plans) :
                    \A x \in r.plans[h].local_storage_dir \ Owned(r.plans, h) :
                      files[x] = Absent
<1>1. ASSUME Inv, Ordered, Steady, [Next]_vars, NEW p \in Proc,
             Committed(p), run[p].cmd = "rekey", run'[p].exit = "ok"
      PROVE  LET r == run[p] IN
             /\ \A t \in Targets(r.plans) :
                  MatchesPrev(manifest', r.plans, t, files[Source(r.plans, t)],
                              files[Output(r.plans, t)])
             /\ \A h \in Planned(r.plans) :
                  \A x \in r.plans[h].local_storage_dir \ Owned(r.plans, h) :
                    files[x] = Absent
  <2> DEFINE r == run[p]
  <2>1. Moves(p) /\ Orderly(r) /\ Steadily(r, files, manifest)
    BY <1>1, ChangeIsMove DEF Ordered, Steady
  <2>2. /\ r.pc = "commit" /\ manifest' = r.draft /\ r.failed = {}
        /\ r.unread = {} /\ r.unswept = {} /\ r.victims = {}
    BY <1>1, <2>1, CommitIs
  <2>3. r \in RunState
    BY RunIsSound, <1>1 DEF Sound
  <2>4. ASSUME NEW t \in Targets(r.plans)
        PROVE  MatchesPrev(manifest', r.plans, t, files[Source(r.plans, t)],
                           files[Output(r.plans, t)])
    <3>1. Done(r, files, t)
      BY <1>1, <2>1, <2>2, RekeyEnds
    <3>2. HasHeaders(r.draft, r.plans)
      BY <1>1, <2>1, <2>2 DEF Steadily, Rekeying
    <3>3. r.bytes[Source(r.plans, t)] = files[Source(r.plans, t)]
      BY <1>1, <2>1, <2>2 DEF Steadily, Settling
    <3> QED
      BY <2>2, <2>3, <3>1, <3>2, <3>3, DoneIsSkipped
  <2>5. \A h \in Planned(r.plans) : \A x \in Orphans(r.plans, h) :
          files[x] = Absent
    BY <1>1, <2>1, <2>2 DEF Steadily, Settling
  <2> QED
    BY <2>4, <2>5 DEF Orphans
<1>2. Inv /\ Ordered /\ Steady /\ [Next]_vars => [Keeps]_vars
  BY <1>1
<1>3. RekeySettles <=> [][Keeps]_vars
  BY DEF RekeySettles
<1> HIDE DEF Keeps
<1> QED
  BY <1>2, <1>3, Invariance, OrderedAlways, SteadyAlways, PTL DEF Spec

(* An edit that runs alone deploys what was edited in the same invocation: *)
(* no host that consumes the source keeps the old secret.                  *)
THEOREM EditDeployed ==
  ASSUME Solo, SourcesApart, EditsApart
  PROVE  Spec => EditIsDeployed
<1> DEFINE Keeps == \A p \in Proc :
             LET r == run[p] IN
             Committed(p) /\ r.secret # None =>
               /\ files[r.secret] \in Cipher /\ files[r.secret].plain = r.staged
               /\ \A t \in Consumers(r.plans, r.secret) :
                    LET output == files[Output(r.plans, t)] IN
                    \/ output = Absent /\ run'[p].exit # "ok"
                    \/ /\ output \in Cipher
                       /\ output.plain = r.staged
                       /\ output.to = {r.plans[t[1]].host_pubkey}
<1>1. ASSUME Inv, Ordered, Steady, [Next]_vars, NEW p \in Proc,
             Committed(p), run[p].secret # None
      PROVE  LET r == run[p] IN
             /\ files[r.secret] \in Cipher /\ files[r.secret].plain = r.staged
             /\ \A t \in Consumers(r.plans, r.secret) :
                  LET output == files[Output(r.plans, t)] IN
                  \/ output = Absent /\ run'[p].exit # "ok"
                  \/ /\ output \in Cipher
                     /\ output.plain = r.staged
                     /\ output.to = {r.plans[t[1]].host_pubkey}
  <2> DEFINE r == run[p]
  <2>1. Moves(p) /\ Orderly(r) /\ Steadily(r, files, manifest)
    BY <1>1, ChangeIsMove DEF Ordered, Steady
  <2>2. /\ r.pc = "commit" /\ r.unread = {}
        /\ run'[p].exit = "ok" => r.failed = {}
    BY <1>1, <2>1, CommitIs
  <2>3. r.cmd = "rekey"
    BY <1>1, <2>1, <2>2 DEF Orderly
  <2>4. files[r.secret] \in Cipher /\ files[r.secret].plain = r.staged
    BY <1>1, <2>1, <2>3 DEF Steadily, Deploying
  <2>5. ASSUME NEW t \in Consumers(r.plans, r.secret)
        PROVE  LET output == files[Output(r.plans, t)] IN
               \/ output = Absent /\ run'[p].exit # "ok"
               \/ /\ output \in Cipher
                  /\ output.plain = r.staged
                  /\ output.to = {r.plans[t[1]].host_pubkey}
    <3>1. t \in Targets(r.plans) /\ Source(r.plans, t) = r.secret
      BY DEF Consumers
    <3>2. CASE t \in r.failed
      BY <1>1, <2>1, <2>2, <2>3, <3>1, <3>2, RekeyEnds
    <3>3. CASE t \notin r.failed
      <4>1. Done(r, files, t)
        BY <1>1, <2>1, <2>3, <3>1, <3>3, RekeyEnds
      <4>2. r.bytes[r.secret] = files[r.secret]
        BY <1>1, <2>1, <2>2, <2>3, <3>1, <3>3 DEF Steadily, Settling
      <4> QED
        BY <2>4, <3>1, <4>1, <4>2 DEF Done, Carries
    <3> QED
      BY <3>2, <3>3
  <2> QED
    BY <2>4, <2>5
<1>2. Inv /\ Ordered /\ Steady /\ [Next]_vars => [Keeps]_vars
  BY <1>1
<1>3. EditIsDeployed <=> [][Keeps]_vars
  BY DEF EditIsDeployed
<1> HIDE DEF Keeps
<1> QED
  BY <1>2, <1>3, Invariance, OrderedAlways, SteadyAlways, PTL DEF Spec

=============================================================================
