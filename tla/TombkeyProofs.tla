---------------------------- MODULE TombkeyProofs ----------------------------
(***************************************************************************)
(* Theorems about Tombkey for every value of its constants: any number of  *)
(* processes, hosts, secrets and keys, any configurations, any bound on    *)
(* edits and faults.                                                       *)
(***************************************************************************)
EXTENDS Tombkey, TLAPS

(* The manifest operators return manifests.                                *)
LEMMA EmptyManifestType == EmptyManifest \in Manifest
  BY DEF EmptyManifest, Manifest

(* A new section is one.                                                   *)
LEMMA NewSectionType ==
  ASSUME NEW plan \in Plan
  PROVE  NewSection(plan) \in HostSection
  BY DEF NewSection, HostSection, NoSecrets, Plan, Sha

(* So is the fingerprint of a source and an output that are there.         *)
LEMMA FingerprintType ==
  ASSUME NEW source \in Content, NEW path \in Path, NEW output \in Content
  PROVE  Fingerprint(source, path, output) \in SecretFingerprint
  BY DEF Fingerprint, SecretFingerprint, Sha

(* Entering a seal makes a manifest of a manifest.                         *)
LEMMA WithSealType ==
  ASSUME NEW m \in Manifest, NEW s \in Path, NEW bytes \in Content,
         NEW masters \in SUBSET MasterKey
  PROVE  WithSeal(m, s, bytes, masters) \in Manifest
<1> DEFINE seal == [ciphertext_sha256 |-> Sha(bytes),
                    master_set_sha256 |-> Sha(masters)]
<1>1. seal \in SourceSealState
  BY DEF SourceSealState, Sha
<1>2. [m.sources EXCEPT ![s] = seal] \in [Path -> SourceSealState \cup {None}]
  BY <1>1 DEF Manifest
<1>3. WithSeal(m, s, bytes, masters)
        = [m EXCEPT !.sources = [m.sources EXCEPT ![s] = seal]]
  BY DEF WithSeal
<1> QED
  BY <1>2, <1>3 DEF Manifest

(* So does entering, or taking away, a fingerprint in a section there is.  *)
LEMMA WithEntryType ==
  ASSUME NEW m \in Manifest, NEW t \in Target, m.hosts[t[1]] # None,
         NEW fp \in SecretFingerprint \cup {None}
  PROVE  WithEntry(m, t, fp) \in Manifest
<1> DEFINE section == [m.hosts[t[1]] EXCEPT !.secrets[t[2]] = fp]
<1>1. t[1] \in Host /\ t[2] \in Name
  BY DEF Target
<1>2. m.hosts[t[1]] \in HostSection
  BY <1>1 DEF Manifest
<1>3. section \in HostSection
  BY <1>1, <1>2 DEF HostSection
<1>4. WithEntry(m, t, fp) = [m EXCEPT !.hosts = [m.hosts EXCEPT ![t[1]] = section]]
  BY DEF WithEntry
<1> QED
  BY <1>1, <1>3, <1>4 DEF Manifest

(* So does giving the hosts of a plan set new sections,                    *)
LEMMA WithNewSectionsType ==
  ASSUME NEW m \in Manifest, NEW plans \in PlanSet
  PROVE  WithNewSections(m, plans) \in Manifest
<1>1. \A h \in Host : plans[h] # None => NewSection(plans[h]) \in HostSection
  BY NewSectionType DEF PlanSet
<1> QED
  BY <1>1 DEF WithNewSections, Manifest

(* and so does what gc does to it.                                         *)
LEMMA PrunedType ==
  ASSUME NEW m \in Manifest, NEW plans \in PlanSet
  PROVE  Pruned(m, plans) \in Manifest
<1>1. ASSUME NEW h \in Host, m.hosts[h] # None
      PROVE  [m.hosts[h] EXCEPT
                !.secrets = [n \in Name |-> IF n \in Live(plans, h)
                                            THEN m.hosts[h].secrets[n]
                                            ELSE None]] \in HostSection
  BY <1>1 DEF Manifest, HostSection
<1> QED
  BY <1>1 DEF Pruned, Manifest

(* What plans name are paths, masters and keys.                            *)
LEMMA PlanTypes ==
  ASSUME NEW plans \in PlanSet
  PROVE  /\ Targets(plans) \subseteq Target
         /\ Planned(plans) \subseteq Host
         /\ \A t \in Targets(plans) :
              /\ Source(plans, t) \in Path
              /\ Output(plans, t) \in Path
              /\ plans[t[1]].host_pubkey \in HostKey
              /\ plans[t[1]].master_identities \in SUBSET MasterKey
         /\ Sources(plans) \subseteq Path
         /\ \A s \in Path : MastersOf(plans, s) \subseteq MasterKey
         /\ \A s : Consumers(plans, s) \subseteq Targets(plans)
<1>1. Targets(plans) \subseteq Target /\ Planned(plans) \subseteq Host
  BY DEF Targets, Target, Planned
<1>2. ASSUME NEW t \in Targets(plans)
      PROVE  plans[t[1]] \in Plan /\ plans[t[1]].secrets[t[2]] \in SecretEntry
  BY <1>1 DEF Targets, PlanSet, Plan
<1>3. \A t \in Targets(plans) :
        /\ Source(plans, t) \in Path
        /\ Output(plans, t) \in Path
        /\ plans[t[1]].host_pubkey \in HostKey
        /\ plans[t[1]].master_identities \in SUBSET MasterKey
  BY <1>2 DEF Source, Output, SecretEntry, Plan
<1>4. Sources(plans) \subseteq Path
  BY <1>3 DEF Sources
<1>5. \A s : Consumers(plans, s) \subseteq Targets(plans)
  BY DEF Consumers
<1>6. \A s \in Path : MastersOf(plans, s) \subseteq MasterKey
  BY <1>3, <1>5 DEF MastersOf
<1> QED
  BY <1>1, <1>3, <1>4, <1>5, <1>6

(* A new ciphertext is what it is asked to be.                             *)
LEMMA EncryptType ==
  ASSUME NEW plain \in Plain, NEW to \in SUBSET Key, NewCiphers(plain, to) # {}
  PROVE  /\ Encrypt(plain, to) \in Cipher
         /\ Encrypt(plain, to).plain = plain
         /\ Encrypt(plain, to).to = to
<1>1. Encrypt(plain, to) \in NewCiphers(plain, to)
  BY DEF Encrypt
<1> QED
  BY <1>1 DEF NewCiphers, Cipher

-----------------------------------------------------------------------------
(* The inductive invariant *)

(* A process state has its type and deals truly with its own plans.        *)
Sound(r) == r \in RunState /\ KeepsToPlans(r) /\ WorksSoundly(r)

Inv == TypeOK /\ Truthful

(* A step of p into a sound state, with a manifest that tells the truth,   *)
(* keeps the invariant.                                                    *)
LEMMA StepKeepsInv ==
  ASSUME Inv, NEW p \in Proc, NEW state, Sound(state), Goto(p, state),
         files' \in [Path -> File], config' \in Configs,
         events' \in 0 .. MaxEvents,
         manifest' \in Manifest, Certified(manifest'), Sealed(manifest')
  PROVE  Inv'
<1>1. run' = [run EXCEPT ![p] = state] /\ run \in [Proc -> RunState]
  BY DEF Goto, Inv, TypeOK
<1>2. \A q \in Proc : run'[q] = IF q = p THEN state ELSE run[q]
  BY <1>1
<1>3. run' \in [Proc -> RunState]
  BY <1>1 DEF Sound
<1>4. \A q \in Proc : KeepsToPlans(run'[q]) /\ WorksSoundly(run'[q])
  BY <1>2 DEF Sound, Inv, Truthful
<1> QED
  BY <1>3, <1>4 DEF Inv, TypeOK, Truthful

(* Faults keep the count of events within its bound.                       *)
LEMMA FaultIsBounded ==
  ASSUME Inv, Fault
  PROVE  events' \in 0 .. MaxEvents
  BY BoundAssumption DEF Inv, TypeOK, Fault

(* The invariant says of every process that it is sound.                   *)
LEMMA RunIsSound ==
  ASSUME Inv, NEW p \in Proc
  PROVE  Sound(run[p]) /\ run[p].plans \in PlanSet
  BY DEF Inv, TypeOK, Truthful, Sound, RunState

(* Nothing is recorded, nothing planned: nothing is false.                 *)
LEMMA EmptyManifestIsTrue ==
  Certified(EmptyManifest) /\ Sealed(EmptyManifest)
  BY DEF EmptyManifest, Certified, Sealed, Target

(* A process that is not running is sound.                                 *)
LEMMA IdleIsSound ==
  ASSUME NEW exit \in {"none", "ok", "failures", "error", "killed"}
  PROVE  Sound(Idle(exit))
<1>1. Idle(exit) \in RunState
  BY EmptyManifestType DEF Idle, RunState, NoPlans, PlanSet, File
<1>2. Targets(NoPlans) = {} /\ Planned(NoPlans) = {}
  BY DEF Targets, Planned, NoPlans
<1>3. KeepsToPlans(Idle(exit))
  BY <1>2 DEF KeepsToPlans, Idle, ValidSet
<1>4. WorksSoundly(Idle(exit))
  BY EmptyManifestIsTrue DEF WorksSoundly, Idle
<1> QED
  BY <1>1, <1>3, <1>4 DEF Sound

(* A process may end at any time without changing the manifest.            *)
LEMMA ReturnKeepsInv ==
  ASSUME Inv, NEW p \in Proc, NEW exit \in {"ok", "failures", "error", "killed"},
         Return(p, exit), files' = files, config' = config,
         events' \in 0 .. MaxEvents,
         manifest' \in Manifest, Certified(manifest'), Sealed(manifest')
  PROVE  Inv'
  BY IdleIsSound, StepKeepsInv DEF Return, Inv, TypeOK

-----------------------------------------------------------------------------
(* Entering a fingerprint or a seal *)

(* What a manifest with a new entry has for each target.                   *)
LEMMA WithEntryIs ==
  ASSUME NEW m \in Manifest, NEW t \in Target, m.hosts[t[1]] # None,
         NEW fp \in SecretFingerprint \cup {None}
  PROVE  LET w == WithEntry(m, t, fp) IN
         /\ w.sources = m.sources
         /\ \A u \in Target :
              /\ w.hosts[u[1]] # None <=> m.hosts[u[1]] # None
              /\ m.hosts[u[1]] # None =>
                   /\ w.hosts[u[1]].host_pubkey_sha256
                        = m.hosts[u[1]].host_pubkey_sha256
                   /\ w.hosts[u[1]].master_set_sha256
                        = m.hosts[u[1]].master_set_sha256
                   /\ Entry(w, u) = IF u = t THEN fp ELSE Entry(m, u)
<1> DEFINE section == [m.hosts[t[1]] EXCEPT !.secrets[t[2]] = fp]
           w       == WithEntry(m, t, fp)
<1>1. t[1] \in Host /\ t[2] \in Name /\ t = <<t[1], t[2]>>
  BY DEF Target
<1>2. m.hosts[t[1]] \in HostSection
  BY <1>1 DEF Manifest
<1>3. /\ section \in HostSection
      /\ section.host_pubkey_sha256 = m.hosts[t[1]].host_pubkey_sha256
      /\ section.master_set_sha256 = m.hosts[t[1]].master_set_sha256
      /\ \A n \in Name : section.secrets[n] =
           IF n = t[2] THEN fp ELSE m.hosts[t[1]].secrets[n]
  BY <1>1, <1>2 DEF HostSection
<1>4. w = [m EXCEPT !.hosts = [m.hosts EXCEPT ![t[1]] = section]]
  BY DEF WithEntry
<1>5. /\ w.sources = m.sources
      /\ \A h \in Host : w.hosts[h] = IF h = t[1] THEN section ELSE m.hosts[h]
  BY <1>1, <1>4 DEF Manifest
<1>6. section # None
  BY <1>3, SentinelAssumption
<1>7. ASSUME NEW u \in Target
      PROVE  /\ w.hosts[u[1]] # None <=> m.hosts[u[1]] # None
             /\ m.hosts[u[1]] # None =>
                  /\ w.hosts[u[1]].host_pubkey_sha256
                       = m.hosts[u[1]].host_pubkey_sha256
                  /\ w.hosts[u[1]].master_set_sha256
                       = m.hosts[u[1]].master_set_sha256
                  /\ Entry(w, u) = IF u = t THEN fp ELSE Entry(m, u)
  <2>1. u[1] \in Host /\ u[2] \in Name /\ u = <<u[1], u[2]>>
    BY DEF Target
  <2>2. CASE u[1] = t[1]
    <3>1. w.hosts[u[1]] = section
      BY <1>5, <2>1, <2>2
    <3>2. u = t <=> u[2] = t[2]
      BY <1>1, <2>1, <2>2
    <3> QED
      BY <1>3, <1>6, <2>1, <2>2, <3>1, <3>2 DEF Entry
  <2>3. CASE u[1] # t[1]
    BY <1>5, <2>1, <2>3 DEF Entry
  <2> QED
    BY <2>2, <2>3
<1> QED
  BY <1>5, <1>7

(* A true entry under the keys of its section keeps a manifest true.       *)
LEMMA WithEntryIsTrue ==
  ASSUME NEW m \in Manifest, NEW t \in Target, m.hosts[t[1]] # None,
         NEW fp \in SecretFingerprint, Certified(m), Sealed(m),
         Carries(fp.output_sha256.sha256, fp.source_sha256.sha256,
                 m.hosts[t[1]].master_set_sha256.sha256,
                 m.hosts[t[1]].host_pubkey_sha256.sha256)
  PROVE  Certified(WithEntry(m, t, fp)) /\ Sealed(WithEntry(m, t, fp))
<1> DEFINE w == WithEntry(m, t, fp)
<1>1. Sealed(w)
  <2>1. w.sources = m.sources
    BY WithEntryIs
  <2> QED
    BY <2>1 DEF Sealed
<1>2. ASSUME NEW u \in Target, w.hosts[u[1]] # None, Entry(w, u) # None
      PROVE  Carries(Entry(w, u).output_sha256.sha256,
                     Entry(w, u).source_sha256.sha256,
                     w.hosts[u[1]].master_set_sha256.sha256,
                     w.hosts[u[1]].host_pubkey_sha256.sha256)
  <2>1. /\ m.hosts[u[1]] # None
        /\ w.hosts[u[1]].host_pubkey_sha256 = m.hosts[u[1]].host_pubkey_sha256
        /\ w.hosts[u[1]].master_set_sha256 = m.hosts[u[1]].master_set_sha256
        /\ Entry(w, u) = IF u = t THEN fp ELSE Entry(m, u)
    BY <1>2, WithEntryIs
  <2>2. CASE u = t
    BY <2>1, <2>2
  <2>3. CASE u # t
    BY <1>2, <2>1, <2>3 DEF Certified
  <2> QED
    BY <2>2, <2>3
<1>3. Certified(w)
  BY <1>2 DEF Certified
<1> QED
  BY <1>1, <1>3

(* Entering a fingerprint leaves the headers of the sections alone.        *)
LEMMA WithEntryHasHeaders ==
  ASSUME NEW m \in Manifest, NEW t \in Target, m.hosts[t[1]] # None,
         NEW fp \in SecretFingerprint, NEW plans \in PlanSet,
         HasHeaders(m, plans)
  PROVE  HasHeaders(WithEntry(m, t, fp), plans)
<1> DEFINE w == WithEntry(m, t, fp)
<1>1. \A u \in Target :
        /\ w.hosts[u[1]] # None <=> m.hosts[u[1]] # None
        /\ m.hosts[u[1]] # None =>
             /\ w.hosts[u[1]].host_pubkey_sha256
                  = m.hosts[u[1]].host_pubkey_sha256
             /\ w.hosts[u[1]].master_set_sha256
                  = m.hosts[u[1]].master_set_sha256
  BY WithEntryIs
<1>2. ASSUME NEW h \in Planned(plans)
      PROVE  /\ w.hosts[h] # None <=> m.hosts[h] # None
             /\ m.hosts[h] # None =>
                  /\ w.hosts[h].host_pubkey_sha256
                       = m.hosts[h].host_pubkey_sha256
                  /\ w.hosts[h].master_set_sha256
                       = m.hosts[h].master_set_sha256
  <2>1. <<h, t[2]>> \in Target
    BY DEF Planned, Target
  <2>2. <<h, t[2]>>[1] = h
    OBVIOUS
  <2> HIDE DEF w
  <2> QED
    BY <1>1, <2>1, <2>2
<1> QED
  BY <1>2 DEF HasHeaders

(* The seal of a ciphertext to exactly these masters is true.              *)
LEMMA WithSealIsTrue ==
  ASSUME NEW m \in Manifest, NEW s \in Path, NEW c \in Cipher,
         Certified(m), Sealed(m)
  PROVE  /\ Certified(WithSeal(m, s, c, c.to))
         /\ Sealed(WithSeal(m, s, c, c.to))
<1> DEFINE w == WithSeal(m, s, c, c.to)
<1>1. w.hosts = m.hosts
  BY DEF WithSeal, Manifest
<1>2. \A x \in Path : w.sources[x] =
        IF x = s THEN [ciphertext_sha256 |-> Sha(c), master_set_sha256 |-> Sha(c.to)]
        ELSE m.sources[x]
  BY DEF WithSeal, Manifest
<1>3. Certified(w)
  BY <1>1 DEF Certified, Entry
<1>4. Sealed(w)
  BY <1>2 DEF Sealed, Sha
<1> QED
  BY <1>3, <1>4

(* Two lemmas about plans: hosts that share a source share its masters,    *)
(* and no host's storage directory holds an output that is not its own.    *)
LEMMA MastersAreShared ==
  ASSUME NEW plans \in PlanSet, Consistent(plans), NEW t \in Targets(plans)
  PROVE  MastersOf(plans, Source(plans, t)) = plans[t[1]].master_identities
<1>1. t \in Consumers(plans, Source(plans, t))
  BY DEF Consumers
<1>2. \A u \in Consumers(plans, Source(plans, t)) :
        plans[u[1]].master_identities = plans[t[1]].master_identities
  BY DEF Consumers, Consistent
<1> QED
  BY <1>1, <1>2 DEF MastersOf

(* What lies in one host's storage and is not its output is no host's      *)
(* output: the directories of a valid plan set are disjoint.               *)
LEMMA OrphansAreNotOutputs ==
  ASSUME NEW plans \in PlanSet, ValidSet(plans), NEW h \in Planned(plans)
  PROVE  (plans[h].local_storage_dir \ Owned(plans, h)) \cap Outputs(plans) = {}
<1>1. SUFFICES ASSUME NEW t \in Targets(plans),
                      Output(plans, t) \in plans[h].local_storage_dir
               PROVE  Output(plans, t) \in Owned(plans, h)
  BY DEF Outputs
<1>2. t[1] \in Planned(plans)
  BY DEF Targets, Planned
<1>3. Output(plans, t) \in plans[t[1]].local_storage_dir
  BY <1>2 DEF ValidSet, ValidPlan
<1>4. t[1] = h
  BY <1>1, <1>2, <1>3 DEF ValidSet
<1> QED
  BY <1>4 DEF Owned

-----------------------------------------------------------------------------
(* Starting and ending *)

(* Starting a command with plans it accepts, or refuses.                   *)
LEMMA InvokeKeepsInv ==
  ASSUME Inv, NEW p \in Proc, NEW cmd \in CommandSet, Invoke(p, cmd)
  PROVE  Inv'
<1>1. PICK hosts \in Selections :
        IF Accepted(cmd, Chosen(hosts))
        THEN Goto(p, [Idle("none") EXCEPT !.cmd = cmd, !.pc = "load",
                                          !.plans = Chosen(hosts)])
        ELSE Return(p, "error")
  BY DEF Invoke
<1> DEFINE plans == Chosen(hosts)
           state == [Idle("none") EXCEPT !.cmd = cmd, !.pc = "load",
                                         !.plans = plans]
<1>2. /\ files' \in [Path -> File] /\ config' \in Configs
      /\ events' \in 0 .. MaxEvents /\ manifest' \in Manifest
      /\ Certified(manifest') /\ Sealed(manifest') /\ files' = files
      /\ config' = config
  BY DEF Invoke, storeVars, Inv, TypeOK, Truthful
<1>3. CASE Accepted(cmd, plans)
  <2>1. plans \in PlanSet
    BY ConfigAssumption DEF Chosen, PlanSet, Inv, TypeOK
  <2>2. Idle("none") \in RunState /\ WorksSoundly(Idle("none"))
    BY IdleIsSound DEF Sound
  <2>3. state \in RunState
    BY <2>1, <2>2 DEF RunState
  <2>4. /\ state.pc = "load" /\ state.plans = plans /\ state.cmd = cmd
        /\ state.loaded = EmptyManifest /\ state.draft = EmptyManifest
        /\ state.work = {} /\ state.stale = {} /\ state.doomed = {}
        /\ state.unread = {} /\ state.prepared = {} /\ state.unswept = {}
        /\ state.victims = {}
    BY DEF Idle
  <2>5. KeepsToPlans(state)
    BY <1>3, <2>4 DEF KeepsToPlans, Accepted
  <2>6. WorksSoundly(state)
    BY <2>4, EmptyManifestIsTrue DEF WorksSoundly
  <2> QED
    BY <1>1, <1>2, <1>3, <2>3, <2>5, <2>6, StepKeepsInv DEF Sound
<1>4. CASE ~Accepted(cmd, plans)
  BY <1>1, <1>2, <1>4, ReturnKeepsInv
<1> QED
  BY <1>3, <1>4

(* A run that ends by a fault, by a kill, or by its commit.                *)
LEMMA EndKeepsInv ==
  ASSUME Inv, NEW p \in Proc,
         LoadFails(p) \/ SweepFails(p) \/ Crash(p) \/ Commit(p) \/ CommitFails(p)
  PROVE  Inv'
<1>1. /\ files \in [Path -> File] /\ config \in Configs
      /\ events \in 0 .. MaxEvents /\ manifest \in Manifest
      /\ Certified(manifest) /\ Sealed(manifest)
  BY DEF Inv, TypeOK, Truthful
<1>2. /\ run[p].draft \in Manifest
      /\ Certified(run[p].draft) /\ Sealed(run[p].draft)
  BY RunIsSound DEF Sound, RunState, WorksSoundly
<1>3. CASE LoadFails(p)
  BY <1>1, <1>3, FaultIsBounded, ReturnKeepsInv DEF LoadFails
<1>4. CASE SweepFails(p)
  BY <1>1, <1>4, FaultIsBounded, ReturnKeepsInv DEF SweepFails
<1>5. CASE Crash(p)
  BY <1>1, <1>5, FaultIsBounded, ReturnKeepsInv DEF Crash
<1>6. CASE Commit(p)
  <2>1. manifest' \in {manifest, run[p].draft}
    BY <1>6 DEF Commit
  <2>2. PICK exit \in {"ok", "failures"} : Return(p, exit)
    BY <1>6 DEF Commit
  <2>3. files' = files /\ config' = config /\ events' = events
    BY <1>6 DEF Commit
  <2> QED
    BY <1>1, <1>2, <2>1, <2>2, <2>3, ReturnKeepsInv
<1>7. CASE CommitFails(p)
  <2>1. manifest' \in {manifest, run[p].draft}
    BY <1>7 DEF CommitFails
  <2>2. Return(p, "error") /\ files' = files /\ config' = config /\ Fault
    BY <1>7 DEF CommitFails
  <2> QED
    BY <1>1, <1>2, <2>1, <2>2, FaultIsBounded, ReturnKeepsInv
<1> QED
  BY <1>3, <1>4, <1>5, <1>6, <1>7

(* What other hands do leaves the processes and what is recorded alone.    *)
LEMMA EnvironmentKeepsInv ==
  ASSUME Inv, Environment
  PROVE  Inv'
<1>1. /\ Fault /\ run' = run
      /\ config' \in Configs
      /\ manifest' \in {manifest, EmptyManifest}
  BY DEF Environment, ChangeSource, ChangeOutput, Reconfigure, LoseManifest,
         Inv, TypeOK
<1>2. /\ files \in [Path -> File]
      /\ \A p \in Proc : run[p].bytes \in [Path -> File]
  BY DEF Inv, TypeOK, RunState
<1>3. files' \in [Path -> File]
  <2>1. Absent \in File /\ Junk \in File /\ Cipher \subseteq File
    BY DEF File, Content
  <2>2. CASE ChangeSource
    <3>1. PICK s \in Sources(config) :
            \/ \E plain \in Plain, to \in MasterSets :
                 /\ NewCiphers(plain, to) # {}
                 /\ files' = [files EXCEPT ![s] = Encrypt(plain, to)]
            \/ \E old \in OlderVersions(MasterKey) \cup {Absent, Junk} :
                 files' = [files EXCEPT ![s] = old]
      BY <2>2 DEF ChangeSource
    <3>2. ASSUME NEW plain \in Plain, NEW to \in MasterSets,
                 NewCiphers(plain, to) # {},
                 files' = [files EXCEPT ![s] = Encrypt(plain, to)]
          PROVE  files' \in [Path -> File]
      <4>1. to \in SUBSET Key
        BY ConfigAssumption
           DEF MasterSets, Planned, PlanSet, Plan, Key, Inv, TypeOK
      <4> QED
        BY <1>2, <2>1, <3>2, <4>1, EncryptType
    <3>3. ASSUME NEW old \in OlderVersions(MasterKey) \cup {Absent, Junk},
                 files' = [files EXCEPT ![s] = old]
          PROVE  files' \in [Path -> File]
      BY <1>2, <2>1, <3>3 DEF OlderVersions
    <3> QED
      BY <3>1, <3>2, <3>3
  <2>3. CASE ChangeOutput
    <3>1. PICK h \in Planned(config) : \E x \in config[h].local_storage_dir :
            \/ \E old \in OlderVersions(HostKey) \cup {Absent, Junk} :
                 files' = [files EXCEPT ![x] = old]
            \/ \E plain \in Plain :
                 /\ NewCiphers(plain, {config[h].host_pubkey}) # {}
                 /\ files' = [files EXCEPT
                                ![x] = Encrypt(plain, {config[h].host_pubkey})]
      BY <2>3 DEF ChangeOutput
    <3>2. PICK x \in config[h].local_storage_dir :
            \/ \E old \in OlderVersions(HostKey) \cup {Absent, Junk} :
                 files' = [files EXCEPT ![x] = old]
            \/ \E plain \in Plain :
                 /\ NewCiphers(plain, {config[h].host_pubkey}) # {}
                 /\ files' = [files EXCEPT
                                ![x] = Encrypt(plain, {config[h].host_pubkey})]
      BY <3>1
    <3>3. {config[h].host_pubkey} \in SUBSET Key
      BY ConfigAssumption DEF Planned, PlanSet, Plan, Key, Inv, TypeOK
    <3>4. ASSUME NEW plain \in Plain,
                 NewCiphers(plain, {config[h].host_pubkey}) # {},
                 files' = [files EXCEPT
                             ![x] = Encrypt(plain, {config[h].host_pubkey})]
          PROVE  files' \in [Path -> File]
      BY <1>2, <2>1, <3>3, <3>4, EncryptType
    <3>5. ASSUME NEW old \in OlderVersions(HostKey) \cup {Absent, Junk},
                 files' = [files EXCEPT ![x] = old]
          PROVE  files' \in [Path -> File]
      BY <1>2, <2>1, <3>5 DEF OlderVersions
    <3> QED
      BY <3>2, <3>4, <3>5
  <2>4. CASE files' = files
    BY <1>2, <2>4
  <2> QED
    BY <2>2, <2>3, <2>4 DEF Environment, Reconfigure, LoseManifest
<1>4. /\ manifest' \in Manifest /\ Certified(manifest') /\ Sealed(manifest')
  BY <1>1, EmptyManifestType, EmptyManifestIsTrue DEF Inv, TypeOK, Truthful
<1> QED
  BY <1>1, <1>3, <1>4, FaultIsBounded DEF Inv, TypeOK, Truthful

-----------------------------------------------------------------------------
(* The sweep, and the end of a loop *)

(* A step of p that changes neither the manifest nor the configuration.    *)
LEMMA LocalStepKeepsInv ==
  ASSUME Inv, NEW p \in Proc, NEW state, Sound(state), Goto(p, state),
         files' \in [Path -> File], manifest' = manifest, config' = config,
         events' \in 0 .. MaxEvents
  PROVE  Inv'
  BY StepKeepsInv DEF Inv, TypeOK, Truthful

(* ... and that fails, or writes no file either.                           *)
LEMMA UnchangedStoreTypes ==
  ASSUME Inv
  PROVE  /\ files \in [Path -> File] /\ events \in 0 .. MaxEvents
         /\ \A x \in Path : [files EXCEPT ![x] = Absent] \in [Path -> File]
  BY DEF Inv, TypeOK, File

(* The sweep, one directory read at a time,                                *)
LEMMA ListOrphansKeepsInv ==
  ASSUME Inv, NEW p \in Proc, ListOrphans(p)
  PROVE  Inv'
<1> DEFINE r == run[p]
<1>1. Sound(r) /\ r.plans \in PlanSet
  BY RunIsSound
<1>2. PICK h \in r.unswept :
        Goto(p, [r EXCEPT
          !.unswept = @ \ {h},
          !.victims = {x \in r.plans[h].local_storage_dir \ Owned(r.plans, h) :
                         files[x] # Absent}])
  BY DEF ListOrphans, Orphans
<1> DEFINE found == {x \in r.plans[h].local_storage_dir \ Owned(r.plans, h) :
                       files[x] # Absent}
           state == [r EXCEPT !.unswept = @ \ {h}, !.victims = found]
<1>3. h \in Planned(r.plans)
  BY <1>1 DEF Sound, KeepsToPlans
<1>4. r.plans[h] \in Plan
  BY <1>1, <1>3 DEF Planned, PlanSet
<1>5. found \in SUBSET Path /\ found \cap Outputs(r.plans) = {}
  <2>1. found \subseteq r.plans[h].local_storage_dir \ Owned(r.plans, h)
    OBVIOUS
  <2>2. r.plans[h].local_storage_dir \in SUBSET Path
    BY <1>4 DEF Plan
  <2>3. (r.plans[h].local_storage_dir \ Owned(r.plans, h))
          \cap Outputs(r.plans) = {}
    BY <1>1, <1>3, OrphansAreNotOutputs DEF Sound, KeepsToPlans
  <2> QED
    BY <2>1, <2>2, <2>3
<1>6. /\ state \in RunState
      /\ state.plans = r.plans /\ state.pc = r.pc /\ state.cmd = r.cmd
      /\ state.work = r.work /\ state.stale = r.stale
      /\ state.doomed = r.doomed /\ state.unread = r.unread
      /\ state.prepared = r.prepared /\ state.unswept = r.unswept \ {h}
      /\ state.victims = found /\ state.loaded = r.loaded
      /\ state.draft = r.draft /\ state.bytes = r.bytes
      /\ state.secret = r.secret /\ state.staged = r.staged
  <2> HIDE DEF found
  <2> QED
    BY <1>1, <1>5 DEF Sound, RunState
<1> HIDE DEF state, found
<1>7. KeepsToPlans(state)
  BY <1>1, <1>5, <1>6 DEF Sound, KeepsToPlans
<1>8. WorksSoundly(state)
  BY <1>1, <1>6 DEF Sound, WorksSoundly
<1>9. Goto(p, state) /\ files' = files /\ manifest' = manifest
      /\ config' = config /\ events' = events
  BY <1>2 DEF ListOrphans, storeVars, state, found
<1> QED
  BY <1>6, <1>7, <1>8, <1>9, LocalStepKeepsInv, UnchangedStoreTypes DEF Sound

(* and one file removed at a time.                                         *)
LEMMA RemoveOrphanKeepsInv ==
  ASSUME Inv, NEW p \in Proc, RemoveOrphan(p)
  PROVE  Inv'
<1> DEFINE r == run[p]
<1>1. Sound(r)
  BY RunIsSound
<1>2. PICK x \in r.victims :
        /\ files' = [files EXCEPT ![x] = Absent]
        /\ Goto(p, [r EXCEPT !.victims = @ \ {x}])
  BY DEF RemoveOrphan
<1> DEFINE state == [r EXCEPT !.victims = @ \ {x}]
<1>3. x \in Path
  BY <1>1 DEF Sound, RunState
<1>4. state \in RunState
  BY <1>1 DEF Sound, RunState
<1>5. KeepsToPlans(state)
  BY <1>1 DEF Sound, RunState, KeepsToPlans
<1>6. WorksSoundly(state)
  BY <1>1 DEF Sound, RunState, WorksSoundly
<1>7. manifest' = manifest /\ config' = config /\ events' = events
  BY DEF RemoveOrphan
<1> QED
  BY <1>2, <1>3, <1>4, <1>5, <1>6, <1>7, LocalStepKeepsInv, UnchangedStoreTypes
     DEF Sound

(* A step that only moves on to the next phase, with no source in hand.    *)
LEMMA NextPhaseKeepsInv ==
  ASSUME Inv, NEW p \in Proc,
         EndSweep(p) \/ EndClassify(p) \/ EndPrepare(p) \/ EndReseal(p)
  PROVE  Inv'
<1> DEFINE r == run[p]
<1>1. Sound(r)
  BY RunIsSound
<1>2. UNCHANGED <<files, manifest, config>> /\ events' \in 0 .. MaxEvents
  BY FaultIsBounded, UnchangedStoreTypes
     DEF EndSweep, EndClassify, EndPrepare, EndReseal, OpenSession, storeVars
<1>3. PICK pc \in {"commit", "decrypt", "reseal"}, keys \in SUBSET PluginKey :
        /\ Goto(p, [r EXCEPT !.pc = pc, !.session = keys])
        /\ pc = "decrypt" => r.pc = "classify" /\ r.work = {}
        /\ pc = "reseal" => r.pc = "prepare"
  <2>1. CASE EndSweep(p) \/ EndReseal(p)
    <3>1. Goto(p, [r EXCEPT !.pc = "commit"])
      BY <2>1 DEF EndSweep, EndReseal
    <3>2. [r EXCEPT !.pc = "commit"]
            = [r EXCEPT !.pc = "commit", !.session = r.session]
      BY <1>1 DEF Sound, RunState
    <3>3. r.session \in SUBSET PluginKey
      BY <1>1 DEF Sound, RunState
    <3> QED
      BY <3>1, <3>2, <3>3
  <2>2. CASE EndClassify(p)
    BY <2>2 DEF EndClassify, Reading
  <2>3. CASE EndPrepare(p)
    BY <2>3 DEF EndPrepare
  <2> QED
    BY <2>1, <2>2, <2>3
<1> DEFINE state == [r EXCEPT !.pc = pc, !.session = keys]
<1>4. state \in RunState
  BY <1>1 DEF Sound, RunState
<1>5. KeepsToPlans(state)
  BY <1>1, <1>3 DEF Sound, RunState, KeepsToPlans
<1>6. WorksSoundly(state)
  BY <1>1, <1>3 DEF Sound, RunState, WorksSoundly
<1> QED
  BY <1>2, <1>3, <1>4, <1>5, <1>6, LocalStepKeepsInv, UnchangedStoreTypes
     DEF Sound

-----------------------------------------------------------------------------
(* Loading *)

(* Empty sections of the plans' keys are true, and are what rekey fills in.*)
LEMMA NewSectionsAreTrue ==
  ASSUME NEW m \in Manifest, NEW plans \in PlanSet, Certified(m), Sealed(m)
  PROVE  /\ Certified(WithNewSections(m, plans))
         /\ Sealed(WithNewSections(m, plans))
         /\ HasHeaders(WithNewSections(m, plans), plans)
<1> DEFINE w == WithNewSections(m, plans)
<1>1. /\ w.sources = m.sources
      /\ \A h \in Host : w.hosts[h] = IF plans[h] # None
                                      THEN NewSection(plans[h]) ELSE m.hosts[h]
  BY DEF WithNewSections, Manifest
<1>2. Sealed(w)
  BY <1>1 DEF Sealed
<1>3. ASSUME NEW h \in Host, plans[h] # None
      PROVE  /\ NewSection(plans[h]) # None
             /\ \A n \in Name : NewSection(plans[h]).secrets[n] = None
  <2>1. NewSection(plans[h]) \in HostSection
    BY <1>3, NewSectionType DEF PlanSet
  <2> QED
    BY <2>1, SentinelAssumption DEF NewSection, NoSecrets
<1> HIDE DEF w
<1>4. ASSUME NEW t \in Target, w.hosts[t[1]] # None, Entry(w, t) # None
      PROVE  w.hosts[t[1]] = m.hosts[t[1]] /\ Entry(w, t) = Entry(m, t)
  <2>1. t[1] \in Host /\ t[2] \in Name
    BY DEF Target
  <2>2. plans[t[1]] = None
    BY <1>1, <1>3, <1>4, <2>1 DEF Entry
  <2> QED
    BY <1>1, <2>1, <2>2 DEF Entry
<1>5. Certified(w)
  BY <1>4 DEF Certified
<1>6. ASSUME NEW h \in Planned(plans)
      PROVE  /\ w.hosts[h] # None
             /\ w.hosts[h].host_pubkey_sha256 = Sha(plans[h].host_pubkey)
             /\ w.hosts[h].master_set_sha256 = Sha(plans[h].master_identities)
  <2>1. h \in Host /\ plans[h] # None
    BY DEF Planned
  <2>2. w.hosts[h] = NewSection(plans[h]) /\ NewSection(plans[h]) # None
    BY <1>1, <1>3, <2>1
  <2>3. /\ NewSection(plans[h]).host_pubkey_sha256 = Sha(plans[h].host_pubkey)
        /\ NewSection(plans[h]).master_set_sha256
             = Sha(plans[h].master_identities)
    BY DEF NewSection
  <2> QED
    BY <2>2, <2>3
<1>7. HasHeaders(w, plans)
  BY <1>6 DEF HasHeaders
<1> QED
  BY <1>2, <1>5, <1>7 DEF w

(* Pruning leaves only entries and seals that were there.                  *)
LEMMA PrunedIsTrue ==
  ASSUME NEW m \in Manifest, NEW plans \in PlanSet, Certified(m), Sealed(m)
  PROVE  Certified(Pruned(m, plans)) /\ Sealed(Pruned(m, plans))
<1> DEFINE w == Pruned(m, plans)
<1>1. Sealed(w)
  BY DEF Sealed, Pruned
<1>2. ASSUME NEW t \in Target, w.hosts[t[1]] # None, Entry(w, t) # None
      PROVE  /\ m.hosts[t[1]] # None /\ Entry(m, t) = Entry(w, t)
             /\ w.hosts[t[1]].host_pubkey_sha256 = m.hosts[t[1]].host_pubkey_sha256
             /\ w.hosts[t[1]].master_set_sha256 = m.hosts[t[1]].master_set_sha256
  <2>1. t[1] \in Host /\ t[2] \in Name
    BY DEF Target
  <2>2. CASE plans[t[1]] # None /\ m.hosts[t[1]] # None
    <3> DEFINE old  == m.hosts[t[1]]
               kept == [n \in Name |-> IF n \in Live(plans, t[1])
                                       THEN old.secrets[n] ELSE None]
    <3>1. old \in HostSection
      BY <2>1, <2>2 DEF Manifest
    <3>2. w.hosts[t[1]] = [old EXCEPT !.secrets = kept]
      BY <2>1, <2>2, Zenon DEF Pruned
    <3>3. kept[t[2]] = IF t[2] \in Live(plans, t[1])
                       THEN old.secrets[t[2]] ELSE None
      BY <2>1
    <3> HIDE DEF kept
    <3>4. /\ w.hosts[t[1]].secrets = kept
          /\ w.hosts[t[1]].host_pubkey_sha256 = old.host_pubkey_sha256
          /\ w.hosts[t[1]].master_set_sha256 = old.master_set_sha256
      BY <3>1, <3>2 DEF HostSection
    <3> QED
      BY <1>2, <2>2, <3>3, <3>4 DEF Entry
  <2>3. CASE ~(plans[t[1]] # None /\ m.hosts[t[1]] # None)
    BY <1>2, <2>1, <2>3 DEF Pruned, Entry
  <2> QED
    BY <2>2, <2>3
<1>3. Certified(w)
  BY <1>2 DEF Certified
<1> QED
  BY <1>1, <1>3

(* Loading the manifest: each command starts from a true one and keeps it  *)
(* true.                                                                   *)
LEMMA LoadKeepsInv ==
  ASSUME Inv, NEW p \in Proc, LoadRekey(p) \/ LoadReseal(p) \/ LoadGc(p)
  PROVE  Inv'
<1> DEFINE r == run[p]
<1>1. Sound(r) /\ r.plans \in PlanSet
  BY RunIsSound
<1>2. manifest \in Manifest /\ Certified(manifest) /\ Sealed(manifest)
  BY DEF Inv, TypeOK, Truthful
<1>3. Sources(r.plans) \in SUBSET Path /\ Planned(r.plans) \in SUBSET Host
  BY <1>1, PlanTypes
<1>4. UNCHANGED storeVars /\ r.pc = "load"
  BY DEF LoadRekey, LoadReseal, LoadGc
<1>5. CASE LoadRekey(p)
  <2> DEFINE new   == WithNewSections(manifest, r.plans)
             state == [r EXCEPT !.pc = "classify", !.loaded = manifest,
                                !.draft = new, !.unread = Sources(r.plans)]
  <2>1. /\ new \in Manifest /\ Certified(new) /\ Sealed(new)
        /\ HasHeaders(new, r.plans)
    BY <1>1, <1>2, WithNewSectionsType, NewSectionsAreTrue
  <2>2. Goto(p, state) /\ r.cmd = "rekey"
    BY <1>5 DEF LoadRekey
  <2> HIDE DEF new
  <2>3. state \in RunState
    BY <1>1, <1>2, <1>3, <2>1 DEF Sound, RunState
  <2>4. KeepsToPlans(state)
    BY <1>1, <1>4, <2>2 DEF Sound, RunState, KeepsToPlans
  <2>5. WorksSoundly(state)
    BY <1>1, <1>2, <2>1 DEF Sound, RunState, WorksSoundly
  <2> QED
    BY <1>4, <2>2, <2>3, <2>4, <2>5, LocalStepKeepsInv, UnchangedStoreTypes
       DEF Sound, storeVars
<1>6. CASE LoadReseal(p)
  <2> DEFINE state == [r EXCEPT !.pc = "prepare", !.loaded = manifest,
                                !.draft = manifest, !.unread = Sources(r.plans)]
  <2>1. Goto(p, state) /\ r.cmd # "gc"
    BY <1>6 DEF LoadReseal
  <2>2. state \in RunState
    BY <1>1, <1>2, <1>3 DEF Sound, RunState
  <2>3. KeepsToPlans(state)
    BY <1>1, <1>4, <2>1 DEF Sound, RunState, KeepsToPlans
  <2>4. WorksSoundly(state)
    BY <1>1, <1>2 DEF Sound, RunState, WorksSoundly
  <2> QED
    BY <1>4, <2>1, <2>2, <2>3, <2>4, LocalStepKeepsInv, UnchangedStoreTypes
       DEF Sound, storeVars
<1>7. CASE LoadGc(p)
  <2> DEFINE kept  == Pruned(manifest, r.plans)
             state == [r EXCEPT !.pc = "sweep", !.loaded = manifest,
                                !.draft = kept, !.unswept = Planned(r.plans)]
  <2>1. kept \in Manifest /\ Certified(kept) /\ Sealed(kept)
    BY <1>1, <1>2, PrunedType, PrunedIsTrue
  <2>2. Goto(p, state)
    BY <1>7 DEF LoadGc
  <2> HIDE DEF kept
  <2>3. state \in RunState
    BY <1>1, <1>2, <1>3, <2>1 DEF Sound, RunState
  <2>4. KeepsToPlans(state)
    BY <1>1 DEF Sound, RunState, KeepsToPlans
  <2>5. WorksSoundly(state)
    BY <1>1, <1>2, <2>1 DEF Sound, RunState, WorksSoundly
  <2> QED
    BY <1>4, <2>2, <2>3, <2>4, <2>5, LocalStepKeepsInv, UnchangedStoreTypes
       DEF Sound, storeVars
<1> QED
  BY <1>5, <1>6, <1>7

-----------------------------------------------------------------------------
(* rekey, phase 1 *)

(* Phase 1 of rekey: a source is read,                                     *)
LEMMA ReadSourceKeepsInv ==
  ASSUME Inv, NEW p \in Proc, ReadSource(p)
  PROVE  Inv'
<1> DEFINE r == run[p]
<1>1. Sound(r) /\ r.plans \in PlanSet
  BY RunIsSound
<1>2. PICK s \in r.unread :
        /\ files[s] # Absent
        /\ Goto(p, [r EXCEPT !.unread   = @ \ {s},
                             !.bytes[s] = files[s],
                             !.work     = Consumers(r.plans, s)])
  BY DEF ReadSource
<1> DEFINE work  == Consumers(r.plans, s)
           state == [r EXCEPT !.unread = @ \ {s}, !.bytes[s] = files[s],
                              !.work = work]
<1>3. r.pc = "classify" /\ UNCHANGED storeVars
  BY DEF ReadSource, Reading
<1>4. work \subseteq Targets(r.plans) /\ work \subseteq Target
  BY <1>1, PlanTypes
<1>5. s \in Path /\ files[s] \in File
  BY <1>1 DEF Sound, RunState, Inv, TypeOK
<1> HIDE DEF work
<1>6. state \in RunState
  BY <1>1, <1>4, <1>5 DEF Sound, RunState
<1>7. KeepsToPlans(state)
  BY <1>1, <1>4 DEF Sound, RunState, KeepsToPlans
<1>8. WorksSoundly(state)
  BY <1>1, <1>3 DEF Sound, RunState, WorksSoundly
<1>9. Goto(p, state)
  BY <1>2 DEF work
<1> QED
  BY <1>3, <1>6, <1>7, <1>8, <1>9, LocalStepKeepsInv, UnchangedStoreTypes
     DEF Sound, storeVars

(* or cannot be, and its consumers fail;                                   *)
LEMMA UnreadableSourceKeepsInv ==
  ASSUME Inv, NEW p \in Proc, UnreadableSource(p)
  PROVE  Inv'
<1> DEFINE r == run[p]
<1>1. Sound(r) /\ r.plans \in PlanSet
  BY RunIsSound
<1>2. PICK s \in r.unread :
        Goto(p, [r EXCEPT !.unread = @ \ {s},
                          !.doomed = Consumers(r.plans, s),
                          !.failed = @ \cup Consumers(r.plans, s)])
  BY DEF UnreadableSource
<1> DEFINE lost  == Consumers(r.plans, s)
           state == [r EXCEPT !.unread = @ \ {s}, !.doomed = lost,
                              !.failed = @ \cup lost]
<1>3. /\ UNCHANGED <<files, manifest, config>>
      /\ events' \in 0 .. MaxEvents
  BY FaultIsBounded, UnchangedStoreTypes DEF UnreadableSource
<1>4. lost \subseteq Targets(r.plans) /\ lost \subseteq Target
  BY <1>1, PlanTypes
<1> HIDE DEF lost
<1>5. state \in RunState
  BY <1>1, <1>4 DEF Sound, RunState
<1>6. KeepsToPlans(state)
  BY <1>1, <1>4 DEF Sound, RunState, KeepsToPlans
<1>7. WorksSoundly(state)
  BY <1>1 DEF Sound, RunState, WorksSoundly
<1>8. Goto(p, state)
  BY <1>2 DEF lost
<1> QED
  BY <1>3, <1>5, <1>6, <1>7, <1>8, LocalStepKeepsInv, UnchangedStoreTypes
     DEF Sound

(* The heart of the skip: with true entries, what matches is carried.      *)
LEMMA MatchIsCarried ==
  ASSUME NEW m \in Manifest, Certified(m), NEW plans \in PlanSet,
         NEW t \in Targets(plans), NEW source, NEW output,
         MatchesPrev(m, plans, t, source, output)
  PROVE  Carries(output, source, plans[t[1]].master_identities,
                 plans[t[1]].host_pubkey)
<1>1. t \in Target
  BY PlanTypes
<1>2. /\ m.hosts[t[1]] # None /\ Entry(m, t) # None
      /\ m.hosts[t[1]].host_pubkey_sha256 = Sha(plans[t[1]].host_pubkey)
      /\ m.hosts[t[1]].master_set_sha256 = Sha(plans[t[1]].master_identities)
      /\ Entry(m, t).source_sha256 = Sha(source)
      /\ Entry(m, t).output_sha256 = Sha(output)
  BY DEF MatchesPrev, MatchesHeader
<1>3. Carries(Entry(m, t).output_sha256.sha256,
              Entry(m, t).source_sha256.sha256,
              m.hosts[t[1]].master_set_sha256.sha256,
              m.hosts[t[1]].host_pubkey_sha256.sha256)
  BY <1>1, <1>2 DEF Certified
<1>4. \A x : Sha(x).sha256 = x
  BY DEF Sha
<1> QED
  BY <1>2, <1>3, <1>4

(* each consumer is kept with the entry it had, or is stale.               *)
LEMMA ClassifyTargetKeepsInv ==
  ASSUME Inv, NEW p \in Proc, ClassifyTarget(p)
  PROVE  Inv'
<1> DEFINE r == run[p]
<1>1. Sound(r) /\ r.plans \in PlanSet
  BY RunIsSound
<1>2. r.pc = "classify" /\ UNCHANGED storeVars
  BY DEF ClassifyTarget
<1>3. PICK t \in r.work :
        IF MatchesPrev(r.loaded, r.plans, t, r.bytes[Source(r.plans, t)],
                       files[Output(r.plans, t)])
        THEN Goto(p, [r EXCEPT !.work  = @ \ {t},
                               !.draft = WithEntry(@, t, Entry(r.loaded, t))])
        ELSE Goto(p, [r EXCEPT !.work  = @ \ {t},
                               !.stale = @ \cup {t}])
  BY DEF ClassifyTarget
<1> DEFINE source == r.bytes[Source(r.plans, t)]
           output == files[Output(r.plans, t)]
<1>4. /\ t \in Targets(r.plans) /\ t \in Target
      /\ t[1] \in Planned(r.plans)
  BY <1>1, PlanTypes DEF Sound, KeepsToPlans, Targets, Planned, Target
<1>5. CASE MatchesPrev(r.loaded, r.plans, t, source, output)
  <2> DEFINE fp    == Entry(r.loaded, t)
             new   == WithEntry(r.draft, t, fp)
             state == [r EXCEPT !.work = @ \ {t}, !.draft = new]
  <2>1. /\ r.loaded \in Manifest /\ Certified(r.loaded)
        /\ r.draft \in Manifest /\ Certified(r.draft) /\ Sealed(r.draft)
        /\ HasHeaders(r.draft, r.plans)
    BY <1>1, <1>2 DEF Sound, RunState, WorksSoundly
  <2>2. fp \in SecretFingerprint
    <3>1. r.loaded.hosts[t[1]] # None /\ fp # None
      BY <1>5 DEF MatchesPrev, MatchesHeader
    <3>2. t[1] \in Host /\ t[2] \in Name
      BY <1>4 DEF Target
    <3> QED
      BY <2>1, <3>1, <3>2 DEF Manifest, HostSection, Entry
  <2>3. /\ r.draft.hosts[t[1]] # None
        /\ r.draft.hosts[t[1]].host_pubkey_sha256
             = r.loaded.hosts[t[1]].host_pubkey_sha256
        /\ r.draft.hosts[t[1]].master_set_sha256
             = r.loaded.hosts[t[1]].master_set_sha256
        /\ r.loaded.hosts[t[1]] # None /\ fp # None
    BY <1>4, <1>5, <2>1 DEF HasHeaders, MatchesPrev, MatchesHeader
  <2>4. Carries(fp.output_sha256.sha256, fp.source_sha256.sha256,
                r.draft.hosts[t[1]].master_set_sha256.sha256,
                r.draft.hosts[t[1]].host_pubkey_sha256.sha256)
    BY <1>4, <2>1, <2>3 DEF Certified
  <2> HIDE DEF fp
  <2>5. /\ new \in Manifest /\ Certified(new) /\ Sealed(new)
        /\ HasHeaders(new, r.plans)
    BY <1>1, <1>4, <2>1, <2>2, <2>3, <2>4,
       WithEntryType, WithEntryIsTrue, WithEntryHasHeaders
  <2>6. Goto(p, state)
    BY <1>3, <1>5 DEF fp
  <2> HIDE DEF new
  <2>7. state \in RunState
    BY <1>1, <2>5 DEF Sound, RunState
  <2>8. KeepsToPlans(state)
    BY <1>1 DEF Sound, RunState, KeepsToPlans
  <2>9. WorksSoundly(state)
    BY <1>1, <1>2, <2>5 DEF Sound, RunState, WorksSoundly
  <2> QED
    BY <1>2, <2>6, <2>7, <2>8, <2>9, LocalStepKeepsInv, UnchangedStoreTypes
       DEF Sound, storeVars
<1>6. CASE ~MatchesPrev(r.loaded, r.plans, t, source, output)
  <2> DEFINE state == [r EXCEPT !.work = @ \ {t}, !.stale = @ \cup {t}]
  <2>1. Goto(p, state)
    BY <1>3, <1>6
  <2>2. state \in RunState
    BY <1>1, <1>4 DEF Sound, RunState
  <2>3. KeepsToPlans(state)
    BY <1>1, <1>4 DEF Sound, RunState, KeepsToPlans
  <2>4. WorksSoundly(state)
    BY <1>1, <1>2 DEF Sound, RunState, WorksSoundly
  <2> QED
    BY <1>2, <2>1, <2>2, <2>3, <2>4, LocalStepKeepsInv, UnchangedStoreTypes
       DEF Sound, storeVars
<1> QED
  BY <1>5, <1>6

-----------------------------------------------------------------------------
(* rekey, phases 2 and 3 *)

(* Who opens a source is a master of its consumers or a token, whoever     *)
(* brought the token into the session.                                     *)
LEMMA OpenersAreMastersOrTokens ==
  ASSUME NEW r \in RunState, NEW s, Decrypts(r.bytes[s], Openers(r, s))
  PROVE  Decrypts(r.bytes[s], MastersOf(r.plans, s) \cup PluginKey)
<1>1. r.session \subseteq PluginKey
  BY DEF RunState
<1> QED
  BY <1>1 DEF Openers, Decrypts

(* Phase 3: what is fanned out was decrypted with the plans' masters.      *)
LEMMA DecryptKeepsInv ==
  ASSUME Inv, NEW p \in Proc, DecryptSource(p) \/ DecryptFails(p)
  PROVE  Inv'
<1> DEFINE r == run[p]
<1>1. Sound(r) /\ r.plans \in PlanSet
  BY RunIsSound
<1>2. /\ UNCHANGED <<files, manifest, config>>
      /\ events' \in 0 .. MaxEvents /\ r.pc = "decrypt"
  BY FaultIsBounded, UnchangedStoreTypes
     DEF DecryptSource, DecryptFails, Decrypting, storeVars
<1>3. CASE DecryptSource(p)
  <2>1. PICK s \in Pending(r) :
          /\ Decrypts(r.bytes[s], MastersOf(r.plans, s) \cup PluginKey)
          /\ Goto(p, [r EXCEPT !.work  = StaleOf(r, s),
                               !.stale = @ \ StaleOf(r, s)])
    BY <1>1, <1>3, OpenersAreMastersOrTokens DEF DecryptSource, Sound
  <2> DEFINE work  == StaleOf(r, s)
             state == [r EXCEPT !.work = work, !.stale = @ \ work]
  <2>2. /\ work \subseteq r.stale
        /\ \A t \in work : Source(r.plans, t) = s
    BY DEF StaleOf
  <2>3. Goto(p, state)
    BY <2>1
  <2> HIDE DEF work
  <2>4. state \in RunState
    BY <1>1, <2>2 DEF Sound, RunState
  <2>5. KeepsToPlans(state)
    BY <1>1, <2>2 DEF Sound, RunState, KeepsToPlans
  <2>6. WorksSoundly(state)
    BY <1>1, <2>1, <2>2 DEF Sound, RunState, WorksSoundly
  <2> QED
    BY <1>2, <2>3, <2>4, <2>5, <2>6, LocalStepKeepsInv, UnchangedStoreTypes
       DEF Sound
<1>4. CASE DecryptFails(p)
  <2>1. PICK s \in Pending(r) :
          Goto(p, [r EXCEPT !.stale  = @ \ StaleOf(r, s),
                            !.doomed = StaleOf(r, s),
                            !.failed = @ \cup StaleOf(r, s)])
    BY <1>4 DEF DecryptFails
  <2> DEFINE lost  == StaleOf(r, s)
             state == [r EXCEPT !.stale = @ \ lost, !.doomed = lost,
                                !.failed = @ \cup lost]
  <2>2. lost \subseteq r.stale
    BY DEF StaleOf
  <2>3. Goto(p, state)
    BY <2>1
  <2> HIDE DEF lost
  <2>4. state \in RunState
    BY <1>1, <2>2 DEF Sound, RunState
  <2>5. KeepsToPlans(state)
    BY <1>1, <2>2 DEF Sound, RunState, KeepsToPlans
  <2>6. WorksSoundly(state)
    BY <1>1 DEF Sound, RunState, WorksSoundly
  <2> QED
    BY <1>2, <2>3, <2>4, <2>5, <2>6, LocalStepKeepsInv, UnchangedStoreTypes
       DEF Sound
<1> QED
  BY <1>3, <1>4

(* What fan_out_to_target has in hand: a source that its target's masters  *)
(* or a token open, and a host key to encrypt it to.                       *)
LEMMA WorkIsDecrypted ==
  ASSUME NEW r, Sound(r), r.plans \in PlanSet, r.pc = "decrypt",
         NEW t \in r.work
  PROVE  /\ t \in Targets(r.plans) /\ t \in Target
         /\ r.bytes[Source(r.plans, t)] \in Cipher
         /\ Decrypts(r.bytes[Source(r.plans, t)],
                     r.plans[t[1]].master_identities \cup PluginKey)
         /\ r.bytes[Source(r.plans, t)].plain \in Plain
         /\ {r.plans[t[1]].host_pubkey} \in SUBSET Key
         /\ Output(r.plans, t) \in Path
<1>1. t \in Targets(r.plans) /\ Consistent(r.plans)
  BY DEF Sound, KeepsToPlans
<1>2. Decrypts(r.bytes[Source(r.plans, t)],
               MastersOf(r.plans, Source(r.plans, t)) \cup PluginKey)
  BY DEF Sound, WorksSoundly
<1>3. MastersOf(r.plans, Source(r.plans, t)) = r.plans[t[1]].master_identities
  BY <1>1, MastersAreShared
<1>4. r.plans[t[1]].host_pubkey \in HostKey /\ Output(r.plans, t) \in Path
      /\ t \in Target
  BY <1>1, PlanTypes
<1> QED
  BY <1>1, <1>2, <1>3, <1>4 DEF Decrypts, Cipher, Key

(* The new entry is true of the output just written and the source read.   *)
LEMMA FanOutKeepsInv ==
  ASSUME Inv, NEW p \in Proc, FanOut(p)
  PROVE  Inv'
<1> DEFINE r == run[p]
<1>1. Sound(r) /\ r.plans \in PlanSet
  BY RunIsSound
<1>2. r.pc = "decrypt" /\ UNCHANGED <<manifest, config, events>>
  BY DEF FanOut
<1>3. PICK t \in r.work :
        LET source == r.bytes[Source(r.plans, t)]
            path   == Output(r.plans, t)
            host   == {r.plans[t[1]].host_pubkey}
            cipher == Encrypt(source.plain, host) IN
        /\ NewCiphers(source.plain, host) # {}
        /\ files' = [files EXCEPT ![path] = cipher]
        /\ Goto(p, [r EXCEPT
             !.work  = @ \ {t},
             !.draft = WithEntry(@, t, Fingerprint(source, path, cipher))])
  BY DEF FanOut
<1> DEFINE source == r.bytes[Source(r.plans, t)]
           path   == Output(r.plans, t)
           host   == {r.plans[t[1]].host_pubkey}
           cipher == Encrypt(source.plain, host)
           fp     == Fingerprint(source, path, cipher)
           new    == WithEntry(r.draft, t, fp)
           state  == [r EXCEPT !.work = @ \ {t}, !.draft = new]
<1>4. /\ t \in Targets(r.plans) /\ t \in Target /\ path \in Path
      /\ source \in Cipher /\ source.plain \in Plain /\ host \in SUBSET Key
      /\ Decrypts(source, r.plans[t[1]].master_identities \cup PluginKey)
  BY <1>1, <1>2, WorkIsDecrypted
<1>5. cipher \in Cipher /\ cipher.plain = source.plain /\ cipher.to = host
  BY <1>3, <1>4, EncryptType
<1>6. Carries(cipher, source, r.plans[t[1]].master_identities,
              r.plans[t[1]].host_pubkey)
  BY <1>4, <1>5 DEF Carries
<1>7. /\ r.draft \in Manifest /\ Certified(r.draft) /\ Sealed(r.draft)
      /\ HasHeaders(r.draft, r.plans)
  BY <1>1, <1>2 DEF Sound, RunState, WorksSoundly
<1>8. /\ r.draft.hosts[t[1]] # None
      /\ r.draft.hosts[t[1]].host_pubkey_sha256.sha256
           = r.plans[t[1]].host_pubkey
      /\ r.draft.hosts[t[1]].master_set_sha256.sha256
           = r.plans[t[1]].master_identities
  <2>1. t[1] \in Planned(r.plans)
    BY <1>4 DEF Targets, Planned, Target
  <2>2. /\ r.draft.hosts[t[1]] # None
        /\ r.draft.hosts[t[1]].host_pubkey_sha256
             = Sha(r.plans[t[1]].host_pubkey)
        /\ r.draft.hosts[t[1]].master_set_sha256
             = Sha(r.plans[t[1]].master_identities)
    BY <1>7, <2>1 DEF HasHeaders
  <2>3. \A x : Sha(x).sha256 = x
    BY DEF Sha
  <2> QED
    BY <2>2, <2>3
<1>9. source \in Content /\ cipher \in Content
  BY <1>4, <1>5 DEF Content
<1>10. fp \in SecretFingerprint
  BY <1>4, <1>9, FingerprintType
<1>11. fp.output_sha256.sha256 = cipher /\ fp.source_sha256.sha256 = source
  BY DEF Fingerprint, Sha
<1>12. Goto(p, state) /\ files' = [files EXCEPT ![path] = cipher]
  BY <1>3
<1>13. files' \in [Path -> File]
  BY <1>9, <1>12 DEF Inv, TypeOK, File
<1> HIDE DEF fp, source, cipher, path, host
<1>14. /\ new \in Manifest /\ Certified(new) /\ Sealed(new)
       /\ HasHeaders(new, r.plans)
  BY <1>1, <1>4, <1>6, <1>7, <1>8, <1>10, <1>11,
     WithEntryType, WithEntryIsTrue, WithEntryHasHeaders
<1> HIDE DEF new
<1>15. state \in RunState
  BY <1>1, <1>14 DEF Sound, RunState
<1>16. KeepsToPlans(state)
  BY <1>1 DEF Sound, RunState, KeepsToPlans
<1>17. WorksSoundly(state)
  BY <1>1, <1>2, <1>14 DEF Sound, RunState, WorksSoundly
<1> QED
  BY <1>2, <1>12, <1>13, <1>15, <1>16, <1>17, LocalStepKeepsInv,
     UnchangedStoreTypes DEF Sound

(* A failed output gets no entry.                                          *)
LEMMA FanOutFailsKeepsInv ==
  ASSUME Inv, NEW p \in Proc, FanOutFails(p)
  PROVE  Inv'
<1> DEFINE r == run[p]
<1>1. Sound(r) /\ r.plans \in PlanSet
  BY RunIsSound
<1>2. /\ r.pc = "decrypt" /\ UNCHANGED <<manifest, config>>
      /\ events' \in 0 .. MaxEvents
  BY FaultIsBounded DEF FanOutFails
<1>3. PICK t \in r.work :
        LET plain == r.bytes[Source(r.plans, t)].plain
            path  == Output(r.plans, t)
            host  == {r.plans[t[1]].host_pubkey} IN
        /\ \/ files' = files
           \/ /\ NewCiphers(plain, host) # {}
              /\ files' = [files EXCEPT ![path] = Encrypt(plain, host)]
        /\ Goto(p, [r EXCEPT !.work   = @ \ {t},
                             !.doomed = {t},
                             !.failed = @ \cup {t}])
  BY DEF FanOutFails
<1> DEFINE plain == r.bytes[Source(r.plans, t)].plain
           host  == {r.plans[t[1]].host_pubkey}
           state == [r EXCEPT !.work = @ \ {t}, !.doomed = {t},
                              !.failed = @ \cup {t}]
<1>4. /\ t \in Targets(r.plans) /\ t \in Target
      /\ plain \in Plain /\ host \in SUBSET Key
  BY <1>1, <1>2, WorkIsDecrypted
<1>5. files' \in [Path -> File]
  <2>1. NewCiphers(plain, host) # {} => Encrypt(plain, host) \in File
    BY <1>4, EncryptType DEF File, Content
  <2> QED
    BY <1>3, <2>1 DEF Inv, TypeOK
<1>6. state \in RunState
  BY <1>1, <1>4 DEF Sound, RunState
<1>7. KeepsToPlans(state)
  BY <1>1, <1>4 DEF Sound, RunState, KeepsToPlans
<1>8. WorksSoundly(state)
  BY <1>1, <1>2 DEF Sound, RunState, WorksSoundly
<1> QED
  BY <1>2, <1>3, <1>5, <1>6, <1>7, <1>8, LocalStepKeepsInv DEF Sound

(* Purging changes no manifest.                                            *)
LEMMA PurgeKeepsInv ==
  ASSUME Inv, NEW p \in Proc, PurgeOutput(p) \/ PurgeFails(p)
  PROVE  Inv'
<1> DEFINE r == run[p]
<1>1. Sound(r)
  BY RunIsSound
<1>2. PICK t \in r.doomed : \E left \in {r.left, r.left \cup {t}} :
        Goto(p, [r EXCEPT !.doomed = @ \ {t}, !.left = left])
  <2>1. CASE PurgeOutput(p)
    <3>1. PICK t \in r.doomed : Goto(p, [r EXCEPT !.doomed = @ \ {t}])
      BY <2>1 DEF PurgeOutput
    <3>2. [r EXCEPT !.doomed = @ \ {t}]
            = [r EXCEPT !.doomed = @ \ {t}, !.left = r.left]
      BY <1>1 DEF Sound, RunState
    <3> QED
      BY <3>1, <3>2
  <2>2. CASE PurgeFails(p)
    BY <2>2 DEF PurgeFails
  <2> QED
    BY <2>1, <2>2
<1>3. PICK left \in {r.left, r.left \cup {t}} :
       Goto(p, [r EXCEPT !.doomed = @ \ {t}, !.left = left])
  BY <1>2
<1> DEFINE state == [r EXCEPT !.doomed = @ \ {t}, !.left = left]
<1>4. UNCHANGED <<manifest, config>> /\ events' \in 0 .. MaxEvents
  BY FaultIsBounded, UnchangedStoreTypes DEF PurgeOutput, PurgeFails
<1>5. files' \in [Path -> File]
  BY UnchangedStoreTypes DEF PurgeOutput, PurgeFails, Inv, TypeOK, File
<1>6. state \in RunState
  BY <1>1 DEF Sound, RunState
<1>7. KeepsToPlans(state)
  BY <1>1 DEF Sound, RunState, KeepsToPlans
<1>8. WorksSoundly(state)
  BY <1>1 DEF Sound, RunState, WorksSoundly
<1> QED
  BY <1>3, <1>4, <1>5, <1>6, <1>7, <1>8, LocalStepKeepsInv DEF Sound

(* The end of the fan-out starts the sweep or ends the run.                *)
LEMMA EndFanOutKeepsInv ==
  ASSUME Inv, NEW p \in Proc, EndFanOut(p)
  PROVE  Inv'
<1> DEFINE r     == run[p]
           state == [r EXCEPT !.pc = "sweep", !.unswept = Planned(r.plans)]
<1>1. Sound(r) /\ r.plans \in PlanSet
  BY RunIsSound
<1>2. UNCHANGED storeVars /\ (Goto(p, state) \/ Return(p, "error"))
  BY DEF EndFanOut
<1>3. Planned(r.plans) \in SUBSET Host
  BY <1>1, PlanTypes
<1>4. CASE Goto(p, state)
  <2>1. state \in RunState
    BY <1>1, <1>3 DEF Sound, RunState
  <2>2. KeepsToPlans(state)
    BY <1>1 DEF Sound, RunState, KeepsToPlans
  <2>3. WorksSoundly(state)
    BY <1>1 DEF Sound, RunState, WorksSoundly
  <2> QED
    BY <1>2, <1>4, <2>1, <2>2, <2>3, LocalStepKeepsInv, UnchangedStoreTypes
       DEF Sound, storeVars
<1>5. CASE Return(p, "error")
  BY <1>2, <1>5, ReturnKeepsInv DEF Inv, TypeOK, Truthful, storeVars
<1> QED
  BY <1>2, <1>4, <1>5

-----------------------------------------------------------------------------
(* reseal *)

(* reseal reads its sources or finds that it cannot.                       *)
LEMMA PrepareKeepsInv ==
  ASSUME Inv, NEW p \in Proc, PrepareSource(p) \/ UnpreparedSource(p)
  PROVE  Inv'
<1> DEFINE r == run[p]
<1>1. Sound(r) /\ r.plans \in PlanSet
  BY RunIsSound
<1>2. /\ r.pc = "prepare" /\ UNCHANGED <<files, manifest, config>>
      /\ events' \in 0 .. MaxEvents
  BY FaultIsBounded, UnchangedStoreTypes
     DEF PrepareSource, UnpreparedSource, storeVars
<1>3. CASE PrepareSource(p)
  <2>1. PICK s \in r.unread : \E prepared \in {r.prepared, r.prepared \cup {s}} :
          Goto(p, [r EXCEPT !.unread = @ \ {s}, !.bytes[s] = files[s],
                            !.prepared = prepared])
    BY <1>3 DEF PrepareSource
  <2>2. PICK prepared \in {r.prepared, r.prepared \cup {s}} :
          Goto(p, [r EXCEPT !.unread = @ \ {s}, !.bytes[s] = files[s],
                            !.prepared = prepared])
    BY <2>1
  <2> DEFINE state == [r EXCEPT !.unread = @ \ {s}, !.bytes[s] = files[s],
                                !.prepared = prepared]
  <2>3. s \in Path /\ files[s] \in File
    BY <1>1 DEF Sound, RunState, Inv, TypeOK
  <2>4. state \in RunState
    BY <1>1, <2>3 DEF Sound, RunState
  <2>5. KeepsToPlans(state)
    BY <1>1 DEF Sound, RunState, KeepsToPlans
  <2>6. WorksSoundly(state)
    BY <1>1, <1>2 DEF Sound, RunState, WorksSoundly
  <2> QED
    BY <1>2, <2>2, <2>4, <2>5, <2>6, LocalStepKeepsInv, UnchangedStoreTypes
       DEF Sound
<1>4. CASE UnpreparedSource(p)
  <2>1. PICK s \in r.unread :
          Goto(p, [r EXCEPT !.unread = @ \ {s}, !.unsealed = @ \cup {s}])
    BY <1>4 DEF UnpreparedSource
  <2> DEFINE state == [r EXCEPT !.unread = @ \ {s}, !.unsealed = @ \cup {s}]
  <2>2. state \in RunState
    BY <1>1 DEF Sound, RunState
  <2>3. KeepsToPlans(state)
    BY <1>1 DEF Sound, RunState, KeepsToPlans
  <2>4. WorksSoundly(state)
    BY <1>1 DEF Sound, RunState, WorksSoundly
  <2> QED
    BY <1>2, <2>1, <2>2, <2>3, <2>4, LocalStepKeepsInv, UnchangedStoreTypes
       DEF Sound
<1> QED
  BY <1>3, <1>4

(* What encrypting a decrypted source to its masters makes.                *)
LEMMA ResealedType ==
  ASSUME NEW r, Sound(r), r.plans \in PlanSet, NEW s \in r.prepared,
         Decrypts(r.bytes[s], Openers(r, s)),
         NewCiphers(r.bytes[s].plain, MastersOf(r.plans, s)) # {}
  PROVE  LET c == Encrypt(r.bytes[s].plain, MastersOf(r.plans, s)) IN
         /\ c \in Cipher /\ c \in File
         /\ c.to = MastersOf(r.plans, s)
<1>1. s \in Path
  BY DEF Sound, RunState
<1>2. MastersOf(r.plans, s) \in SUBSET Key
  BY <1>1, PlanTypes DEF Key
<1>3. r.bytes[s].plain \in Plain
  BY DEF Decrypts, Cipher
<1> QED
  BY <1>2, <1>3, EncryptType DEF File, Content

(* The new seal is true of the ciphertext just written.                    *)
LEMMA ResealSourceKeepsInv ==
  ASSUME Inv, NEW p \in Proc, ResealSource(p)
  PROVE  Inv'
<1> DEFINE r == run[p]
<1>1. Sound(r) /\ r.plans \in PlanSet
  BY RunIsSound
<1>2. r.pc = "reseal" /\ UNCHANGED <<manifest, config, events>>
  BY DEF ResealSource
<1>3. PICK s \in r.prepared :
        LET masters == MastersOf(r.plans, s)
            plain   == r.bytes[s].plain
            cipher  == Encrypt(plain, masters) IN
        /\ Decrypts(r.bytes[s], Openers(r, s))
        /\ NewCiphers(plain, masters) # {}
        /\ files' = [files EXCEPT ![s] = cipher]
        /\ Goto(p, [r EXCEPT !.prepared = @ \ {s},
                             !.draft    = WithSeal(@, s, cipher, masters)])
  BY DEF ResealSource
<1> DEFINE cipher == Encrypt(r.bytes[s].plain, MastersOf(r.plans, s))
           new    == WithSeal(r.draft, s, cipher, MastersOf(r.plans, s))
           state  == [r EXCEPT !.prepared = @ \ {s}, !.draft = new]
<1>4. cipher \in Cipher /\ cipher \in File /\ cipher.to = MastersOf(r.plans, s)
  BY <1>1, <1>3, ResealedType
<1>5. s \in Path /\ cipher.to \in SUBSET MasterKey
  BY <1>1, <1>4, PlanTypes DEF Sound, RunState
<1>6. r.draft \in Manifest /\ Certified(r.draft) /\ Sealed(r.draft)
  BY <1>1 DEF Sound, RunState, WorksSoundly
<1>7. Goto(p, state) /\ files' = [files EXCEPT ![s] = cipher]
  BY <1>3
<1> HIDE DEF cipher
<1>8. new \in Manifest /\ Certified(new) /\ Sealed(new)
  BY <1>4, <1>5, <1>6, WithSealType, WithSealIsTrue DEF Content
<1>9. files' \in [Path -> File]
  BY <1>4, <1>7 DEF Inv, TypeOK
<1> HIDE DEF new
<1>10. state \in RunState
  BY <1>1, <1>8 DEF Sound, RunState
<1>11. KeepsToPlans(state)
  BY <1>1 DEF Sound, RunState, KeepsToPlans
<1>12. WorksSoundly(state)
  BY <1>1, <1>2, <1>8 DEF Sound, RunState, WorksSoundly
<1> QED
  BY <1>2, <1>7, <1>9, <1>10, <1>11, <1>12, LocalStepKeepsInv,
     UnchangedStoreTypes DEF Sound

(* A source whose reseal failed gets no seal.                              *)
LEMMA ResealFailsKeepsInv ==
  ASSUME Inv, NEW p \in Proc, ResealFails(p)
  PROVE  Inv'
<1> DEFINE r == run[p]
<1>1. Sound(r) /\ r.plans \in PlanSet
  BY RunIsSound
<1>2. UNCHANGED <<manifest, config>> /\ events' \in 0 .. MaxEvents
  BY FaultIsBounded, UnchangedStoreTypes DEF ResealFails
<1>3. PICK s \in r.prepared :
        LET masters == MastersOf(r.plans, s)
            plain   == r.bytes[s].plain IN
        /\ \/ files' = files
           \/ /\ Decrypts(r.bytes[s], Openers(r, s))
              /\ NewCiphers(plain, masters) # {}
              /\ files' = [files EXCEPT ![s] = Encrypt(plain, masters)]
        /\ Goto(p, [r EXCEPT !.prepared = @ \ {s},
                             !.unsealed = @ \cup {s}])
  BY DEF ResealFails
<1> DEFINE state == [r EXCEPT !.prepared = @ \ {s}, !.unsealed = @ \cup {s}]
<1>4. files' \in [Path -> File]
  <2>1. files \in [Path -> File]
    BY DEF Inv, TypeOK
  <2>2. CASE files' = files
    BY <2>1, <2>2
  <2>3. CASE files' # files
    <3> DEFINE cipher == Encrypt(r.bytes[s].plain, MastersOf(r.plans, s))
    <3>1. cipher \in File
      BY <1>1, <1>3, <2>3, ResealedType
    <3>2. files' = [files EXCEPT ![s] = cipher]
      BY <1>3, <2>3
    <3> HIDE DEF cipher
    <3> QED
      BY <2>1, <3>1, <3>2
  <2> QED
    BY <2>2, <2>3
<1>5. state \in RunState
  BY <1>1 DEF Sound, RunState
<1>6. KeepsToPlans(state)
  BY <1>1 DEF Sound, RunState, KeepsToPlans
<1>7. WorksSoundly(state)
  BY <1>1 DEF Sound, RunState, WorksSoundly
<1> QED
  BY <1>2, <1>3, <1>4, <1>5, <1>6, <1>7, LocalStepKeepsInv DEF Sound

-----------------------------------------------------------------------------
(* edit and view *)

(* The canonical plan is one of the plans the process was given.           *)
LEMMA CanonicalIsPlanned ==
  ASSUME NEW plans \in PlanSet, NEW s, NEW h \in Canonical(plans, s)
  PROVE  h \in Planned(plans) /\ plans[h].master_identities \in SUBSET MasterKey
<1>1. h \in Planned(plans)
  BY PlanTypes DEF Canonical, Targets, Planned, Target
<1> QED
  BY <1>1 DEF Planned, PlanSet, Plan

(* A process may end at any time, having written a file or not.            *)
LEMMA LocalReturnKeepsInv ==
  ASSUME Inv, NEW p \in Proc, NEW exit \in {"ok", "failures", "error", "killed"},
         Return(p, exit), files' \in [Path -> File],
         manifest' = manifest, config' = config, events' \in 0 .. MaxEvents
  PROVE  Inv'
  BY IdleIsSound, LocalStepKeepsInv DEF Return

(* The editor is given a plaintext: the source's, or the empty one.        *)
LEMMA LoadEditKeepsInv ==
  ASSUME Inv, NEW p \in Proc, LoadEdit(p)
  PROVE  Inv'
<1> DEFINE r == run[p]
<1>1. Sound(r) /\ r.plans \in PlanSet
  BY RunIsSound
<1>2. r.pc = "load" /\ r.cmd = "edit" /\ UNCHANGED storeVars
  BY DEF LoadEdit
<1>3. PICK s \in Editable : \E h \in Canonical(r.plans, s) :
        /\ files[s] # Absent => Decrypts(files[s], r.plans[h].master_identities)
        /\ Goto(p, [r EXCEPT
             !.pc      = "edit",
             !.secret  = s,
             !.staged  = IF files[s] = Absent THEN Empty ELSE files[s].plain,
             !.masters = r.plans[h].master_identities])
  BY DEF LoadEdit
<1>4. PICK h \in Canonical(r.plans, s) :
        /\ files[s] # Absent => Decrypts(files[s], r.plans[h].master_identities)
        /\ Goto(p, [r EXCEPT
             !.pc      = "edit",
             !.secret  = s,
             !.staged  = IF files[s] = Absent THEN Empty ELSE files[s].plain,
             !.masters = r.plans[h].master_identities])
  BY <1>3
<1> DEFINE plain == IF files[s] = Absent THEN Empty ELSE files[s].plain
           keys  == r.plans[h].master_identities
           state == [r EXCEPT !.pc = "edit", !.secret = s,
                              !.staged = plain, !.masters = keys]
<1>5. s \in Path /\ plain \in Plain /\ keys \in SUBSET MasterKey
  BY <1>1, <1>4, EditAssumption, CanonicalIsPlanned DEF Decrypts, Cipher
<1> HIDE DEF plain, keys
<1>6. state \in RunState
  BY <1>1, <1>5 DEF Sound, RunState
<1>7. KeepsToPlans(state)
  BY <1>1, <1>2, <1>5 DEF Sound, RunState, KeepsToPlans
<1>8. WorksSoundly(state)
  BY <1>1 DEF Sound, RunState, WorksSoundly
<1>9. Goto(p, state)
  BY <1>4 DEF plain, keys
<1> QED
  BY <1>2, <1>6, <1>7, <1>8, <1>9, LocalStepKeepsInv, UnchangedStoreTypes
     DEF Sound, storeVars

(* It leaves another one.                                                  *)
LEMMA EditorSavesKeepsInv ==
  ASSUME Inv, NEW p \in Proc, EditorSaves(p)
  PROVE  Inv'
<1> DEFINE r == run[p]
<1>1. Sound(r) /\ r.pc = "edit"
  BY RunIsSound DEF EditorSaves
<1>2. UNCHANGED <<files, manifest, config>> /\ events' \in 0 .. MaxEvents
  BY FaultIsBounded DEF EditorSaves
<1>3. PICK plain \in Plain : Goto(p, [r EXCEPT !.pc = "save", !.staged = plain])
  BY DEF EditorSaves
<1> DEFINE state == [r EXCEPT !.pc = "save", !.staged = plain]
<1>4. state \in RunState
  BY <1>1 DEF Sound, RunState
<1>5. KeepsToPlans(state)
  BY <1>1 DEF Sound, RunState, KeepsToPlans
<1>6. WorksSoundly(state)
  BY <1>1 DEF Sound, RunState, WorksSoundly
<1> QED
  BY <1>2, <1>3, <1>4, <1>5, <1>6, LocalStepKeepsInv, UnchangedStoreTypes
     DEF Sound

(* The source is replaced by a ciphertext of it, when nothing fails and,   *)
(* for a failure to sync the directory, even when something does.          *)
LEMMA SaveKeepsInv ==
  ASSUME Inv, NEW p \in Proc, Save(p) \/ SaveFails(p)
  PROVE  Inv'
<1> DEFINE r == run[p]
<1>1. Sound(r) /\ r.pc = "save"
  BY RunIsSound DEF Save, SaveFails
<1>2. UNCHANGED <<manifest, config>> /\ events' \in 0 .. MaxEvents
  BY FaultIsBounded, UnchangedStoreTypes DEF Save, SaveFails
<1>3. files' \in [Path -> File]
  <2>1. files \in [Path -> File]
    BY UnchangedStoreTypes
  <2>2. CASE files' = files
    BY <2>1, <2>2
  <2>3. CASE files' # files
    <3>1. /\ NewCiphers(r.staged, r.masters) # {}
          /\ files' = [files EXCEPT ![r.secret] = Encrypt(r.staged, r.masters)]
      BY <2>3 DEF Save, SaveFails
    <3>2. r.staged \in Plain /\ r.masters \in SUBSET Key
      BY <1>1 DEF Sound, KeepsToPlans, RunState, Key
    <3>3. Encrypt(r.staged, r.masters) \in File
      BY <3>1, <3>2, EncryptType DEF File, Content
    <3> QED
      BY <2>1, <3>1, <3>3
  <2> QED
    BY <2>2, <2>3
<1>4. CASE Save(p)
  <2> DEFINE state == [r EXCEPT !.pc = "load", !.cmd = "rekey"]
  <2>1. Goto(p, state)
    BY <1>4 DEF Save
  <2>2. state \in RunState
    BY <1>1 DEF Sound, RunState, CommandSet
  <2>3. KeepsToPlans(state)
    BY <1>1 DEF Sound, RunState, KeepsToPlans
  <2>4. WorksSoundly(state)
    BY <1>1 DEF Sound, RunState, WorksSoundly
  <2> QED
    BY <1>2, <1>3, <2>1, <2>2, <2>3, <2>4, LocalStepKeepsInv DEF Sound
<1>5. CASE SaveFails(p)
  BY <1>2, <1>3, <1>5, LocalReturnKeepsInv DEF SaveFails
<1> QED
  BY <1>4, <1>5

(* The command ends without touching the checkout.                         *)
LEMMA EndEditKeepsInv ==
  ASSUME Inv, NEW p \in Proc,
         View(p) \/ SecretUnreadable(p) \/ EditorGivesUp(p)
  PROVE  Inv'
<1>1. UNCHANGED storeVars /\ \E exit \in {"ok", "error"} : Return(p, exit)
  BY DEF View, SecretUnreadable, EditorGivesUp
<1> QED
  BY <1>1, LocalReturnKeepsInv, UnchangedStoreTypes DEF storeVars

-----------------------------------------------------------------------------
(* The theorems *)

(* The invariant holds at first,                                           *)
LEMMA InitEstablishesInv ==
  ASSUME Init
  PROVE  Inv
<1>1. Sound(Idle("none"))
  BY IdleIsSound
<1>2. TypeOK
  BY <1>1, ConfigAssumption, BoundAssumption, EmptyManifestType
     DEF Init, TypeOK, Sound
<1>3. Truthful
  BY <1>1, EmptyManifestIsTrue DEF Init, Truthful, Sound
<1> QED
  BY <1>2, <1>3 DEF Inv

(* and every step of a process or of the world around it keeps it.         *)
LEMMA NextKeepsInv ==
  ASSUME Inv, [Next]_vars
  PROVE  Inv'
<1>1. CASE Environment
  BY <1>1, EnvironmentKeepsInv
<1>2. ASSUME NEW p \in Proc, NEW cmd \in Commands[p], Invoke(p, cmd)
      PROVE  Inv'
  BY <1>2, CommandAssumption, InvokeKeepsInv
<1>3. ASSUME NEW p \in Proc, RekeyStep(p)
      PROVE  Inv'
  BY <1>3, LoadKeepsInv, ReadSourceKeepsInv, UnreadableSourceKeepsInv,
     ClassifyTargetKeepsInv, NextPhaseKeepsInv, DecryptKeepsInv,
     FanOutKeepsInv, FanOutFailsKeepsInv, PurgeKeepsInv, EndFanOutKeepsInv
     DEF RekeyStep
<1>4. ASSUME NEW p \in Proc, ResealStep(p)
      PROVE  Inv'
  BY <1>4, LoadKeepsInv, PrepareKeepsInv, NextPhaseKeepsInv,
     ResealSourceKeepsInv, ResealFailsKeepsInv DEF ResealStep
<1>5. ASSUME NEW p \in Proc,
             \/ LoadGc(p) \/ ListOrphans(p) \/ RemoveOrphan(p) \/ EndSweep(p)
      PROVE  Inv'
  BY <1>5, LoadKeepsInv, ListOrphansKeepsInv, RemoveOrphanKeepsInv,
     NextPhaseKeepsInv
<1>6. ASSUME NEW p \in Proc,
             LoadFails(p) \/ SweepFails(p) \/ Crash(p) \/ Commit(p)
             \/ CommitFails(p)
      PROVE  Inv'
  BY <1>6, EndKeepsInv
<1>7. ASSUME NEW p \in Proc, EditStep(p)
      PROVE  Inv'
  BY <1>7, LoadEditKeepsInv, EditorSavesKeepsInv, SaveKeepsInv, EndEditKeepsInv
     DEF EditStep
<1>8. CASE UNCHANGED vars
  BY <1>8 DEF vars, Inv, TypeOK, Truthful
<1> QED
  BY <1>1, <1>2, <1>3, <1>4, <1>5, <1>6, <1>7, <1>8 DEF Next, Step

(* Types, and that every manifest - on disk, loaded or about to be         *)
(* committed - tells the truth of the bytes it names, hold at all times,   *)
(* however processes interleave, die, fail or are meddled with.            *)
THEOREM Invariance == Spec => []Inv
<1>1. Init => Inv
  BY InitEstablishesInv
<1>2. Inv /\ [Next]_vars => Inv'
  BY NextKeepsInv
<1> QED
  BY <1>1, <1>2, PTL DEF Spec

(* Every variable keeps its type: no run, fault or edit leaves a malformed  *)
(* manifest or a process outside its phases.                               *)
THEOREM TypeCorrect == Spec => []TypeOK
<1>1. Inv => TypeOK
  BY DEF Inv
<1> QED
  BY <1>1, Invariance, PTL

(* No manifest records a digest pair that was never true, and no process   *)
(* deals in targets of other plans than those its command validated.       *)
THEOREM TruthfulAlways == Spec => []Truthful
<1>1. Inv => Truthful
  BY DEF Inv
<1> QED
  BY <1>1, Invariance, PTL

(* rekey never skips a target whose output does not carry the source: the  *)
(* decision matches_prev takes from digests is right about contents.       *)
THEOREM SkipSafety == Spec => []SkipIsSafe
<1>1. ASSUME Inv, NEW plans \in Configs, NEW t \in Targets(plans),
             MatchesPrev(manifest, plans, t, files[Source(plans, t)],
                         files[Output(plans, t)])
      PROVE  Carries(files[Output(plans, t)], files[Source(plans, t)],
                     plans[t[1]].master_identities, plans[t[1]].host_pubkey)
  <2>1. manifest \in Manifest /\ Certified(manifest)
    BY <1>1 DEF Inv, TypeOK, Truthful
  <2>2. plans \in PlanSet
    BY ConfigAssumption
  <2> QED
    BY <1>1, <2>1, <2>2, MatchIsCarried
<1>2. Inv => SkipIsSafe
  BY <1>1 DEF SkipIsSafe
<1> QED
  BY <1>2, Invariance, PTL

(* reseal never skips a source that is not encrypted to exactly the        *)
(* masters of its consumers.                                               *)
THEOREM ResealSkipSafety == Spec => []ResealSkipIsSafe
<1>1. ASSUME Inv, NEW plans \in Configs, NEW t \in Targets(plans),
             SealMatches(manifest, Source(plans, t), files[Source(plans, t)],
                         plans[t[1]].master_identities)
      PROVE  /\ files[Source(plans, t)] \in Cipher
             /\ files[Source(plans, t)].to = plans[t[1]].master_identities
  <2>1. Source(plans, t) \in Path
    BY ConfigAssumption, PlanTypes
  <2>2. \A x : Sha(x).sha256 = x
    BY DEF Sha
  <2> QED
    BY <1>1, <2>1, <2>2 DEF Inv, Truthful, Sealed, SealMatches
<1>2. Inv => ResealSkipIsSafe
  BY <1>1 DEF ResealSkipIsSafe
<1> QED
  BY <1>2, Invariance, PTL

(* No sweep has an output of its plans among the files it removes.         *)
THEOREM SweepSafety == Spec => []SweepSparesOutputs
<1>1. Inv => SweepSparesOutputs
  BY DEF Inv, Truthful, KeepsToPlans, SweepSparesOutputs
<1> QED
  BY <1>1, Invariance, PTL

=============================================================================
