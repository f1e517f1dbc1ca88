------------------------------- MODULE Tombkey -------------------------------
(***************************************************************************)
(* The whole program: processes that run rekey, reseal, gc and edit on one *)
(* checkout, and the world around them - people and git change sources,    *)
(* outputs, the manifest and the configuration - with what the program     *)
(* promises under all of that.                                             *)
(***************************************************************************)
EXTENDS Rekey, Reseal, Gc, Edit

Init ==
  /\ config \in Configs
  /\ files \in InitFiles
  /\ manifest = EmptyManifest
  /\ events = 0
  /\ run = [p \in Proc |-> Idle("none")]

-----------------------------------------------------------------------------
(* The world around the program *)

CONSTANT Meddling   \* whether other hands act while a command runs

Undisturbed == ~Meddling => AllIdle

MasterSets == {config[h].master_identities : h \in Planned(config)}

(* Ciphertexts to some of these keys that a file, a digest or a process    *)
(* still refers to: the versions git may bring back.                       *)
OlderVersions(keys) == {c \in Held : c \in Cipher /\ c.to \subseteq keys}

(* A source is changed by other hands than tombkey's: encrypted anew to    *)
(* some host's masters, restored to an older version, overwritten with     *)
(* something that is no ciphertext, or deleted.                            *)
ChangeSource ==
  /\ Fault
  /\ Undisturbed
  /\ \E s \in Sources(config) :
       \/ \E plain \in Plain, to \in MasterSets :
            /\ NewCiphers(plain, to) # {}
            /\ files' = [files EXCEPT ![s] = Encrypt(plain, to)]
       \/ \E old \in OlderVersions(MasterKey) \cup {Absent, Junk} :
            /\ old # files[s]
            /\ files' = [files EXCEPT ![s] = old]
  /\ UNCHANGED <<manifest, config, run>>

(* A file in a storage directory, output or orphan, is deleted, damaged or *)
(* restored to an older version - one that something still refers to, or   *)
(* one that nothing does, as when a power cut undoes a deletion that was   *)
(* not synced.                                                             *)
ChangeOutput ==
  /\ Fault
  /\ Undisturbed
  /\ \E h \in Planned(config) : \E x \in config[h].local_storage_dir :
       \/ \E old \in OlderVersions(HostKey) \cup {Absent, Junk} :
            /\ old # files[x]
            /\ files' = [files EXCEPT ![x] = old]
       \/ \E plain \in Plain :
            LET to == {config[h].host_pubkey} IN
            /\ NewCiphers(plain, to) # {}
            /\ files' = [files EXCEPT ![x] = Encrypt(plain, to)]
  /\ UNCHANGED <<manifest, config, run>>

(* The configuration evaluates to other plans: a master or a host key is   *)
(* rotated, a secret or a host comes or goes, an output moves.  A command  *)
(* that runs keeps the plans it was given.                                 *)
Reconfigure ==
  /\ Fault
  /\ config' \in Configs \ {config}
  /\ UNCHANGED <<files, manifest, run>>

(* The manifest is deleted.                                                *)
LoseManifest ==
  /\ Fault
  /\ Undisturbed
  /\ manifest # EmptyManifest
  /\ manifest' = EmptyManifest
  /\ UNCHANGED <<files, config, run>>

Environment == ChangeSource \/ ChangeOutput \/ Reconfigure \/ LoseManifest

-----------------------------------------------------------------------------
(* What a process does on its own, once invoked *)

Step(p) ==
  \/ RekeyStep(p)
  \/ ResealStep(p)
  \/ EditStep(p)
  \/ LoadGc(p)
  \/ LoadFails(p)
  \/ ListOrphans(p)
  \/ RemoveOrphan(p)
  \/ SweepFails(p)
  \/ EndSweep(p)
  \/ Commit(p)
  \/ CommitFails(p)

Next ==
  \/ Environment
  \/ \E p \in Proc :
       \/ \E cmd \in Commands[p] : Invoke(p, cmd)
       \/ Step(p)
       \/ Crash(p)

Spec == Init /\ [][Next]_vars

(* A running process goes on - an editor is closed at last - and rekey is  *)
(* run again and again, whatever other commands are run in between: the    *)
(* workflow of the README.                                                 *)
Fairness ==
  /\ \A p \in Proc : WF_vars(Step(p))
  /\ \A p \in {q \in Proc : "rekey" \in Commands[q]} :
       SF_vars(Invoke(p, "rekey"))

FairSpec == Spec /\ Fairness

-----------------------------------------------------------------------------
(* What the program promises *)

(* output holds what source holds, for the host alone, and the masters, or *)
(* a token another source brought into the session, can open the source.   *)
Carries(output, source, masters, key) ==
  /\ Decrypts(source, masters \cup PluginKey)
  /\ output \in Cipher
  /\ output.plain = source.plain
  /\ output.to = {key}

(* Every variable keeps its type.                                          *)
TypeOK ==
  /\ files \in [Path -> File]
  /\ manifest \in Manifest
  /\ config \in Configs
  /\ events \in 0 .. MaxEvents
  /\ run \in [Proc -> RunState]

(* Whatever the manifest and the checkout have become, and whichever plans *)
(* come next, a target that rekey would skip (matches_prev) has an output  *)
(* that holds the source's present plaintext for the present host key, and *)
(* its source opens with the present masters or, if not, with a token.     *)
SkipIsSafe ==
  \A plans \in Configs : \A t \in Targets(plans) :
    LET source == files[Source(plans, t)]
        output == files[Output(plans, t)] IN
    MatchesPrev(manifest, plans, t, source, output)
      => Carries(output, source, plans[t[1]].master_identities,
                 plans[t[1]].host_pubkey)

(* A source that reseal would skip is encrypted to exactly the masters its *)
(* consumers declare, whatever has happened to it or to them.              *)
ResealSkipIsSafe ==
  \A plans \in Configs : \A t \in Targets(plans) :
    LET source  == files[Source(plans, t)]
        masters == plans[t[1]].master_identities IN
    SealMatches(manifest, Source(plans, t), source, masters)
      => source \in Cipher /\ source.to = masters

(* No sweep, of rekey or of gc, has an output of any plan it was given     *)
(* among the files it is about to remove.                                  *)
SweepSparesOutputs ==
  \A p \in Proc : run[p].victims \cap Outputs(run[p].plans) = {}

(* Nor one of their sources: validation means to scope the sweep to what   *)
(* tombkey wrote.                                                          *)
SweepSparesSources ==
  \A p \in Proc : run[p].victims \cap Sources(run[p].plans) = {}

(* The command of p writes the manifest, or finds it as it should be, and  *)
(* exits.                                                                  *)
Committed(p) ==
  run[p].pc = "commit" /\ run'[p].exit \in {"ok", "failures"}

(* When rekey commits, a failed target has neither an output nor an entry, *)
(* and every other one an output that carries the source as it was read    *)
(* and the entry that vouches for just these bytes.                        *)
RekeyLeavesNoStale ==
  [][\A p \in Proc :
       LET r == run[p] IN
       Committed(p) /\ r.cmd = "rekey" =>
         \A t \in Targets(r.plans) :
           LET source == r.bytes[Source(r.plans, t)]
               path   == Output(r.plans, t)
               plan   == r.plans[t[1]] IN
           IF t \in r.failed
           THEN files[path] = Absent /\ Entry(manifest', t) = None
           ELSE /\ Carries(files[path], source, plan.master_identities,
                           plan.host_pubkey)
                /\ Entry(manifest', t) = Fingerprint(source, path, files[path])
    ]_vars

(* A rekey that exits 0 leaves nothing for the next one: it would skip     *)
(* every target and sweep no file.                                         *)
RekeySettles ==
  [][\A p \in Proc :
       LET r == run[p] IN
       Committed(p) /\ r.cmd = "rekey" /\ run'[p].exit = "ok" =>
         /\ \A t \in Targets(r.plans) :
              MatchesPrev(manifest', r.plans, t, files[Source(r.plans, t)],
                          files[Output(r.plans, t)])
         /\ \A h \in Planned(r.plans) :
              \A x \in r.plans[h].local_storage_dir \ Owned(r.plans, h) :
                files[x] = Absent
    ]_vars

(* An edit changes one file, the source it was asked for, and only into    *)
(* what the editor left, for exactly the masters each consumer declares;   *)
(* what it replaces, it was able to read.                                  *)
EditSealsForConsumers ==
  [][\A p \in Proc :
       LET r == run[p] IN
       run'[p] # run[p] /\ r.cmd = "edit" =>
         \A s \in Path :
           files'[s] # files[s] =>
             /\ s = r.secret
             /\ files[s] # Absent => Decrypts(files[s], r.masters)
             /\ files'[s] \in Cipher /\ files'[s].plain = r.staged
             /\ \A t \in Consumers(r.plans, s) :
                  files'[s].to = r.plans[t[1]].master_identities
    ]_vars

(* When the rekey inside an edit commits, every output of the source holds *)
(* what was edited, or is gone and the command does not exit 0: the edit   *)
(* propagates in the same invocation, and no host keeps the old secret.    *)
EditIsDeployed ==
  [][\A p \in Proc :
       LET r == run[p] IN
       Committed(p) /\ r.secret # None =>
         /\ files[r.secret] \in Cipher /\ files[r.secret].plain = r.staged
         /\ \A t \in Consumers(r.plans, r.secret) :
              LET output == files[Output(r.plans, t)] IN
              \/ output = Absent /\ run'[p].exit # "ok"
              \/ /\ output \in Cipher
                 /\ output.plain = r.staged
                 /\ output.to = {r.plans[t[1]].host_pubkey}
    ]_vars

(* The files below the storage directories of all plans given.             *)
Stored(plans) == UNION {plans[h].local_storage_dir : h \in Planned(plans)}

(* Whatever fails or runs beside them, rekey and gc write and remove files *)
(* in the storage directories of their plans only.  A source elsewhere is  *)
(* never touched; one that a plan keeps in such a directory may be swept,  *)
(* or written over when it is another secret's output as well.             *)
StaysInStorage ==
  [][\A p \in Proc :
       run'[p] # run[p] /\ run[p].cmd \in {"rekey", "gc"} =>
         \A x \in Path \ Stored(run[p].plans) : files'[x] = files[x]
    ]_vars

(* No command touches the section of a host whose plan it was not given,   *)
(* and rekey none of the seals.                                            *)
OthersUntouched ==
  [][\A p \in Proc :
       run'[p] # run[p] =>
         /\ \A h \in Host \ Planned(run[p].plans) :
              manifest'.hosts[h] = manifest.hosts[h]
         /\ run[p].cmd = "rekey" => manifest'.sources = manifest.sources
    ]_vars

(* gc takes nothing that saves work: what rekey would skip before a step   *)
(* of it, or reseal, they would skip after.                                *)
GcKeepsSkips ==
  [][\A p \in Proc :
       LET plans == run[p].plans IN
       run'[p] # run[p] /\ run[p].cmd = "gc" =>
         /\ \A t \in Targets(plans) :
              LET source == Source(plans, t)
                  output == Output(plans, t) IN
              MatchesPrev(manifest, plans, t, files[source], files[output])
                => MatchesPrev(manifest', plans, t, files'[source],
                               files'[output])
         /\ \A s \in Sources(plans) :
              SealMatches(manifest, s, files[s], MastersOf(plans, s))
                => SealMatches(manifest', s, files'[s], MastersOf(plans, s))
    ]_vars

(* reseal changes a source only into a ciphertext of the same plaintext    *)
(* for exactly the masters that each of its consumers declares, whatever   *)
(* fails; and a source it does not report is one the next reseal skips.    *)
ResealKeepsPlaintext ==
  [][\A p \in Proc :
       LET r == run[p] IN
       run'[p] # run[p] /\ r.cmd \in {"reseal", "reseal --force"} =>
         /\ \A s \in Path :
              files'[s] # files[s] =>
                /\ files[s] \in Cipher /\ files'[s] \in Cipher
                /\ files'[s].plain = files[s].plain
                /\ \A t \in Consumers(r.plans, s) :
                     files'[s].to = r.plans[t[1]].master_identities
         /\ Committed(p) =>
              \A s \in Sources(r.plans) \ r.unsealed :
                SealMatches(manifest', s, files'[s], MastersOf(r.plans, s))
    ]_vars

(* After reseal every source that was an age file opens with the masters   *)
(* its consumers declare, as the workflow for rotating a master has it.    *)
ResealAcceptsMasters ==
  [][\A p \in Proc :
       LET r == run[p] IN
       Committed(p) /\ r.cmd = "reseal" =>
         \A s \in Sources(r.plans) :
           r.bytes[s] \in Cipher => Decrypts(files[s], MastersOf(r.plans, s))
    ]_vars

-----------------------------------------------------------------------------
(* Why the skips are safe: what is recorded is true of the bytes it names  *)

(* Each entry of manifest m was made from a source and an output such that *)
(* the output carries the source for the keys of its section.              *)
Certified(m) ==
  \A t \in Target :
    m.hosts[t[1]] # None /\ Entry(m, t) # None =>
      Carries(Entry(m, t).output_sha256.sha256,
              Entry(m, t).source_sha256.sha256,
              m.hosts[t[1]].master_set_sha256.sha256,
              m.hosts[t[1]].host_pubkey_sha256.sha256)

(* Each seal of manifest m names a ciphertext to exactly its master set.   *)
Sealed(m) ==
  \A s \in Path :
    m.sources[s] # None =>
      /\ m.sources[s].ciphertext_sha256.sha256 \in Cipher
      /\ m.sources[s].ciphertext_sha256.sha256.to
           = m.sources[s].master_set_sha256.sha256

(* The sections a rekey fills in are those of its plans' keys.             *)
HasHeaders(m, plans) ==
  \A h \in Planned(plans) :
    /\ m.hosts[h] # None
    /\ m.hosts[h].host_pubkey_sha256 = Sha(plans[h].host_pubkey)
    /\ m.hosts[h].master_set_sha256 = Sha(plans[h].master_identities)

(* A process deals in targets and sources of its own plans, which passed   *)
(* the validation of its command.                                          *)
KeepsToPlans(r) ==
  /\ ValidSet(r.plans)
  /\ r.pc \in {"classify", "decrypt", "prepare", "reseal", "edit", "save"}
       => Consistent(r.plans)
  /\ r.pc = "load" /\ r.cmd # "gc" => Consistent(r.plans)
  /\ r.work \cup r.stale \cup r.doomed \subseteq Targets(r.plans)
  /\ r.unread \cup r.prepared \subseteq Sources(r.plans)
  /\ r.unswept \subseteq Planned(r.plans)
  /\ r.victims \cap Outputs(r.plans) = {}
  /\ r.pc \in {"edit", "save"} => r.secret \in Path /\ r.staged \in Plain

(* What a process has loaded and what it is about to commit are true, and  *)
(* what it fans out is decrypted.                                          *)
WorksSoundly(r) ==
  /\ Certified(r.loaded) /\ Certified(r.draft)
  /\ Sealed(r.loaded) /\ Sealed(r.draft)
  /\ r.pc \in {"classify", "decrypt"} => HasHeaders(r.draft, r.plans)
  /\ r.pc = "decrypt" =>
       \A t \in r.work : LET s == Source(r.plans, t) IN
         Decrypts(r.bytes[s], MastersOf(r.plans, s) \cup PluginKey)

(* The invariant the proofs carry from step to step: whatever processes    *)
(* interleave, whoever meddles, every manifest anywhere tells the truth.   *)
Truthful ==
  /\ Certified(manifest) /\ Sealed(manifest)
  /\ \A p \in Proc : KeepsToPlans(run[p]) /\ WorksSoundly(run[p])

-----------------------------------------------------------------------------
(* What the theorems about whole runs ask of the surroundings *)

(* One process, and no other hands while it runs.                          *)
Solo == ~Meddling /\ \A p, q \in Proc : p = q

(* The plan sets a process may be given.                                   *)
Given ==
  {[h \in Host |-> IF h \in hosts THEN plans[h] ELSE None] :
     plans \in Configs, hosts \in Selections}

(* No storage directory of plans that pass validation holds a source of    *)
(* theirs - which validation means to establish, but does not.             *)
SourcesApart ==
  \A plans \in Given : ValidSet(plans) => Stored(plans) \cap Sources(plans) = {}

(* Nor a file that people name to edit.                                    *)
EditsApart ==
  \A plans \in Given : ValidSet(plans) => Stored(plans) \cap Editable = {}

-----------------------------------------------------------------------------
(* Liveness: the edits, faults and crashes are finitely many *)

(* Every target whose source its masters can open has an output that       *)
(* carries it, the others none - or one a token opened the source for, in  *)
(* company of another source - and no orphan is left.                      *)
Settled ==
  /\ \A t \in Targets(config) :
       LET source  == files[Source(config, t)]
           output  == files[Output(config, t)]
           masters == config[t[1]].master_identities IN
       IF Decrypts(source, masters)
       THEN Carries(output, source, masters, config[t[1]].host_pubkey)
       ELSE \/ output = Absent
            \/ Carries(output, source, masters, config[t[1]].host_pubkey)
  /\ \A h \in Planned(config) :
       \A x \in config[h].local_storage_dir \ Owned(config, h) :
         files[x] = Absent

(* Once the edits, faults and crashes are over, rekey brings a             *)
(* configuration it accepts to where every output is right, for good.      *)
Converges == <>[](Accepted("rekey", config) => Settled)

(* Then steady-state runs change nothing any more, neither a file nor the  *)
(* manifest.                                                               *)
Quiesces == <>[][UNCHANGED <<files, manifest>>]_<<files, manifest>>

=============================================================================
