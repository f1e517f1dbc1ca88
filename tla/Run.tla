--------------------------------- MODULE Run ---------------------------------
(***************************************************************************)
(* One invocation of the tombkey binary: what the commands share.  A       *)
(* process loads its plans once, loads the manifest once, then works on    *)
(* the checkout one file-system access at a time, and writes the manifest  *)
(* at most once, at the end.  Nothing locks the checkout: another process, *)
(* or the user, may act between any two accesses.                          *)
(***************************************************************************)
EXTENDS Store

CONSTANTS
  Proc,        \* processes that may run tombkey at the same time
  Commands,    \* Commands[p], the commands process p runs
  Selections   \* sets of hosts whose plans are passed with --plan

VARIABLE run   \* run[p], the local state of process p

vars == <<files, manifest, config, events, run>>

Target == Host \X Name

CommandSet == {"rekey", "reseal", "reseal --force", "gc", "edit", "view"}

ASSUME CommandAssumption ==
  /\ Commands \in [Proc -> SUBSET CommandSet] /\ None \notin CommandSet
  /\ Selections \subseteq SUBSET Host

RunState ==
  [cmd      : CommandSet \cup {None},
   pc       : {"idle", "load", "classify", "decrypt", "prepare", "reseal",
               "sweep", "commit", "edit", "save"},
   exit     : {"none", "ok", "failures", "error", "killed"},
   plans    : PlanSet,
   loaded   : Manifest,          \* manifest_initial
   draft    : Manifest,          \* manifest, as this run means to leave it
   unread   : SUBSET Path,       \* sources not read yet
   bytes    : [Path -> File],    \* source bytes read, kept for the whole run
   work     : SUBSET Target,     \* targets of the source in hand
   stale    : SUBSET Target,     \* stale targets whose source is not decrypted
   doomed   : SUBSET Target,     \* failed targets whose output is not purged
   failed   : SUBSET Target,     \* failed targets, report.failures in number
   left     : SUBSET Target,     \* report.stale_left_behind
   session  : SUBSET PluginKey,  \* tokens of the batch unwrap session
   prepared : SUBSET Path,       \* reseal: sources read and not resealed yet
   unsealed : SUBSET Path,       \* reseal: sources that failed
   unswept  : SUBSET Host,       \* hosts whose storage is not swept yet
   victims  : SUBSET Path,       \* orphans found in the directory in hand
   secret   : Path \cup {None},  \* edit: the source, until the process ends
   staged   : Plain \cup {None}, \* edit: its plaintext, as edited so far
   masters  : SUBSET MasterKey]  \* edit: the masters it is encrypted to

(* A process that is not running, with the outcome of its last run.        *)
Idle(exit) ==
  [cmd |-> None, pc |-> "idle", exit |-> exit,
   plans |-> NoPlans, loaded |-> EmptyManifest, draft |-> EmptyManifest,
   unread |-> {}, bytes |-> [s \in Path |-> Absent],
   work |-> {}, stale |-> {}, doomed |-> {}, failed |-> {}, left |-> {},
   session |-> {},
   prepared |-> {}, unsealed |-> {}, unswept |-> {}, victims |-> {},
   secret |-> None, staged |-> None, masters |-> {}]

AllIdle == \A p \in Proc : run[p].pc = "idle"

Goto(p, state) == run' = [run EXCEPT ![p] = state]

(* The process ends; everything it held in memory is gone.                 *)
Return(p, exit) == Goto(p, Idle(exit))

(* An I/O error, a hardware token that does not answer, a kill - or a      *)
(* change that somebody makes, an edit among them.                         *)
Fault == events < MaxEvents /\ events' = events + 1

-----------------------------------------------------------------------------
(* Encryption.  A new ciphertext differs from every one that a file, a     *)
(* digest or a process still refers to.                                    *)

HeldBy(m) ==
  UNION {{Entry(m, t).source_sha256.sha256, Entry(m, t).output_sha256.sha256} :
           t \in {u \in Target : m.hosts[u[1]] # None /\ Entry(m, u) # None}}
  \cup {m.sources[s].ciphertext_sha256.sha256 :
          s \in {x \in Path : m.sources[x] # None}}

Held ==
  {files[x] : x \in Path} \cup HeldBy(manifest)
  \cup UNION {HeldBy(run[p].loaded) \cup HeldBy(run[p].draft)
              \cup {run[p].bytes[s] : s \in Path} : p \in Proc}

NewCiphers(plain, to) ==
  {c \in [to : {to}, plain : {plain}, nonce : Nonce] : c \notin Held}

Encrypt(plain, to) == CHOOSE c \in NewCiphers(plain, to) : TRUE

-----------------------------------------------------------------------------
(* Decryption.  One plugin session unwraps what it can for all sources in  *)
(* hand; it is given the identities of all of them, so each source is      *)
(* tried with every other's.  A source it did not unwrap is decrypted with *)
(* the identities of its own consumers.                                    *)

(* ops::batch_unwrap_file_keys: no plugin, no session.                     *)
SessionKeys(plans, sources) ==
  {k \in PluginKey : /\ \E h \in Planned(plans) : plans[h].age_plugins
                     /\ \E s \in sources : k \in MastersOf(plans, s)}

(* The session is held, or each of its attempts fails.                     *)
OpenSession(keys, session) ==
  \/ session = keys /\ UNCHANGED events
  \/ session = {} /\ keys # {} /\ Fault

(* The identities source s may be opened with.                             *)
Openers(r, s) == MastersOf(r.plans, s) \cup r.session

-----------------------------------------------------------------------------
(* Starting and ending *)

Chosen(hosts) == [h \in Host |-> IF h \in hosts THEN config[h] ELSE None]

(* main::dispatch: at least one plan, and a valid set of them; then, for   *)
(* every command but gc, one master set per source.                        *)
Accepted(cmd, plans) ==
  /\ Planned(plans) # {}
  /\ ValidSet(plans)
  /\ cmd # "gc" => Consistent(plans)

Invoke(p, cmd) ==
  /\ run[p].pc = "idle"
  /\ \E hosts \in Selections :
       LET plans == Chosen(hosts) IN
       IF Accepted(cmd, plans)
       THEN Goto(p, [Idle("none") EXCEPT !.cmd = cmd, !.pc = "load",
                                         !.plans = plans])
       ELSE Return(p, "error")
  /\ UNCHANGED storeVars

(* The manifest cannot be read or parsed, has another version, or a        *)
(* storage directory cannot be created; for edit and view, the source or   *)
(* an identity cannot be read, a token does not answer, or the plaintext   *)
(* cannot be staged.                                                       *)
LoadFails(p) ==
  /\ run[p].pc = "load"
  /\ Fault
  /\ Return(p, "error")
  /\ UNCHANGED <<files, manifest, config>>

(* Manifest::write_atomic and the exit code; nothing is written when the   *)
(* manifest is as it was loaded.                                           *)
Commit(p) ==
  LET r == run[p] IN
  /\ r.pc = "commit"
  /\ manifest' = IF r.draft # r.loaded THEN r.draft ELSE manifest
  /\ Return(p, IF r.failed = {} /\ r.unsealed = {} THEN "ok" ELSE "failures")
  /\ UNCHANGED <<files, config, events>>

(* The write fails before the rename, or after it when only the directory  *)
(* could not be synced.                                                    *)
CommitFails(p) ==
  LET r == run[p] IN
  /\ r.pc = "commit"
  /\ r.draft # r.loaded
  /\ Fault
  /\ manifest' \in {manifest, r.draft}
  /\ Return(p, "error")
  /\ UNCHANGED <<files, config>>

(* The process is killed between two file-system accesses.                 *)
Crash(p) ==
  /\ run[p].pc # "idle"
  /\ Fault
  /\ Return(p, "killed")
  /\ UNCHANGED <<files, manifest, config>>

-----------------------------------------------------------------------------
(* ops::sweep_orphans, used by rekey and gc *)

Owned(plans, h) == {Output(plans, t) : t \in {u \in Targets(plans) : u[1] = h}}

(* A slip: a host without secrets is passed over.                          *)
OrphansOfUsers(plans, h) ==
  IF Owned(plans, h) = {} THEN {}
  ELSE plans[h].local_storage_dir \ Owned(plans, h)

(* What may not stay in the directory of host h.                           *)
Orphans(plans, h) == plans[h].local_storage_dir \ Owned(plans, h)

(* Read one host's storage directory: its files that are not the plan's    *)
(* outputs are to go.                                                      *)
ListOrphans(p) ==
  LET r == run[p] IN
  /\ r.pc = "sweep"
  /\ r.victims = {}
  /\ \E h \in r.unswept :
       Goto(p, [r EXCEPT
         !.unswept = @ \ {h},
         !.victims = {x \in Orphans(r.plans, h) : files[x] # Absent}])
  /\ UNCHANGED storeVars

(* Remove one of them; one that is no longer a file is passed over.        *)
RemoveOrphan(p) ==
  LET r == run[p] IN
  /\ r.pc = "sweep"
  /\ \E x \in r.victims :
       /\ files' = [files EXCEPT ![x] = Absent]
       /\ Goto(p, [r EXCEPT !.victims = @ \ {x}])
  /\ UNCHANGED <<manifest, config, events>>

(* A directory cannot be read or an orphan cannot be removed - another     *)
(* process removing it first is enough: the command ends here.             *)
SweepFails(p) ==
  LET r == run[p] IN
  /\ r.pc = "sweep"
  /\ r.unswept # {} \/ r.victims # {}
  /\ Fault
  /\ Return(p, "error")
  /\ UNCHANGED <<files, manifest, config>>

EndSweep(p) ==
  LET r == run[p] IN
  /\ r.pc = "sweep"
  /\ r.unswept = {} /\ r.victims = {}
  /\ Goto(p, [r EXCEPT !.pc = "commit"])
  /\ UNCHANGED storeVars

=============================================================================
