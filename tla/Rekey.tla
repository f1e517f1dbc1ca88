-------------------------------- MODULE Rekey --------------------------------
(***************************************************************************)
(* tombkey rekey (src/ops/rekey.rs): decide per host and secret whether    *)
(* the committed manifest still vouches for the output, decrypt each       *)
(* source with a stale consumer once, re-encrypt it to every stale host,   *)
(* delete the outputs of what failed, sweep orphans, commit the manifest.  *)
(*                                                                         *)
(* A failed target is doomed until its output is purged, and the run does  *)
(* nothing else meanwhile: record_secret_failure runs to its end before    *)
(* the loops go on.                                                        *)
(***************************************************************************)
EXTENDS Run

(* Slips: the new sections keep the old entries, or the sections of other  *)
(* hosts are dropped.                                                      *)
WithOldEntries(m, plans) ==
  [m EXCEPT !.hosts =
     [h \in Host |-> IF plans[h] = None THEN m.hosts[h]
                     ELSE [NewSection(plans[h]) EXCEPT
                             !.secrets = IF m.hosts[h] = None THEN @
                                         ELSE m.hosts[h].secrets]]]

WithOnlyNewSections(m, plans) ==
  [m EXCEPT !.hosts = [h \in Host |-> IF plans[h] # None
                                      THEN NewSection(plans[h]) ELSE None]]

(* The plans' host sections leave the manifest and empty ones, made for    *)
(* the plans' keys, take their place (build_plan_ctxs).                    *)
WithNewSections(m, plans) ==
  [m EXCEPT !.hosts = [h \in Host |-> IF plans[h] # None
                                      THEN NewSection(plans[h])
                                      ELSE m.hosts[h]]]

LoadRekey(p) ==
  LET r == run[p] IN
  /\ r.pc = "load" /\ r.cmd = "rekey"
  /\ Goto(p, [r EXCEPT !.pc     = "classify",
                       !.loaded = manifest,
                       !.draft  = WithNewSections(manifest, r.plans),
                       !.unread = Sources(r.plans)])
  /\ UNCHANGED storeVars

-----------------------------------------------------------------------------
(* Phase 1: read the sources and classify their consumers *)

(* The next source may be read: its predecessor's consumers are dealt with.*)
Reading(r) == r.pc = "classify" /\ r.work = {} /\ r.doomed = {}

ReadSource(p) ==
  LET r == run[p] IN
  /\ Reading(r)
  /\ \E s \in r.unread :
       /\ files[s] # Absent
       /\ Goto(p, [r EXCEPT !.unread   = @ \ {s},
                            !.bytes[s] = files[s],
                            !.work     = Consumers(r.plans, s)])
  /\ UNCHANGED storeVars

(* Every consumer of a source that cannot be read fails.                   *)
UnreadableSource(p) ==
  LET r == run[p] IN
  /\ Reading(r)
  /\ \E s \in r.unread :
       /\ \/ files[s] = Absent /\ UNCHANGED events
          \/ files[s] # Absent /\ Fault
       /\ Goto(p, [r EXCEPT !.unread = @ \ {s},
                            !.doomed = Consumers(r.plans, s),
                            !.failed = @ \cup Consumers(r.plans, s)])
  /\ UNCHANGED <<files, manifest, config>>

(* classify_consumers, one consumer: read its output, and either keep the  *)
(* previous entry or take the target for stale.                            *)
ClassifyTarget(p) ==
  LET r == run[p] IN
  /\ r.pc = "classify"
  /\ \E t \in r.work :
       LET source == r.bytes[Source(r.plans, t)]
           output == files[Output(r.plans, t)] IN
       IF MatchesPrev(r.loaded, r.plans, t, source, output)
       THEN Goto(p, [r EXCEPT
              !.work  = @ \ {t},
              !.draft = WithEntry(@, t, Entry(r.loaded, t))])
       ELSE Goto(p, [r EXCEPT
              !.work  = @ \ {t},
              !.stale = @ \cup {t}])
  /\ UNCHANGED storeVars

-----------------------------------------------------------------------------
(* Phases 2 and 3: unwrap and decrypt each pending source, fan out *)

Pending(r) == {Source(r.plans, t) : t \in r.stale}

(* All sources are classified: batch_unwrap_sources.                       *)
EndClassify(p) ==
  LET r == run[p] IN
  /\ Reading(r) /\ r.unread = {}
  /\ \E session \in SUBSET PluginKey :
       /\ OpenSession(SessionKeys(r.plans, Pending(r)), session)
       /\ Goto(p, [r EXCEPT !.pc = "decrypt", !.session = session])
  /\ UNCHANGED <<files, manifest, config>>

StaleOf(r, s) == {t \in r.stale : Source(r.plans, t) = s}

(* A slip: the loops go on before the outputs of what failed are purged.   *)
DecryptingOn(r) == r.pc = "decrypt" /\ r.work = {}

(* The next source may be decrypted.                                       *)
Decrypting(r) == r.pc = "decrypt" /\ r.work = {} /\ r.doomed = {}

(* decrypt_pending, with the file key of the session or the identities of  *)
(* all the source's consumers, on the bytes phase 1 read.                  *)
DecryptSource(p) ==
  LET r == run[p] IN
  /\ Decrypting(r)
  /\ \E s \in Pending(r) :
       /\ Decrypts(r.bytes[s], Openers(r, s))
       /\ Goto(p, [r EXCEPT !.work  = StaleOf(r, s),
                            !.stale = @ \ StaleOf(r, s)])
  /\ UNCHANGED storeVars

(* No identity opens the source, or the token, an identity file or the     *)
(* plugin fails: every stale consumer fails.                               *)
DecryptFails(p) ==
  LET r == run[p] IN
  /\ Decrypting(r)
  /\ \E s \in Pending(r) :
       /\ IF Decrypts(r.bytes[s], Openers(r, s))
          THEN Fault ELSE UNCHANGED events
       /\ Goto(p, [r EXCEPT !.stale  = @ \ StaleOf(r, s),
                            !.doomed = StaleOf(r, s),
                            !.failed = @ \cup StaleOf(r, s)])
  /\ UNCHANGED <<files, manifest, config>>

(* A slip: the fingerprint is taken of the source file as it is now, not   *)
(* of the bytes that were decrypted.                                       *)
FanOutRehashing(p) ==
  LET r == run[p] IN
  /\ r.pc = "decrypt" /\ r.doomed = {}
  /\ \E t \in r.work :
       LET now    == files[Source(r.plans, t)]
           path   == Output(r.plans, t)
           host   == {r.plans[t[1]].host_pubkey}
           plain  == r.bytes[Source(r.plans, t)].plain
           cipher == Encrypt(plain, host) IN
       /\ now # Absent /\ NewCiphers(plain, host) # {}
       /\ files' = [files EXCEPT ![path] = cipher]
       /\ Goto(p, [r EXCEPT
            !.work  = @ \ {t},
            !.draft = WithEntry(@, t, Fingerprint(now, path, cipher))])
  /\ UNCHANGED <<manifest, config, events>>

(* fan_out_to_target: encrypt to the host, write the output, enter its     *)
(* fingerprint.                                                            *)
FanOut(p) ==
  LET r == run[p] IN
  /\ r.pc = "decrypt" /\ r.doomed = {}
  /\ \E t \in r.work :
       LET source == r.bytes[Source(r.plans, t)]
           path   == Output(r.plans, t)
           host   == {r.plans[t[1]].host_pubkey}
           cipher == Encrypt(source.plain, host) IN
       /\ NewCiphers(source.plain, host) # {}
       /\ files' = [files EXCEPT ![path] = cipher]
       /\ Goto(p, [r EXCEPT
            !.work  = @ \ {t},
            !.draft = WithEntry(@, t, Fingerprint(source, path, cipher))])
  /\ UNCHANGED <<manifest, config, events>>

(* The encryption or the write fails; a write that fails when syncing the  *)
(* directory has already replaced the output.                              *)
FanOutFails(p) ==
  LET r == run[p] IN
  /\ r.pc = "decrypt" /\ r.doomed = {}
  /\ Fault
  /\ \E t \in r.work :
       LET plain == r.bytes[Source(r.plans, t)].plain
           path  == Output(r.plans, t)
           host  == {r.plans[t[1]].host_pubkey} IN
       /\ \/ files' = files
          \/ /\ NewCiphers(plain, host) # {}
             /\ files' = [files EXCEPT ![path] = Encrypt(plain, host)]
       /\ Goto(p, [r EXCEPT !.work   = @ \ {t},
                            !.doomed = {t},
                            !.failed = @ \cup {t}])
  /\ UNCHANGED <<manifest, config>>

-----------------------------------------------------------------------------
(* record_secret_failure *)

(* A slip: the secret's source is deleted in place of its output.          *)
PurgeRekeyFile(p) ==
  LET r == run[p] IN
  /\ \E t \in r.doomed :
       /\ files' = [files EXCEPT ![Source(r.plans, t)] = Absent]
       /\ Goto(p, [r EXCEPT !.doomed = @ \ {t}])
  /\ UNCHANGED <<manifest, config, events>>

PurgeOutput(p) ==
  LET r == run[p] IN
  /\ \E t \in r.doomed :
       /\ files' = [files EXCEPT ![Output(r.plans, t)] = Absent]
       /\ Goto(p, [r EXCEPT !.doomed = @ \ {t}])
  /\ UNCHANGED <<manifest, config, events>>

PurgeFails(p) ==
  LET r == run[p] IN
  /\ Fault
  /\ \E t \in r.doomed :
       /\ files[Output(r.plans, t)] # Absent
       /\ Goto(p, [r EXCEPT !.doomed = @ \ {t},
                            !.left   = @ \cup {t}])
  /\ UNCHANGED <<files, manifest, config>>

(* All sources are done.  An output that could not be purged refuses the   *)
(* commit; otherwise the plans' directories are swept.                     *)
EndFanOut(p) ==
  LET r == run[p] IN
  /\ Decrypting(r) /\ r.stale = {}
  /\ IF r.left = {}
     THEN Goto(p, [r EXCEPT !.pc = "sweep", !.unswept = Planned(r.plans)])
     ELSE Return(p, "error")
  /\ UNCHANGED storeVars

RekeyStep(p) ==
  \/ LoadRekey(p)
  \/ ReadSource(p)
  \/ UnreadableSource(p)
  \/ ClassifyTarget(p)
  \/ EndClassify(p)
  \/ DecryptSource(p)
  \/ DecryptFails(p)
  \/ FanOut(p)
  \/ FanOutFails(p)
  \/ PurgeOutput(p)
  \/ PurgeFails(p)
  \/ EndFanOut(p)

=============================================================================
