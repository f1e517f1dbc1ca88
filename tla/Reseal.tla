-------------------------------- MODULE Reseal -------------------------------
(***************************************************************************)
(* tombkey reseal (src/ops/reseal.rs): re-encrypt every source to the      *)
(* masters its consumers declare now, once per source, and record what it  *)
(* was sealed to.  All sources are read before the first is decrypted, so  *)
(* what is written back is the plaintext of bytes read earlier.            *)
(***************************************************************************)
EXTENDS Run

LoadReseal(p) ==
  LET r == run[p] IN
  /\ r.pc = "load" /\ r.cmd \in {"reseal", "reseal --force"}
  /\ Goto(p, [r EXCEPT !.pc     = "prepare",
                       !.loaded = manifest,
                       !.draft  = manifest,
                       !.unread = Sources(r.plans)])
  /\ UNCHANGED storeVars

(* Read one source; unless forced, pass over it when its last recorded     *)
(* seal still holds.                                                       *)
PrepareSource(p) ==
  LET r == run[p] IN
  /\ r.pc = "prepare"
  /\ \E s \in r.unread :
       LET masters == MastersOf(r.plans, s)
           skip    == /\ r.cmd = "reseal"
                      /\ SealMatches(r.loaded, s, files[s], masters) IN
       /\ files[s] # Absent
       /\ Goto(p, [r EXCEPT !.unread   = @ \ {s},
                            !.bytes[s] = files[s],
                            !.prepared = IF skip THEN @ ELSE @ \cup {s}])
  /\ UNCHANGED storeVars

UnpreparedSource(p) ==
  LET r == run[p] IN
  /\ r.pc = "prepare"
  /\ \E s \in r.unread :
       /\ \/ files[s] = Absent /\ UNCHANGED events
          \/ files[s] # Absent /\ Fault
       /\ Goto(p, [r EXCEPT !.unread   = @ \ {s},
                            !.unsealed = @ \cup {s}])
  /\ UNCHANGED <<files, manifest, config>>

EndPrepare(p) ==
  LET r == run[p] IN
  /\ r.pc = "prepare" /\ r.unread = {}
  /\ \E session \in SUBSET PluginKey :
       /\ OpenSession(SessionKeys(r.plans, r.prepared), session)
       /\ Goto(p, [r EXCEPT !.pc = "reseal", !.session = session])
  /\ UNCHANGED <<files, manifest, config>>

(* reseal_source: decrypt the bytes read, encrypt to the masters, write    *)
(* the source, enter the seal.                                             *)
ResealSource(p) ==
  LET r == run[p] IN
  /\ r.pc = "reseal"
  /\ \E s \in r.prepared :
       LET masters == MastersOf(r.plans, s)
           plain   == r.bytes[s].plain
           cipher  == Encrypt(plain, masters) IN
       /\ Decrypts(r.bytes[s], Openers(r, s))
       /\ NewCiphers(plain, masters) # {}
       /\ files' = [files EXCEPT ![s] = cipher]
       /\ Goto(p, [r EXCEPT !.prepared = @ \ {s},
                            !.draft    = WithSeal(@, s, cipher, masters)])
  /\ UNCHANGED <<manifest, config, events>>

(* The source does not decrypt, or decrypting, encrypting or writing it    *)
(* fails; a write that fails when syncing the directory has replaced it.   *)
ResealFails(p) ==
  LET r == run[p] IN
  /\ r.pc = "reseal"
  /\ \E s \in r.prepared :
       LET masters == MastersOf(r.plans, s)
           plain   == r.bytes[s].plain IN
       /\ \/ /\ ~Decrypts(r.bytes[s], Openers(r, s))
             /\ UNCHANGED <<files, events>>
          \/ /\ Decrypts(r.bytes[s], Openers(r, s))
             /\ Fault
             /\ \/ files' = files
                \/ /\ NewCiphers(plain, masters) # {}
                   /\ files' = [files EXCEPT ![s] = Encrypt(plain, masters)]
       /\ Goto(p, [r EXCEPT !.prepared = @ \ {s},
                            !.unsealed = @ \cup {s}])
  /\ UNCHANGED <<manifest, config>>

EndReseal(p) ==
  LET r == run[p] IN
  /\ r.pc = "reseal" /\ r.prepared = {}
  /\ Goto(p, [r EXCEPT !.pc = "commit"])
  /\ UNCHANGED storeVars

ResealStep(p) ==
  \/ LoadReseal(p)
  \/ PrepareSource(p)
  \/ UnpreparedSource(p)
  \/ EndPrepare(p)
  \/ ResealSource(p)
  \/ ResealFails(p)
  \/ EndReseal(p)

=============================================================================
