---------------------------------- MODULE Gc ---------------------------------
(***************************************************************************)
(* tombkey gc (src/ops/gc.rs): forget the manifest entries of secrets the  *)
(* plans no longer have and the seals of sources they no longer consume,   *)
(* sweep orphan outputs, then commit - the sweep first, so that its        *)
(* failure leaves the manifest as it was.                                  *)
(***************************************************************************)
EXTENDS Run

(* A slip: only names that every host has are live.                        *)
LiveEverywhere(plans, h) ==
  {n \in Name : \A g \in Planned(plans) : <<g, n>> \in Targets(plans)}

(* The names a host's plan has.                                            *)
Live(plans, h) == {n \in Name : <<h, n>> \in Targets(plans)}

Pruned(m, plans) ==
  [hosts |->
     [h \in Host |->
        IF plans[h] # None /\ m.hosts[h] # None
        THEN [m.hosts[h] EXCEPT
                !.secrets = [n \in Name |-> IF n \in Live(plans, h)
                                            THEN m.hosts[h].secrets[n]
                                            ELSE None]]
        ELSE m.hosts[h]],
   sources |->
     [s \in Path |-> IF s \in Sources(plans) THEN m.sources[s] ELSE None]]

LoadGc(p) ==
  LET r == run[p] IN
  /\ r.pc = "load" /\ r.cmd = "gc"
  /\ Goto(p, [r EXCEPT !.pc      = "sweep",
                       !.loaded  = manifest,
                       !.draft   = Pruned(manifest, r.plans),
                       !.unswept = Planned(r.plans)])
  /\ UNCHANGED storeVars

=============================================================================
