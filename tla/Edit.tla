---------------------------------- MODULE Edit ---------------------------------
(***************************************************************************)
(* tombkey edit and view (src/ops/edit.rs, src/ops/view.rs): decrypt one   *)
(* source, let the user edit the plaintext, write it back encrypted to its *)
(* masters, then rekey - the whole of it, in the same process and with the *)
(* plans it was started with.  Between the read and the write lies as much *)
(* time as the user takes, and nothing holds the source meanwhile.         *)
(*                                                                         *)
(* What happens while the editor runs, signals included, is the subject of *)
(* the module Editor; here it is one step with its three outcomes.         *)
(***************************************************************************)
EXTENDS Run

CONSTANTS
  Editable,   \* the paths that people name on the command line
  Empty       \* the empty plaintext, staged for a source that does not exist

ASSUME EditAssumption == Editable \subseteq Path /\ Empty \in Plain

(* A slip: the first plan's masters, whether or not it uses the source.    *)
CanonicalOfAnyPlan(plans, s) == Planned(plans)

(* plan_consuming: a host that consumes s - any of them, for they agree on *)
(* its masters - or, when there is none, any host.                         *)
Canonical(plans, s) ==
  IF Consumers(plans, s) # {} THEN {t[1] : t \in Consumers(plans, s)}
                              ELSE Planned(plans)

(* load_canonical_plaintext for edit: the source is decrypted with the     *)
(* identities of the canonical plan; one that does not exist is staged as  *)
(* an empty secret.                                                        *)
LoadEdit(p) ==
  LET r == run[p] IN
  /\ r.pc = "load" /\ r.cmd = "edit"
  /\ \E s \in Editable : \E h \in Canonical(r.plans, s) :
       LET masters == r.plans[h].master_identities IN
       /\ files[s] # Absent => Decrypts(files[s], masters)
       /\ Goto(p, [r EXCEPT
            !.pc      = "edit",
            !.secret  = s,
            !.staged  = IF files[s] = Absent THEN Empty ELSE files[s].plain,
            !.masters = masters])
  /\ UNCHANGED storeVars

(* view: the same without an editor; the plaintext goes to stdout.         *)
View(p) ==
  LET r == run[p] IN
  /\ r.pc = "load" /\ r.cmd = "view"
  /\ \E s \in Editable : \E h \in Canonical(r.plans, s) :
       Decrypts(files[s], r.plans[h].master_identities)
  /\ Return(p, "ok")
  /\ UNCHANGED storeVars

(* The source does not open, or is not there for view to show.             *)
SecretUnreadable(p) ==
  LET r == run[p] IN
  /\ r.pc = "load" /\ r.cmd \in {"edit", "view"}
  /\ \E s \in Editable : \E h \in Canonical(r.plans, s) :
       /\ files[s] = Absent => r.cmd = "view"
       /\ ~Decrypts(files[s], r.plans[h].master_identities)
  /\ Return(p, "error")
  /\ UNCHANGED storeVars

(* The editor leaves another plaintext behind.  Such an edit is an event:  *)
(* the bound on events is one on edits.                                    *)
EditorSaves(p) ==
  LET r == run[p] IN
  /\ r.pc = "edit"
  /\ Fault
  /\ \E plain \in Plain \ {r.staged} :
       Goto(p, [r EXCEPT !.pc = "save", !.staged = plain])
  /\ UNCHANGED <<files, manifest, config>>

(* It leaves the plaintext as it was, which ends the command without a     *)
(* rekey; or it fails, or a signal aborts the edit.                        *)
EditorGivesUp(p) ==
  /\ run[p].pc = "edit"
  /\ \E exit \in {"ok", "error"} : Return(p, exit)
  /\ UNCHANGED storeVars

(* The source is replaced, and the process goes on as a rekey.             *)
Save(p) ==
  LET r == run[p] IN
  /\ r.pc = "save"
  /\ NewCiphers(r.staged, r.masters) # {}
  /\ files' = [files EXCEPT ![r.secret] = Encrypt(r.staged, r.masters)]
  /\ Goto(p, [r EXCEPT !.pc = "load", !.cmd = "rekey"])
  /\ UNCHANGED <<manifest, config, events>>

(* Encrypting or writing fails; a write that fails when syncing the        *)
(* directory has replaced the source, and there is no rekey after it.      *)
SaveFails(p) ==
  LET r == run[p] IN
  /\ r.pc = "save"
  /\ Fault
  /\ \/ files' = files
     \/ /\ NewCiphers(r.staged, r.masters) # {}
        /\ files' = [files EXCEPT ![r.secret] = Encrypt(r.staged, r.masters)]
  /\ Return(p, "error")
  /\ UNCHANGED <<manifest, config>>

EditStep(p) ==
  \/ LoadEdit(p)
  \/ View(p)
  \/ SecretUnreadable(p)
  \/ EditorSaves(p)
  \/ EditorGivesUp(p)
  \/ Save(p)
  \/ SaveFails(p)

=============================================================================
