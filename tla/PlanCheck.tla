------------------------------- MODULE PlanCheck -------------------------------
(***************************************************************************)
(* What a command does with its plans before it touches a file:            *)
(* Plan::validate on each as it is loaded, Plan::validate_set on all of    *)
(* them, validate_source_master_consistency (src/plan.rs, src/ops/mod.rs), *)
(* and, for edit and view, finding the plan of the secret that was named.  *)
(* Store states what passes as conditions on files; here are the loops     *)
(* over hash sets of paths that have to establish it.                      *)
(*                                                                         *)
(* A path is spelled as the sequence of what stands between its slashes: a *)
(* name, ".", ".." or "" (a doubled or trailing slash); a leading "/"      *)
(* makes it absolute.  No component is a symbolic link.                    *)
(***************************************************************************)
EXTENDS Naturals, SequencesExt

CONSTANTS
  Inputs,     \* the sequences of plans considered
  Command,    \* the commands considered
  UserPaths,  \* the paths people name to edit or view
  Nobody      \* no plan was chosen

FilePath == Seq(STRING)

SecretEntry == [name : STRING, rekey_file : FilePath, output_file : FilePath]

Plan == [host_label        : STRING,
         master_identities : SUBSET STRING,
         local_storage_dir : FilePath,
         manifest_file     : FilePath,
         secrets           : Seq(SecretEntry)]

(* Plans are what serde makes of the --plan files.                         *)
ASSUME InputAssumption == Inputs \subseteq Seq(Plan)

VARIABLES
  plans,      \* as given with --plan
  cmd,        \* the command
  pc,         \* the check in hand, or its result
  i, j,       \* the plan and the secret the loop is at
  names,      \* secret names of this plan seen so far
  labels,     \* host labels seen so far
  outputs,    \* outputs seen so far: of this plan, then of all
  anchors,    \* the masters that each source seen so far has
  asked,      \* the path that was looked up, and whether there is a file
  chosen      \* the plan whose masters edit and view use

vars == <<plans, cmd, pc, i, j, names, labels, outputs, anchors, asked, chosen>>

-----------------------------------------------------------------------------
(* Paths *)

(* The parts of a path that are no names: std::path::Component.            *)
RootDir == "/"
ParentDir == ".."
CurDir == "."
EmptyPart == ""

(* Path::components: all but a leading "." and empty parts are dropped.    *)
(* Paths are equal, and have equal hashes, when their components are.      *)
Components(p) ==
  LET kept[k \in 0 .. Len(p)] ==
        IF k = 0 THEN <<>>
        ELSE IF k > 1 /\ p[k] \in {EmptyPart, CurDir} THEN kept[k - 1]
        ELSE Append(kept[k - 1], p[k])
  IN kept[Len(p)]

(* A slip: parent directories are let through.                             *)
RejectsAbsolute(p) == Components(p) # p \/ Contains(p, RootDir) \/ Contains(p, CurDir)

(* reject_traversal: only relative paths made of names, spelled plainly.   *)
RejectTraversal(p) ==
  \/ \E c \in {RootDir, ParentDir, CurDir} : Contains(Components(p), c)
  \/ Components(p) # p

(* Path::starts_with, by components.                                       *)
StartsWith(p, q) == IsPrefix(Components(q), Components(p))

(* The file that a path leads to, from the root of the repository.         *)
Enter(dir, c) ==
  CASE c = CurDir    -> dir
    [] c = ParentDir -> IF dir = <<>> \/ Last(dir) = ParentDir
                        THEN Append(dir, c) ELSE Front(dir)
    [] OTHER         -> Append(dir, c)

Denotes(p) ==
  LET c == Components(p)
      dir[k \in 0 .. Len(c)] == IF k = 0 THEN <<>> ELSE Enter(dir[k - 1], c[k])
  IN dir[Len(c)]

-----------------------------------------------------------------------------
(* The checks *)

Init ==
  /\ plans \in Inputs /\ cmd \in Command
  /\ pc = IF plans = <<>> THEN "rejected" ELSE "header"
  /\ i = 1 /\ j = 1
  /\ names = {} /\ labels = {} /\ outputs = {}
  /\ anchors = <<>>
  /\ asked = <<>> /\ chosen = Nobody

PlanNow == plans[i]
Secret == PlanNow.secrets[j]
AtSecret == j <= Len(PlanNow.secrets)

(* One test: the command ends with an error, or goes on at next.           *)
Check(ok, next) == pc' = IF ok THEN next ELSE "rejected"

(* A slip: names are not to be used again by another host.                 *)
KeptNames == names

FreshNames == {}

(* Plan::validate, up to its loop.                                         *)
ValidateHeader ==
  /\ pc = "header"
  /\ Check(/\ PlanNow.master_identities # {}
           /\ ~RejectTraversal(PlanNow.local_storage_dir)
           /\ ~RejectTraversal(PlanNow.manifest_file), "secret")
  /\ names' = FreshNames /\ outputs' = {}
  /\ UNCHANGED <<plans, cmd, i, j, labels, anchors, asked, chosen>>

(* The loop over the secrets of one plan.                                  *)
ValidateSecret ==
  /\ pc = "secret" /\ AtSecret
  /\ Check(/\ Secret.name \notin names
           /\ Components(Secret.output_file) \notin outputs
           /\ Components(Secret.output_file) # Components(Secret.rekey_file)
           /\ ~RejectTraversal(Secret.rekey_file)
           /\ ~RejectTraversal(Secret.output_file)
           /\ StartsWith(Secret.output_file, PlanNow.local_storage_dir), "secret")
  /\ names' = names \cup {Secret.name}
  /\ outputs' = outputs \cup {Components(Secret.output_file)}
  /\ j' = j + 1
  /\ UNCHANGED <<plans, cmd, i, labels, anchors, asked, chosen>>

(* Plan::validate_set: a label, then the outputs of its plan.              *)
CheckLabel ==
  /\ pc = "label"
  /\ Check(PlanNow.host_label \notin labels, "output")
  /\ labels' = labels \cup {PlanNow.host_label}
  /\ UNCHANGED <<plans, cmd, i, j, names, outputs, anchors, asked, chosen>>

CheckOutput ==
  /\ pc = "output" /\ AtSecret
  /\ Check(Components(Secret.output_file) \notin outputs, "output")
  /\ outputs' = outputs \cup {Components(Secret.output_file)}
  /\ j' = j + 1
  /\ UNCHANGED <<plans, cmd, i, names, labels, anchors, asked, chosen>>

(* A slip: only a later plan's directory is looked for above a former's.   *)
OverlapOneWay(p, q) == StartsWith(p.local_storage_dir, q.local_storage_dir)

Overlap(p, q) ==
  \/ StartsWith(p.local_storage_dir, q.local_storage_dir)
  \/ StartsWith(q.local_storage_dir, p.local_storage_dir)

(* One manifest for all, and no overlap; gc asks for no more than that.    *)
CheckSet ==
  /\ pc = "set"
  /\ Check(/\ \A k \in DOMAIN plans :
                Components(plans[k].manifest_file) = Components(plans[1].manifest_file)
           /\ \A k, l \in DOMAIN plans : k < l => ~Overlap(plans[k], plans[l]),
           IF cmd = "gc" THEN "accepted" ELSE "anchor")
  /\ UNCHANGED <<plans, cmd, i, j, names, labels, outputs, anchors, asked, chosen>>

(* validate_source_master_consistency: the first plan that uses a source   *)
(* sets its masters.                                                       *)
CheckAnchor ==
  LET source == Components(Secret.rekey_file)
      masters == PlanNow.master_identities IN
  /\ pc = "anchor" /\ AtSecret
  /\ Check(source \in DOMAIN anchors => anchors[source] = masters, "anchor")
  /\ anchors' = [s \in DOMAIN anchors \cup {source} |->
                  IF s \in DOMAIN anchors THEN anchors[s] ELSE masters]
  /\ j' = j + 1
  /\ UNCHANGED <<plans, cmd, i, names, labels, outputs, asked, chosen>>

(* A slip: the loop over the secrets goes on where it ended.               *)
GoOn == j

StartOver == 1

(* One plan is through: the next one has its turn, or the next check.      *)
NextPlan ==
  /\ pc \in {"secret", "output", "anchor"} /\ ~AtSecret
  /\ j' = StartOver
  /\ outputs' = IF pc = "secret" THEN {} ELSE outputs
  /\ IF i < Len(plans)
     THEN /\ i' = i + 1
          /\ pc' = CASE pc = "secret" -> "header"
                     [] pc = "output" -> "label"
                     [] OTHER         -> "anchor"
     ELSE /\ i' = 1
          /\ pc' = CASE pc = "secret" -> "label"
                     [] pc = "output" -> "set"
                     [] OTHER         -> "accepted"
  /\ UNCHANGED <<plans, cmd, names, labels, anchors, asked, chosen>>

-----------------------------------------------------------------------------
(* The plan of a secret that is named on the command line *)

(* A slip: the path is taken as it is spelled.                             *)
AsSpelled(p, exists) == Components(p)

(* normalize_secret_path: canonicalize needs the file to be there; without *)
(* it the path joined to the root, less its "."s, is all there is.         *)
Normalize(p, exists) ==
  IF exists THEN Denotes(p) ELSE SelectSeq(Components(p), LAMBDA c : c # CurDir)

(* plan_consuming: the first plan with that source, or else the first.     *)
PlanConsuming(path) ==
  LET consuming == {k \in DOMAIN plans : \E n \in DOMAIN plans[k].secrets :
                      Components(plans[k].secrets[n].rekey_file) = path} IN
  IF consuming = {} THEN 1
  ELSE CHOOSE k \in consuming : \A l \in consuming : k <= l

LookUp(p, exists) ==
  /\ pc = "accepted" /\ cmd = "edit"
  /\ pc' = "opened"
  /\ asked' = <<p, exists>>
  /\ chosen' = PlanConsuming(Normalize(p, exists))
  /\ UNCHANGED <<plans, cmd, i, j, names, labels, outputs, anchors>>

Next ==
  \/ ValidateHeader \/ ValidateSecret
  \/ CheckLabel \/ CheckOutput \/ CheckSet \/ CheckAnchor
  \/ NextPlan
  \/ \E p \in UserPaths, exists \in BOOLEAN : LookUp(p, exists)

Spec == Init /\ [][Next]_vars

-----------------------------------------------------------------------------
(* What it promises *)

(* Every variable has its type; the loops stay within the plans.           *)
TypeOK ==
  /\ cmd \in Command
  /\ pc \in {"header", "secret", "label", "output", "set", "anchor",
             "accepted", "rejected", "opened"}
  /\ plans # <<>> => i \in DOMAIN plans /\ j \in 1 .. Len(PlanNow.secrets) + 1
  /\ chosen \in DOMAIN plans \cup {Nobody}

(* All secrets of all plans, <<plan, secret>>.                             *)
Targets == UNION {{k} \X DOMAIN plans[k].secrets : k \in DOMAIN plans}

PlanOf(t) == plans[t[1]]
SecretOf(t) == plans[t[1]].secrets[t[2]]
SourceFile(t) == Denotes(SecretOf(t).rekey_file)
OutputFile(t) == Denotes(SecretOf(t).output_file)
Directory(k) == Denotes(plans[k].local_storage_dir)

(* A path that leads to a file of the repository.                          *)
Inside(file) == file = <<>> \/ Head(file) \notin {RootDir, ParentDir}

(* What Store demands of plans, on the files that the paths lead to.       *)
Sound ==
  /\ plans # <<>>
  /\ \A k, l \in DOMAIN plans : k # l =>
       /\ plans[k].host_label # plans[l].host_label
       /\ Denotes(plans[k].manifest_file) = Denotes(plans[l].manifest_file)
       /\ ~IsPrefix(Directory(k), Directory(l))
  /\ \A k \in DOMAIN plans : /\ plans[k].master_identities # {}
                             /\ Inside(Denotes(plans[k].manifest_file))
  /\ \A t \in Targets :
       /\ Inside(SourceFile(t)) /\ Inside(OutputFile(t))
       /\ OutputFile(t) # SourceFile(t)
       /\ IsPrefix(Directory(t[1]), OutputFile(t))
  /\ \A t, u \in Targets : t # u =>
       /\ OutputFile(t) # OutputFile(u)
       /\ t[1] = u[1] => SecretOf(t).name # SecretOf(u).name

MastersAgree ==
  \A t, u \in Targets : SourceFile(t) = SourceFile(u)
    => PlanOf(t).master_identities = PlanOf(u).master_identities

(* Plans that pass the checks keep hosts, outputs, directories and sources *)
(* apart as files, not only as spellings.                                  *)
AcceptedIsSound ==
  pc \in {"accepted", "opened"} => Sound /\ (cmd # "gc" => MastersAgree)

(* Every path of every plan is a sequence of names.                        *)
Plainly(p) == \A c \in Range(p) : c \notin {RootDir, ParentDir, CurDir, EmptyPart}

SpelledPlainly ==
  /\ \A k \in DOMAIN plans : /\ Plainly(plans[k].local_storage_dir)
                             /\ Plainly(plans[k].manifest_file)
  /\ \A t \in Targets : /\ Plainly(SecretOf(t).rekey_file)
                        /\ Plainly(SecretOf(t).output_file)

(* Plans are turned down only for a cause: one of the conditions fails, or *)
(* a path is not spelled the way the Nix module spells it.                 *)
RejectedForCause ==
  pc = "rejected" => ~(Sound /\ (cmd # "gc" => MastersAgree) /\ SpelledPlainly)

(* The masters of those who use the file that was asked for.               *)
FoundItsMasters ==
  \A t \in Targets : SourceFile(t) = Denotes(asked[1])
    => plans[chosen].master_identities = PlanOf(t).master_identities

(* However it is spelled, a file that is there is edited with the masters  *)
(* of the hosts that use it.                                               *)
EditFindsMasters == pc = "opened" /\ asked[2] => FoundItsMasters

(* And one that is still to be created ("Normalize a user-provided secret  *)
(* path for plan lookup", src/ops/mod.rs).                                 *)
EditFindsMastersOfNew == pc = "opened" /\ ~asked[2] => FoundItsMasters

=============================================================================
