-------------------------------- MODULE PluginPath -----------------------------
(***************************************************************************)
(* $PATH over the life of a command: the guards of src/age/plugin.rs that  *)
(* put the plans' plugin directories in front of it, and the calls of age  *)
(* that look for plugins there (age/decrypt.rs, age/encrypt.rs).  edit and *)
(* view install the directories of one plan, rekey and reseal those of     *)
(* all; edit hands over from the one to the other.                         *)
(*                                                                         *)
(* The order of directories is left out: it decides which of two builds of *)
(* a plugin is run, not whether there is one.                              *)
(***************************************************************************)
EXTENDS Naturals, Sequences

CONSTANTS
  Dir,      \* directories
  Plugin,   \* age plugins, by name
  Ships,    \* Ships[d], the plugins found in a directory
  Source,   \* sources
  Inputs,   \* the sequences of plans considered
  Homes,    \* what $PATH is set to at first, as sets of directories
  Unset     \* no $PATH at all

Plan ==
  [age_plugins : SUBSET Dir,   \* directories with plugins
   masters : SUBSET Plugin,    \* plugins its master identities need
   host : SUBSET Plugin,       \* plugins its host key needs
   sources : SUBSET Source]

ASSUME PathAssumption ==
  /\ Ships \in [Dir -> SUBSET Plugin]
  /\ \A h \in Homes : h = Unset \/ h \subseteq Dir
  /\ \A dirs \in SUBSET Dir : Unset # dirs
  /\ Inputs \subseteq Seq(Plan) \ {<<>>}

VARIABLES
  plans, cmd,   \* as given
  home,         \* $PATH as the user has it
  path,         \* $PATH
  guards,       \* the guards that live: what each restores, oldest first
  pc,           \* the step of the command
  secret,       \* the source that is edited or viewed
  canonical,    \* the plan load_canonical_plaintext settled on
  lacked        \* history: the last call of age did not find a plugin

vars == <<plans, cmd, home, path, guards, pc, secret, canonical, lacked>>
given == <<plans, cmd, home, secret, canonical>>

(* Every variable has its type; no two guards live at once.                *)
TypeOK ==
  /\ plans \in Inputs /\ cmd \in {"rekey", "reseal", "edit", "view"}
  /\ home \in Homes
  /\ path = Unset \/ path \subseteq Dir
  /\ guards = <<>> \/ guards = <<home>>
  /\ pc \in {"start", "decrypt", "editor", "encrypt", "hand over", "install",
             "work", "return", "done"}
  /\ secret \in Source
  /\ canonical \in DOMAIN plans
  /\ lacked \in BOOLEAN

(* "Same source = same master set" (src/ops/mod.rs).                       *)
Consistent ==
  \A k, l \in DOMAIN plans :
    plans[k].sources \cap plans[l].sources # {} => plans[k].masters = plans[l].masters

Init ==
  /\ plans \in Inputs /\ Consistent
  /\ cmd \in {"rekey", "reseal", "edit", "view"}
  /\ home \in Homes /\ path = home
  /\ guards = <<>>
  /\ pc = IF cmd \in {"edit", "view"} THEN "start" ELSE "install"
  /\ secret \in Source /\ canonical = 1
  /\ lacked = FALSE

-----------------------------------------------------------------------------
(* Guards, and the calls of age *)

(* A slip: the directories replace what was there.                         *)
InPlaceOf(dirs, p) == IF dirs = {} THEN p ELSE dirs

InFrontOf(dirs, p) == IF dirs = {} \/ p = Unset THEN dirs ELSE dirs \cup p

(* PluginPath::install, which leaves $PATH alone when there are none.      *)
InstallGuard(dirs) ==
  /\ guards' = Append(guards, path)
  /\ path' = IF dirs = {} THEN path ELSE InFrontOf(dirs, path)

(* PluginPath::drop, innermost first.                                      *)
DropGuards == 
  /\ path' = IF guards = <<>> THEN path ELSE guards[1]
  /\ guards' = <<>>

Found(plugin) == \E d \in Dir : plugin \in Ships[d] /\ path # Unset /\ d \in path

(* A call of age with identities or recipients that need these plugins:    *)
(* one that is not found is an error.                                      *)
Call(plugins) ==
  /\ lacked' = \E p \in plugins : ~Found(p)
  /\ UNCHANGED <<given, path, guards>>

(* identities_from_files, with the masters of one plan, to decrypt.        *)
LoadIdentities(k) == Call(plans[k].masters)

(* The next step, unless the last was an error, which ends the command.    *)
Goto(from, next) == pc = from /\ pc' = IF lacked' THEN "return" ELSE next

(* Any step may fail for a reason of its own.                              *)
Fails ==
  /\ pc \notin {"return", "done"}
  /\ pc' = "return"
  /\ UNCHANGED <<given, path, guards, lacked>>

-----------------------------------------------------------------------------
(* edit and view *)

(* load_canonical_plaintext works with the first plan that has the source, *)
(* or with the first of all.                                               *)
Consumers == {k \in DOMAIN plans : secret \in plans[k].sources}

LoadCanonical ==
  /\ pc = "start" /\ pc' = "decrypt"
  /\ \/ canonical' \in Consumers /\ \A k \in Consumers : canonical' <= k
     \/ canonical' = 1 /\ Consumers = {}
  /\ InstallGuard(plans[canonical'].age_plugins)
  /\ UNCHANGED <<plans, cmd, home, secret, lacked>>

(* edit does not decrypt a source that is still to be created.             *)
Decrypt ==
  /\ LoadIdentities(canonical) \/ (cmd = "edit" /\ Call({}))
  /\ Goto("decrypt", IF cmd = "edit" THEN "editor" ELSE "return")

Modified ==
  /\ pc = "editor" /\ pc' = "encrypt"
  /\ UNCHANGED <<given, path, guards, lacked>>

Encrypt == Call(plans[canonical].masters) /\ Goto("encrypt", "hand over")

(* A slip: the guard of the one plan lives on during the rekey.            *)
HandOverBoth ==
  /\ pc = "hand over" /\ pc' = "install"
  /\ UNCHANGED <<given, path, guards, lacked>>

(* drop(plugin_guard), before rekey.                                       *)
HandOver ==
  /\ pc = "hand over" /\ pc' = "install"
  /\ DropGuards
  /\ UNCHANGED <<given, lacked>>

-----------------------------------------------------------------------------
(* rekey and reseal *)

(* A slip: the directories of the first plan.                              *)
FirstDirs == plans[1].age_plugins

AllDirs == UNION {plans[k].age_plugins : k \in DOMAIN plans}

(* install_plugin_paths.                                                   *)
Install ==
  /\ pc = "install" /\ pc' = "work"
  /\ InstallGuard(AllDirs)
  /\ UNCHANGED <<given, lacked>>

(* One source or target: decrypted with the masters of its consumers,      *)
(* encrypted to them or to the host.  A failure is that target's alone.    *)
Work ==
  /\ pc = "work"
  /\ \E k \in DOMAIN plans :
       \/ LoadIdentities(k)
       \/ Call(IF cmd = "reseal" THEN plans[k].masters ELSE plans[k].host)
  /\ UNCHANGED pc

WorkDone ==
  /\ pc = "work" /\ pc' = "return"
  /\ UNCHANGED <<given, path, guards, lacked>>

Return ==
  /\ pc = "return" /\ pc' = "done"
  /\ DropGuards
  /\ UNCHANGED <<given, lacked>>

Next ==
  \/ LoadCanonical \/ Decrypt \/ Modified \/ Encrypt \/ HandOver
  \/ Install \/ Work \/ WorkDone
  \/ Fails \/ Return

Spec == Init /\ [][Next]_vars

-----------------------------------------------------------------------------
(* What it promises *)

Shipped(dirs) == UNION {Ships[d] : d \in dirs}

(* When each plan brings the plugins of its own keys, no call of age lacks *)
(* one: not for a source shared by several hosts, not for one of nobody,   *)
(* and not across the change from one plan's plugins to those of all.      *)
PluginsAtHand ==
  (\A k \in DOMAIN plans :
     plans[k].masters \cup plans[k].host \subseteq Shipped(plans[k].age_plugins))
  => ~lacked

(* What the user has on $PATH - the editor, for one - is found throughout, *)
(* and $PATH is what it was when the command returns.                      *)
PathIsKept ==
  /\ home # Unset => home \subseteq path
  /\ pc = "done" => path = home

=============================================================================
