----------------------------- MODULE PluginPathProofs --------------------------
(***************************************************************************)
(* For any plans, directories and plugins: each plan's plugins are at hand *)
(* whenever its keys are used, and $PATH is only added to, and restored.   *)
(*                                                                         *)
(* The inductive invariant says what each step of a command can count on:  *)
(* before a guard is made $PATH is the user's; while one lives it is that  *)
(* of the user with the directories the step needs in front.               *)
(***************************************************************************)
EXTENDS PluginPath, TLAPS

(* The directories are on $PATH.                                           *)
Has(dirs) == dirs # {} => path # Unset /\ dirs \subseteq path

(* $PATH is the user's, or that with a guard that will restore it.         *)
Guarded ==
  /\ pc \in {"start", "install", "done"} => guards = <<>> /\ path = home
  /\ pc \in {"decrypt", "editor", "encrypt", "hand over", "work"} => guards = <<home>>
  /\ guards = <<>> => path = home
  /\ home # Unset => path # Unset /\ home \subseteq path

(* A step that calls age has the directories of the plans it works for.    *)
Equipped ==
  /\ pc \in {"decrypt", "editor", "encrypt"} => Has(plans[canonical].age_plugins)
  /\ pc = "work" => Has(AllDirs)

Inv == TypeOK /\ Guarded /\ Equipped /\ PluginsAtHand

-----------------------------------------------------------------------------

(* Every list of plans has a first one, and all are plans.                 *)
LEMMA PlansAreMany ==
  ASSUME plans \in Inputs
  PROVE  /\ 1 \in DOMAIN plans
         /\ \A k \in DOMAIN plans : plans[k] \in Plan
<1>1. plans \in Seq(Plan) /\ plans # <<>>
  BY PathAssumption
<1> QED
  BY <1>1

(* Directories that are put in front of $PATH are on it, with all that was *)
(* there.                                                                  *)
LEMMA InFront ==
  ASSUME NEW dirs \in SUBSET Dir, path = Unset \/ path \subseteq Dir,
         guards = <<>>, path = home, InstallGuard(dirs)
  PROVE  /\ guards' = <<home>>
         /\ path' = Unset \/ path' \subseteq Dir
         /\ dirs # {} => path' # Unset /\ dirs \subseteq path'
         /\ home # Unset => path' # Unset /\ home \subseteq path'
<1>1. guards' = <<home>>
  BY DEF InstallGuard
<1>2. CASE dirs = {}
  BY <1>1, <1>2 DEF InstallGuard, Has
<1>3. CASE dirs # {} /\ path = Unset
  BY <1>1, <1>3, PathAssumption DEF InstallGuard, InFrontOf, Has
<1>4. CASE dirs # {} /\ path # Unset
  <2>1. path' = dirs \cup path /\ path \subseteq Dir
    BY <1>4 DEF InstallGuard, InFrontOf
  <2>2. path' # Unset
    BY <2>1, PathAssumption
  <2> QED
    BY <1>1, <2>1, <2>2 DEF Has
<1> QED
  BY <1>2, <1>3, <1>4

(* A call finds its plugins when directories that ship them are on $PATH.  *)
LEMMA CallFinds ==
  ASSUME NEW plugins, NEW dirs \in SUBSET Dir, Has(dirs),
         plugins \subseteq Shipped(dirs), Call(plugins)
  PROVE  ~lacked'
<1>1. ASSUME NEW p \in plugins PROVE Found(p)
  <2>1. PICK d \in dirs : p \in Ships[d]
    BY <1>1 DEF Shipped
  <2> QED
    BY <2>1 DEF Found, Has
<1> QED
  BY <1>1 DEF Call

(* The initial states satisfy the invariant.                               *)
LEMMA InitInv == Init => Inv
<1> SUFFICES ASSUME Init PROVE Inv
  OBVIOUS
<1>1. 1 \in DOMAIN plans
  BY PlansAreMany DEF Init
<1>2. home = Unset \/ home \subseteq Dir
  BY PathAssumption DEF Init
<1>3. home # Unset => path # Unset /\ home \subseteq path
  BY DEF Init
<1> QED
  BY <1>1, <1>2, <1>3 DEF Init, Inv, TypeOK, Guarded, Equipped, PluginsAtHand

(* The plugins of the plans are shipped by the directories of all.         *)
LEMMA AllShipped ==
  ASSUME TypeOK
  PROVE  /\ AllDirs \subseteq Dir
         /\ \A k \in DOMAIN plans : Shipped(plans[k].age_plugins) \subseteq Shipped(AllDirs)
<1>1. \A k \in DOMAIN plans : plans[k].age_plugins \subseteq Dir
  BY PlansAreMany DEF TypeOK, Plan
<1> QED
  BY <1>1 DEF AllDirs, Shipped

(* Making a guard keeps the invariant: in edit and view,                   *)
LEMMA LoadCanonicalInv == Inv /\ LoadCanonical => Inv'
<1> SUFFICES ASSUME Inv, LoadCanonical PROVE Inv'
  OBVIOUS
<1> DEFINE dirs == plans[canonical'].age_plugins
<1>1. canonical' \in DOMAIN plans /\ dirs \in SUBSET Dir
  <2>1. canonical' \in DOMAIN plans
    BY PlansAreMany DEF LoadCanonical, Consumers, Inv, TypeOK
  <2> QED
    BY <2>1, PlansAreMany DEF Inv, TypeOK, Plan
<1>2. /\ guards = <<>> /\ path = home /\ (path = Unset \/ path \subseteq Dir)
      /\ pc' = "decrypt" /\ InstallGuard(dirs)
      /\ UNCHANGED <<plans, cmd, home, secret, lacked>>
  BY DEF LoadCanonical, Inv, TypeOK, Guarded
<1>3. /\ guards' = <<home>>
      /\ path' = Unset \/ path' \subseteq Dir
      /\ dirs # {} => path' # Unset /\ dirs \subseteq path'
      /\ home # Unset => path' # Unset /\ home \subseteq path'
  BY <1>1, <1>2, InFront
<1>4. guards' # <<>>
  BY <1>3
<1> QED
  BY <1>1, <1>2, <1>3, <1>4 DEF Inv, TypeOK, Guarded, Equipped, PluginsAtHand, Has

(* and in rekey and reseal.                                                *)
LEMMA InstallInv == Inv /\ Install => Inv'
<1> SUFFICES ASSUME Inv, Install PROVE Inv'
  OBVIOUS
<1>1. AllDirs \in SUBSET Dir /\ AllDirs' = AllDirs
  BY AllShipped DEF Inv, Install, given, AllDirs
<1>2. /\ guards = <<>> /\ path = home /\ (path = Unset \/ path \subseteq Dir)
      /\ pc' = "work" /\ InstallGuard(AllDirs)
      /\ UNCHANGED <<plans, cmd, home, secret, canonical, lacked>>
  BY DEF Install, Inv, TypeOK, Guarded, given
<1>3. /\ guards' = <<home>>
      /\ path' = Unset \/ path' \subseteq Dir
      /\ AllDirs # {} => path' # Unset /\ AllDirs \subseteq path'
      /\ home # Unset => path' # Unset /\ home \subseteq path'
  BY <1>1, <1>2, InFront
<1>4. guards' # <<>>
  BY <1>3
<1> QED
  BY <1>1, <1>2, <1>3, <1>4 DEF Inv, TypeOK, Guarded, Equipped, PluginsAtHand, Has

(* Dropping it does, too.                                                  *)
LEMMA DropGuardsInv ==
  ASSUME Inv, DropGuards, pc' \in {"install", "done"}, UNCHANGED <<given, lacked>>
  PROVE  Inv'
<1>1. path' = home /\ guards' = <<>>
  <2>1. CASE guards = <<>>
    BY <2>1 DEF Inv, Guarded, DropGuards
  <2>2. CASE guards = <<home>>
    BY <2>2 DEF DropGuards
  <2> QED
    BY <2>1, <2>2 DEF Inv, TypeOK
<1>2. home = Unset \/ home \subseteq Dir
  BY PathAssumption DEF Inv, TypeOK
<1> QED
  BY <1>1, <1>2 DEF Inv, TypeOK, Guarded, Equipped, PluginsAtHand, given

(* So does a call of age for a plan whose directories are on $PATH.        *)
LEMMA CallInv ==
  ASSUME Inv, NEW plugins, Call(plugins),
         pc \in {"decrypt", "encrypt", "work"},
         pc' \in {pc, "return"} \cup (IF pc = "work" THEN {} ELSE {"editor", "hand over"}),
         plugins = {} \/ \E k \in DOMAIN plans :
           /\ pc = "work" \/ k = canonical
           /\ plugins \subseteq plans[k].masters \cup plans[k].host
  PROVE  Inv'
<1>1. /\ UNCHANGED <<plans, cmd, home, secret, canonical, path, guards>>
      /\ lacked' \in BOOLEAN
  BY DEF Call, given
<1>2. PluginsAtHand'
  <2> SUFFICES ASSUME \A k \in DOMAIN plans :
                        plans[k].masters \cup plans[k].host
                          \subseteq Shipped(plans[k].age_plugins)
               PROVE  ~lacked'
    BY <1>1 DEF PluginsAtHand
  <2>1. CASE plugins = {}
    BY <2>1 DEF Call
  <2>2. CASE plugins # {}
    <3>1. PICK k \in DOMAIN plans :
            /\ pc = "work" \/ k = canonical
            /\ plugins \subseteq Shipped(plans[k].age_plugins)
      BY <2>2
    <3>2. CASE pc = "work"
      <4>1. AllDirs \in SUBSET Dir /\ plugins \subseteq Shipped(AllDirs)
        BY <3>1, AllShipped DEF Inv
      <4> QED
        BY <3>2, <4>1, CallFinds DEF Inv, Equipped
    <3>3. CASE pc # "work"
      <4>1. plans[k].age_plugins \in SUBSET Dir
        BY PlansAreMany DEF Inv, TypeOK, Plan
      <4>2. Has(plans[k].age_plugins)
        BY <3>1, <3>3 DEF Inv, Equipped
      <4> QED
        BY <3>1, <4>1, <4>2, CallFinds
    <3> QED
      BY <3>2, <3>3
  <2> QED
    BY <2>1, <2>2
<1>3. AllDirs' = AllDirs
  BY <1>1 DEF AllDirs
<1> QED
  BY <1>1, <1>2, <1>3 DEF Inv, TypeOK, Guarded, Equipped, Has

(* The invariant survives every step.                                      *)
LEMMA NextInv == Inv /\ [Next]_vars => Inv'
<1> SUFFICES ASSUME Inv, [Next]_vars PROVE Inv'
  OBVIOUS
<1>1. ASSUME UNCHANGED <<given, path, guards, lacked>>,
             \/ pc' = pc
             \/ pc = "editor" /\ pc' = "encrypt"
             \/ pc \notin {"return", "done"} /\ pc' = "return"
      PROVE  Inv'
  <2>1. AllDirs' = AllDirs
    BY <1>1 DEF AllDirs, given
  <2> QED
    BY <1>1, <2>1 DEF Inv, TypeOK, Guarded, Equipped, PluginsAtHand, Has, given
<1>2. CASE LoadCanonical
  BY <1>2, LoadCanonicalInv
<1>3. CASE Decrypt
  <2>1. pc = "decrypt" /\ pc' \in {"return", "editor"}
    BY <1>3 DEF Decrypt, Goto
  <2>2. canonical \in DOMAIN plans
    BY DEF Inv, TypeOK
  <2> QED
    BY <1>3, <2>1, <2>2, CallInv DEF Decrypt, LoadIdentities
<1>4. CASE Modified
  BY <1>1, <1>4 DEF Modified
<1>5. CASE Encrypt
  <2>1. pc = "encrypt" /\ pc' \in {"return", "hand over"}
    BY <1>5 DEF Encrypt, Goto
  <2>2. canonical \in DOMAIN plans
    BY DEF Inv, TypeOK
  <2> QED
    BY <1>5, <2>1, <2>2, CallInv DEF Encrypt
<1>6. CASE HandOver
  BY <1>6, DropGuardsInv DEF HandOver
<1>7. CASE Install
  BY <1>7, InstallInv
<1>8. CASE Work
  BY <1>8, CallInv DEF Work, LoadIdentities
<1>9. CASE WorkDone
  BY <1>1, <1>9 DEF WorkDone
<1>10. CASE Fails
  BY <1>1, <1>10 DEF Fails
<1>11. CASE Return
  BY <1>11, DropGuardsInv DEF Return
<1>12. CASE UNCHANGED vars
  BY <1>1, <1>12 DEF vars, given
<1> QED
  BY <1>2, <1>3, <1>4, <1>5, <1>6, <1>7, <1>8, <1>9, <1>10, <1>11, <1>12 DEF Next

-----------------------------------------------------------------------------
(* The theorems *)

(* The inductive invariant holds throughout.                               *)
THEOREM Invariance == Spec => []Inv
  BY InitInv, NextInv, PTL DEF Spec

(* Every variable keeps its type; in particular no guard outlives another. *)
THEOREM TypeCorrect == Spec => []TypeOK
<1>1. Inv => TypeOK
  BY DEF Inv
<1> QED
  BY Invariance, <1>1, PTL

(* When each plan brings the plugins of its keys, age finds them all.      *)
THEOREM NoneLacking == Spec => []PluginsAtHand
<1>1. Inv => PluginsAtHand
  BY DEF Inv
<1> QED
  BY Invariance, <1>1, PTL

(* What the user has on $PATH stays there, and is all that is left.        *)
THEOREM PathKept == Spec => []PathIsKept
<1>1. Inv => PathIsKept
  BY DEF Inv, Guarded, PathIsKept
<1> QED
  BY Invariance, <1>1, PTL

=============================================================================
