------------------------------ MODULE TombkeyMC ------------------------------
(***************************************************************************)
(* Small instances of Tombkey: two hosts that share a source, and the      *)
(* changes a configuration goes through in the workflows of the README.    *)
(***************************************************************************)
EXTENDS Tombkey, TLC

CONSTANTS p, h1, h2, n1, n2, s1, s2, o1, o2, x1, m1, m2, k1, k2, k3

Entries(source, output) == [rekey_file |-> source, output_file |-> output]

(* Only h1's plan names the plugin's directory.                            *)
PlanFor(key, masters, secrets, dir) ==
  [host_pubkey |-> key, master_identities |-> masters,
   secrets |-> secrets, local_storage_dir |-> dir,
   age_plugins |-> key # k2]

One(source, output) ==
  [n \in Name |-> IF n = n1 THEN Entries(source, output) ELSE None]

Both(first, second) == [h \in Host |-> IF h = h1 THEN first ELSE second]

First(key, masters, output) == PlanFor(key, masters, One(s1, output), {o1, x1})
Second(masters) == PlanFor(k2, masters, One(s1, o2), {o2})

(* The starting configuration.                                             *)
Base == Both(First(k1, {m1}, o1), Second({m1}))

(* A second master is added.                                               *)
MasterAdded == Both(First(k1, {m1, m2}, o1), Second({m1, m2}))

(* The master is replaced, with no overlap.                                *)
MasterReplaced == Both(First(k1, {m2}, o1), Second({m2}))

(* The host key of h1 is rotated.                                          *)
KeyRotated == Both(First(k3, {m1}, o1), Second({m1}))

(* h1's output moves to another file of its directory.                     *)
OutputMoved == Both(First(k1, {m1}, x1), Second({m1}))

(* h2 has no secret any more.                                              *)
SecretRemoved == Both(First(k1, {m1}, o1), PlanFor(k2, {m1}, NoSecrets, {o2}))

(* h2 is gone.                                                             *)
HostRemoved == Both(First(k1, {m1}, o1), None)

(* The hosts that share s1 disagree on its masters: rekey refuses.         *)
MastersDisagree == Both(First(k1, {m1}, o1), Second({m1, m2}))

(* h1's directory contains h2's: the plan set is refused.                  *)
DirsOverlap ==
  Both(PlanFor(k1, {m1}, One(s1, o1), {o1, x1, o2}), Second({m1}))

(* h1's output is its source: the plan is refused.                         *)
OutputIsSource ==
  Both(PlanFor(k1, {m1}, One(s1, s1), {o1, x1, s1}), Second({m1}))

AllConfigs ==
  {Base, MasterAdded, MasterReplaced, KeyRotated, OutputMoved, SecretRemoved,
   HostRemoved, MastersDisagree, DirsOverlap, OutputIsSource}

(* h1 alone, before and after its key is rotated, a master is added and    *)
(* its output moves.                                                       *)
Alone == {Both(First(k1, {m1}, o1), None), Both(First(k3, {m1, m2}, x1), None)}

(* h1 alone with one storage file and two masters, the second of them new: *)
(* for two processes.                                                      *)
AloneSmall == {Both(PlanFor(k1, {m1, m2}, One(s1, o1), {o1}), None)}

(* h1 alone with two secrets from two sources, whose outputs swap places.  *)
Two(first, second) ==
  [n \in Name |-> IF n = n1 THEN Entries(s1, first) ELSE Entries(s2, second)]

TwoSecrets ==
  {Both(PlanFor(k1, {m1}, Two(o1, o2), {o1, o2}), None),
   Both(PlanFor(k1, {m1}, Two(o2, o1), {o1, o2}), None)}

(* Each host has a source of its own and a master of its own; both sources *)
(* are still sealed to the first one.                                      *)
MastersApart ==
  Both(PlanFor(k1, {m1}, One(s1, o1), {o1}),
       PlanFor(k2, {m2}, One(s2, o2), {o2}))

RekeyConfigs == AllConfigs \cup TwoSecrets \cup {MastersApart}

(* A directory with a single file for each host: one source for both, then *)
(* another master and no secret for h2, then hosts that disagree on the    *)
(* masters, then a source for each.                                        *)
Small(first, second, secrets) ==
  Both(PlanFor(k1, first, One(s1, o1), {o1}), PlanFor(k2, second, secrets, {o2}))

SmallConfigs ==
  {Small({m1}, {m1}, One(s1, o2)), Small({m1, m2}, {m1, m2}, NoSecrets),
   Small({m1, m2}, {m1}, One(s1, o2)), MastersApart}

(* The master is replaced at once; h1 keeps its source among its outputs.  *)
Rotated == {MasterReplaced}

SourceInStorage ==
  {Both(PlanFor(k1, {m1}, One(x1, o1), {o1, x1}), Second({m1}))}

SomeCipher(to, plain) ==
  [to |-> to, plain |-> plain, nonce |-> CHOOSE n \in Nonce : TRUE]

(* Nothing rekeyed yet, the sources sealed to the first master.            *)
Checkout(sources) ==
  [x \in Path |-> IF x \in sources THEN SomeCipher({m1}, "v1") ELSE Absent]

FreshCheckout == {Checkout({s1})}
TwoSources == {Checkout({s1, s2})}
StoredSource == {Checkout({s1, x1})}

AllHosts == {Host}
AllOrFirst == {Host, {h1}}

(* Nonces are interchangeable: Encrypt takes any that is not held, and which *)
(* one it is changes a step only by renaming them.                         *)
NoncesAlike == Permutations(Nonce)

EachRuns(cmds) == [proc \in Proc |-> cmds]
RekeyOnly == EachRuns({"rekey"})
Workflow == EachRuns({"rekey", "reseal", "gc"})

EveryCommand == EachRuns({"rekey", "reseal", "gc", "edit"})

(* All commands, with rekey only where an edit ends in it.                 *)
OtherCommands == EachRuns(CommandSet \ {"rekey"})

(* p runs rekey, any other process runs reseal or edit.                    *)
Apart == [proc \in Proc |-> IF proc = p THEN {"rekey"} ELSE {"reseal", "edit"}]

=============================================================================
