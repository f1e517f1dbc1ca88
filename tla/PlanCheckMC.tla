------------------------------ MODULE PlanCheckMC ------------------------------
(***************************************************************************)
(* Pairs of plans, and plans with two secrets, whose fields meet in every  *)
(* way: equal, nested, disjoint, and the same file spelled twice.          *)
(***************************************************************************)
EXTENDS PlanCheck

Dirs == {<<"a">>, <<"a", "b">>, <<"b">>, <<>>, <<"b", "..", "a">>}
SourcePaths == {<<"s">>, <<"a", "f">>, <<".", "s">>}
OutputPaths == {<<"a", "f">>, <<"a", "b", "f">>, <<"b", "f">>, <<"b", "", "f">>,
                <<"a", "..", "b", "f">>}

SecretsWith(name) ==
  [name : {name}, rekey_file : SourcePaths, output_file : OutputPaths]

PlansWith(label, masters, manifests, secrets) ==
  [host_label : {label}, master_identities : masters, local_storage_dir : Dirs,
   manifest_file : manifests, secrets : secrets]

OneSecret(name) == {<<s>> : s \in SecretsWith(name)}

First == PlansWith("h", {{"m"}}, {<<"t">>}, OneSecret("n"))

Second ==
  PlansWith("g", {{"m"}, {"k"}}, {<<"t">>}, OneSecret("n") \cup {<<>>})
  \cup PlansWith("h", {{"m"}, {}}, {<<"t">>}, {<<>>})
  \cup PlansWith("g", {{"m"}}, {<<"u">>, <<"/", "t">>, <<"t", "">>}, {<<>>})

TwoSecrets ==
  PlansWith("h", {{"m"}}, {<<"t">>},
            {<<s, z>> : s \in SecretsWith("n"), z \in SecretsWith("n") \cup SecretsWith("o")})

AnyInputs == {<<>>} \cup {<<p, q>> : p \in First, q \in Second} \cup {<<p>> : p \in TwoSecrets}

(* The last is not a source of any plan.                                   *)
AnyUserPaths == {<<"s">>, <<".", "s">>, <<"a", "..", "s">>, <<"a", "f">>, <<"b", "s">>}
=============================================================================
