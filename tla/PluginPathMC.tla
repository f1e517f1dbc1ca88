------------------------------ MODULE PluginPathMC -----------------------------
(***************************************************************************)
(* Two hosts that share sources or not, with a plugin each for masters and *)
(* host keys, in directories that hold one plugin, or both.                *)
(***************************************************************************)
EXTENDS PluginPath, TLC

CONSTANTS bin, d1, d2, p1, p2, s1, s2

ShipsOf == bin :> {} @@ d1 :> {p1} @@ d2 :> {p1, p2}

PlansOf(dirs, host, sources) ==
  [age_plugins : dirs, masters : {{}, {p1}, {p2}}, host : host, sources : sources]

AnyInputs ==
  {<<p, q>> : p \in PlansOf(SUBSET {d1, d2}, {{}}, {{s1}, {s2}}),
              q \in PlansOf(SUBSET {d1, d2}, {{}, {p1}}, {{}, {s1}})}

AnyHomes == {Unset, {bin}, {bin, d1}}

=============================================================================
