-------------------------------- MODULE Opening --------------------------------
(***************************************************************************)
(* What opening a batch of sources promises the commands, as the module    *)
(* Run has it (SessionKeys, OpenSession, Openers): one session brings in   *)
(* the tokens of all sources, or none when it fails; then each source is   *)
(* opened with these and its own identities, whenever one of them can,     *)
(* unless something went wrong on the way.  BatchUnwrap implements this.   *)
(***************************************************************************)
CONSTANTS
  Source,   \* the sources of the batch
  Token,    \* identities on tokens of the plugin
  Native,   \* all the others
  NotYet    \* no session has been tried

Key == Token \cup Native

VARIABLES
  to,         \* to[s], the keys source s is encrypted to
  own,        \* own[s], the identities of its consumers' masters
  plugin,     \* whether the plans name the plugin
  session,    \* the tokens the session brings in
  disturbed,  \* a token, the plugin or an identity file let us down
  outcome     \* of each source

vars == <<to, own, plugin, session, disturbed, outcome>>

Init ==
  /\ to \in [Source -> SUBSET Key] /\ own \in [Source -> SUBSET Key]
  /\ plugin \in BOOLEAN
  /\ session = NotYet
  /\ disturbed = FALSE
  /\ outcome = [s \in Source |-> "pending"]

Disturb ==
  /\ disturbed' = TRUE
  /\ UNCHANGED <<to, own, plugin, session, outcome>>

OpenSession ==
  /\ session = NotYet
  /\ disturbed' \in {disturbed, TRUE}
  /\ \/ session' = {k \in Token : plugin /\ \E s \in Source : k \in own[s]}
     \/ session' = {} /\ disturbed'
  /\ UNCHANGED <<to, own, plugin, outcome>>

Openers(s) == own[s] \cup session

Open(s) ==
  /\ session # NotYet
  /\ outcome[s] = "pending"
  /\ Openers(s) \cap to[s] # {}
  /\ outcome' = [outcome EXCEPT ![s] = "open"]
  /\ UNCHANGED <<to, own, plugin, session, disturbed>>

Fail(s) ==
  /\ session # NotYet
  /\ outcome[s] = "pending"
  /\ disturbed \/ Openers(s) \cap to[s] = {}
  /\ outcome' = [outcome EXCEPT ![s] = "failed"]
  /\ UNCHANGED <<to, own, plugin, session, disturbed>>

Progress == OpenSession \/ \E s \in Source : Open(s) \/ Fail(s)

Spec == Init /\ [][Disturb \/ Progress]_vars /\ WF_vars(Progress)

=============================================================================
