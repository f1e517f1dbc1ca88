------------------------------ MODULE BatchUnwrap ------------------------------
(***************************************************************************)
(* One batch of sources opened with one session of the fido2-hmac plugin   *)
(* (src/age/batch_unwrap.rs, called through ops::batch_unwrap_file_keys),  *)
(* and the decryption of each source with what the session gave            *)
(* (decrypt_pending in src/ops/rekey.rs).                                  *)
(*                                                                         *)
(* Indices count from 1 here.  A file key is named by the source it opens. *)
(* The plugin is an external program: it may answer for any index, any     *)
(* number of times, with a right or a wrong key, leave sources out, report *)
(* errors for them, or break off.                                          *)
(***************************************************************************)
EXTENDS Naturals, Sequences

CONSTANTS
  Count,      \* number of ciphertexts in the batch
  Token,      \* identities on tokens of the plugin
  Native,     \* all other identities
  Inputs,     \* the batches considered: keys of each source, own identities
  Wrong,      \* a file key of no source in the batch
  None,       \* no file key
  NotYet      \* no session has been tried

Source == 1 .. Count
Key == Token \cup Native

ASSUME BatchAssumption ==
  /\ Count \in Nat
  /\ None \notin Source /\ Wrong \notin Source /\ None # Wrong
  /\ \A tokens \in SUBSET Token : NotYet # tokens
  /\ Inputs \subseteq [to : [Source -> SUBSET Key], own : [Source -> SUBSET Key]]

ATTEMPTS == 3

VARIABLES
  to, own, plugin,   \* the batch: what each source is encrypted to, the
                     \* identities of its consumers, whether there is a plugin
  pc,                \* "gather", "receive" or "decrypt"
  attempt,           \* the attempt in hand
  eligible,          \* eligible_stanzas, each by the source it comes from
  orig_indices,
  seen,              \* sources the gathering loop has been through
  results,           \* the file key of each source
  outcome,           \* of each source: "pending", "open" or "failed"
  session,           \* history: the tokens of the session that was held
  told,              \* history: indices answered for in this session
  lied,              \* history: a wrong answer came first for some index
  disturbed          \* history: the plugin or an identity file failed

batch == <<to, own, plugin>>
gathering == <<eligible, orig_indices, seen>>
history == <<session, told, lied, disturbed>>
vars == <<batch, pc, attempt, gathering, results, outcome, history>>

NoKeys == [s \in Source |-> None]

(* plugin_stanzas: the stanzas of this plugin in a source's header, as the *)
(* tokens they are for.                                                    *)
Stanzas(s) == to[s] \cap Token

(* plugin_identities, over the identity files of all sources.              *)
Identities == {k \in Token : \E s \in Source : k \in own[s]}

(* Every variable has its type; there is a slot for each source.           *)
TypeOK ==
  /\ to \in [Source -> SUBSET Key] /\ own \in [Source -> SUBSET Key]
  /\ plugin \in BOOLEAN
  /\ pc \in {"gather", "receive", "decrypt"}
  /\ attempt \in 1 .. ATTEMPTS
  /\ eligible \in Seq(Source) /\ orig_indices \in Seq(Source)
  /\ seen \in 0 .. Count
  /\ results \in [Source -> Source \cup {None, Wrong}]
  /\ outcome \in [Source -> {"pending", "open", "failed"}]
  /\ session = NotYet \/ session \subseteq Token
  /\ told \subseteq Source /\ lied \in BOOLEAN /\ disturbed \in BOOLEAN

Init ==
  /\ \E in \in Inputs : to = in.to /\ own = in.own
  /\ plugin \in BOOLEAN
  /\ pc = "gather"
  /\ attempt = 1
  /\ eligible = <<>> /\ orig_indices = <<>> /\ seen = 0
  /\ results = NoKeys
  /\ outcome = [s \in Source |-> "pending"]
  /\ session = NotYet
  /\ told = {} /\ lied = FALSE /\ disturbed = FALSE

-----------------------------------------------------------------------------
(* unwrap_once: which sources are sent, and under which index *)

(* find_plugin_binary finds none: every source is left to its own masters. *)
NoPlugin ==
  /\ pc = "gather" /\ ~plugin
  /\ pc' = "decrypt"
  /\ session' = {}
  /\ UNCHANGED <<batch, attempt, gathering, results, outcome, told, lied, disturbed>>

(* The loop over the ciphertexts: those without a stanza are skipped.      *)
Gather ==
  LET s == seen + 1 IN
  /\ pc = "gather" /\ plugin
  /\ seen < Count
  /\ seen' = s
  /\ IF Stanzas(s) # {}
     THEN /\ orig_indices' = Append(orig_indices, s)
          /\ eligible' = Append(eligible, s)
     ELSE UNCHANGED <<orig_indices, eligible>>
  /\ UNCHANGED <<batch, pc, attempt, results, outcome, history>>

(* A slip: the index a source has among all ciphertexts.                   *)
OriginalIndex(i) == orig_indices[i]

(* The index the i-th source sent has on the wire: batch_idx.              *)
WireIndex(i) == i

(* What the plugin is sent: stanzas under their indices.                   *)
Sent == {<<WireIndex(i), eligible[i]>> : i \in DOMAIN eligible}

(* A slip: slots filled by an attempt that failed are kept.                *)
KeptResults == results

(* A slip: a slot for each source sent, not for each source.               *)
ResultsOfSent == [i \in DOMAIN orig_indices |-> None]

(* The slots an attempt starts with.                                       *)
FreshResults == NoKeys

(* The session is opened and everything is sent.                           *)
Send ==
  /\ pc = "gather" /\ plugin
  /\ seen = Count
  /\ pc' = "receive"
  /\ results' = FreshResults
  /\ told' = {} /\ lied' = FALSE
  /\ UNCHANGED <<batch, attempt, gathering, outcome, session, disturbed>>

-----------------------------------------------------------------------------
(* The answers *)

(* Where the key that is answered for an index goes.                       *)
Slot(idx) == orig_indices[idx]

IsEmpty(slot) == results[slot] = None

(* CMD_FILE_KEY: a key for an index that was sent, the first for its slot, *)
(* is taken; any other is answered and dropped.                            *)
FileKey(idx, key) ==
  /\ pc = "receive"
  /\ results' = IF idx \in DOMAIN orig_indices /\ IsEmpty(Slot(idx))
                THEN [results EXCEPT ![Slot(idx)] = key] ELSE results
  /\ told' = told \cup {w[1] : w \in {v \in Sent : v[1] = idx}}
  /\ lied' = (lied \/ \E w \in Sent : w[1] = idx /\ idx \notin told /\ w[2] # key)
  /\ disturbed' = (disturbed \/ lied')
  /\ UNCHANGED <<batch, pc, attempt, gathering, outcome, session>>

(* The keys the plugin can come by: those its tokens unwrap, and nonsense. *)
Known ==
  {w[2] : w \in {v \in Sent : Stanzas(v[2]) \cap Identities # {}}} \cup {Wrong}

(* age-plugin accepts indices that count up without a gap.                 *)
Accepts == {w[1] : w \in Sent} = DOMAIN eligible

(* The plugin is done.  A source it should have unwrapped and did not - it *)
(* sent an error or nothing - is its failure.                              *)
Done ==
  /\ pc = "receive" /\ Accepts
  /\ pc' = "decrypt"
  /\ session' = Identities
  /\ disturbed' = (disturbed \/ \E w \in Sent :
       Stanzas(w[2]) \cap Identities # {} /\ w[1] \notin told)
  /\ UNCHANGED <<batch, attempt, gathering, results, outcome, told, lied>>

(* The session breaks off, or an identity file cannot be read: it is tried *)
(* again from the start, or given up.                                      *)
Retry ==
  /\ pc = "receive" /\ attempt < ATTEMPTS
  /\ attempt' = attempt + 1
  /\ pc' = "gather"
  /\ eligible' = <<>> /\ orig_indices' = <<>> /\ seen' = 0
  /\ disturbed' = (disturbed \/ Accepts)
  /\ UNCHANGED <<batch, results, outcome, session, told, lied>>

GiveUp ==
  /\ pc = "receive" /\ attempt = ATTEMPTS
  /\ pc' = "decrypt"
  /\ results' = NoKeys
  /\ session' = {}
  /\ lied' = FALSE
  /\ disturbed' = (disturbed \/ Accepts)
  /\ UNCHANGED <<batch, attempt, gathering, outcome, told>>

-----------------------------------------------------------------------------
(* decrypt_pending, source by source *)

(* A slip: no fallback for a source the session left out.                  *)
OpensWithKeyOnly(s) == results[s] = s

(* The file key decides when there is one, right or wrong; otherwise the   *)
(* identities of the source's own consumers.                               *)
Opens(s) == IF results[s] # None THEN results[s] = s ELSE own[s] \cap to[s] # {}

Decrypt(s) ==
  /\ pc = "decrypt" /\ outcome[s] = "pending"
  /\ outcome' = [outcome EXCEPT ![s] = IF Opens(s) THEN "open" ELSE "failed"]
  /\ UNCHANGED <<batch, pc, attempt, gathering, results, history>>

(* The payload is damaged, an identity file cannot be read, or the token   *)
(* does not answer this time.                                              *)
Disturb ==
  /\ ~disturbed
  /\ disturbed' = TRUE
  /\ UNCHANGED <<batch, pc, attempt, gathering, results, outcome, session, told, lied>>

DecryptFails(s) ==
  /\ pc = "decrypt" /\ outcome[s] = "pending" /\ disturbed
  /\ outcome' = [outcome EXCEPT ![s] = "failed"]
  /\ UNCHANGED <<batch, pc, attempt, gathering, results, history>>

Progress ==
  \/ NoPlugin \/ Gather \/ Send
  \/ Done \/ Retry \/ GiveUp
  \/ \E s \in Source : Decrypt(s) \/ DecryptFails(s)

Next ==
  \/ Progress
  \/ \E idx \in 1 .. Count + 1, key \in Known : FileKey(idx, key)
  \/ Disturb

(* Whatever the plugin says, it ends the session at last: there is no      *)
(* timeout.                                                                *)
Spec == Init /\ [][Next]_vars /\ WF_vars(Progress)

-----------------------------------------------------------------------------
(* What it promises *)

(* A file key is given to the source it opens, whatever is skipped, asked  *)
(* twice, answered twice or left over from an attempt that failed - unless *)
(* the plugin's first answer for an index of this session was a wrong one. *)
KeysGoHome ==
  pc = "decrypt" /\ ~lied => \A s \in Source : results[s] \in {None, s}

(* When nothing failed, one session was enough, and it unwrapped exactly   *)
(* the sources that one of the tokens in hand can open.                    *)
UnwrapsAll ==
  pc = "decrypt" /\ plugin /\ ~disturbed =>
    /\ attempt = 1
    /\ \A s \in Source : results[s] = s <=> Stanzas(s) \cap Identities # {}

(* Opening a batch implements its abstract specification.                  *)
Abstract == INSTANCE Opening

(* Every behaviour of a batch is one of Opening, its liveness included.    *)
OpeningSpec == Abstract!Spec

=============================================================================
