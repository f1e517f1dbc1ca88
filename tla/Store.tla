-------------------------------- MODULE Store --------------------------------
(***************************************************************************)
(* The state every tombkey command works on - the files of the flake's     *)
(* checkout, the committed manifest and the plans the Nix configuration    *)
(* evaluates to - with the types of src/plan.rs and src/manifest.rs, the   *)
(* validation a plan set must pass, and the skip decisions of rekey and    *)
(* reseal.                                                                 *)
(*                                                                         *)
(* A file's bytes are Junk (not an age file) or a Cipher: the keys it is   *)
(* encrypted to, the plaintext and a nonce, because age encrypts the same  *)
(* plaintext to different bytes every time.                                *)
(***************************************************************************)
EXTENDS Naturals, FiniteSets

CONSTANTS
  Host,       \* host labels
  Name,       \* secret names
  Path,       \* repo-relative paths of *.age files, sources and outputs
  Plain,      \* plaintexts
  MasterKey,  \* master identities, each with the recipient it answers to
  PluginKey,  \* the masters that live on fido2-hmac tokens
  HostKey,    \* host recipients
  Nonce,      \* what distinguishes two encryptions of one plaintext
  Configs,    \* the plan sets the Nix configuration may evaluate to
  InitFiles,  \* the checkouts a history may start from
  MaxEvents,  \* bound on edits by others, faults and crashes
  Absent,     \* no file at a path
  Junk,       \* bytes that are not an age ciphertext
  None        \* a Rust None, or a key that a map does not have

VARIABLES
  files,      \* [Path -> File], the checkout
  manifest,   \* .tombkey/manifest.json
  config,     \* the plans the configuration evaluates to now
  events      \* edits, faults and crashes so far

storeVars == <<files, manifest, config, events>>

-----------------------------------------------------------------------------
(* Ciphertexts and digests *)

Key == MasterKey \cup HostKey
Cipher == [to : SUBSET Key, plain : Plain, nonce : Nonce]
Content == Cipher \cup {Junk}
File == Content \cup {Absent}

(* SHA-256, which nobody makes collide: digests are equal exactly when     *)
(* what they are digests of is.                                            *)
Sha(x) == [sha256 |-> x]

(* age decrypts bytes that are a ciphertext to one of the identities held. *)
Decrypts(bytes, keys) == bytes \in Cipher /\ bytes.to \cap keys # {}

-----------------------------------------------------------------------------
(* Plans (src/plan.rs) *)

SecretEntry == [rekey_file : Path, output_file : Path]

(* local_storage_dir is the set of *.age paths beneath that directory, and *)
(* age_plugins whether one of those directories has the fido2-hmac plugin. *)
Plan == [host_pubkey       : HostKey,
         master_identities : SUBSET MasterKey,
         secrets           : [Name -> SecretEntry \cup {None}],
         local_storage_dir : SUBSET Path,
         age_plugins       : BOOLEAN]

PlanSet == [Host -> Plan \cup {None}]

NoPlans == [h \in Host |-> None]

Planned(plans) == {h \in Host : plans[h] # None}

(* A target is one secret of one host, <<host_label, name>>.               *)
Targets(plans) ==
  {t \in Host \X Name : plans[t[1]] # None /\ plans[t[1]].secrets[t[2]] # None}

Source(plans, t) == plans[t[1]].secrets[t[2]].rekey_file
Output(plans, t) == plans[t[1]].secrets[t[2]].output_file

Sources(plans) == {Source(plans, t) : t \in Targets(plans)}
Outputs(plans) == {Output(plans, t) : t \in Targets(plans)}
Consumers(plans, s) == {t \in Targets(plans) : Source(plans, t) = s}

(* The masters of every plan that consumes source s.                       *)
MastersOf(plans, s) ==
  UNION {plans[t[1]].master_identities : t \in Consumers(plans, s)}

(* Plan::validate, for one host: some master, distinct outputs, each under *)
(* the storage directory and apart from the secret's own source.           *)
ValidPlan(plans, h) ==
  LET own == {t \in Targets(plans) : t[1] = h} IN
  /\ plans[h].master_identities # {}
  /\ \A t, u \in own : Output(plans, t) = Output(plans, u) => t = u
  /\ \A t \in own : /\ Output(plans, t) # Source(plans, t)
                    /\ Output(plans, t) \in plans[h].local_storage_dir

(* A slip: validate_set without the test for overlapping directories.      *)
ValidSetOverlapping(plans) ==
  /\ \A h \in Planned(plans) : ValidPlan(plans, h)
  /\ \A t, u \in Targets(plans) : Output(plans, t) = Output(plans, u) => t = u

(* Plan::validate_set: no two hosts share an output, and no storage        *)
(* directory is another one or lies beneath it.                            *)
ValidSet(plans) ==
  /\ \A h \in Planned(plans) : ValidPlan(plans, h)
  /\ \A t, u \in Targets(plans) : Output(plans, t) = Output(plans, u) => t = u
  /\ \A h, g \in Planned(plans) :
       h # g => plans[h].local_storage_dir \cap plans[g].local_storage_dir = {}

(* A slip: sources may have diverging master sets.                         *)
ConsistentOrNot(plans) == TRUE

(* ops::validate_source_master_consistency: hosts that consume one source  *)
(* declare one master set.                                                 *)
Consistent(plans) ==
  \A t, u \in Targets(plans) :
    Source(plans, t) = Source(plans, u)
      => plans[t[1]].master_identities = plans[u[1]].master_identities

-----------------------------------------------------------------------------
(* The manifest (src/manifest.rs) *)

SecretFingerprint == [source_sha256 : [sha256 : Content],
                      output_file   : Path,
                      output_sha256 : [sha256 : Content]]

HostSection == [host_pubkey_sha256 : [sha256 : HostKey],
                master_set_sha256  : [sha256 : SUBSET MasterKey],
                secrets            : [Name -> SecretFingerprint \cup {None}]]

SourceSealState == [ciphertext_sha256 : [sha256 : Content],
                    master_set_sha256 : [sha256 : SUBSET MasterKey]]

Manifest == [hosts   : [Host -> HostSection \cup {None}],
             sources : [Path -> SourceSealState \cup {None}]]

EmptyManifest == [hosts   |-> [h \in Host |-> None],
                  sources |-> [s \in Path |-> None]]

NoSecrets == [n \in Name |-> None]

(* A slip: the host's recipient itself where its digest belongs.           *)
NewSectionUnhashed(plan) == [host_pubkey_sha256 |-> plan.host_pubkey,
                             master_set_sha256  |-> Sha(plan.master_identities),
                             secrets            |-> NoSecrets]

(* rekey's new_section for a host, before any secret is entered.           *)
NewSection(plan) == [host_pubkey_sha256 |-> Sha(plan.host_pubkey),
                     master_set_sha256  |-> Sha(plan.master_identities),
                     secrets            |-> NoSecrets]

(* A slip: the digest of the source for that of the output.                *)
FingerprintOfSource(source, path, output) ==
  [source_sha256 |-> Sha(source),
   output_file   |-> path,
   output_sha256 |-> Sha(source)]

(* What an entry records of the output just written.                       *)
Fingerprint(source, path, output) ==
  [source_sha256 |-> Sha(source),
   output_file   |-> path,
   output_sha256 |-> Sha(output)]

(* manifest m with fingerprint fp entered for target t.                    *)
WithEntry(m, t, fp) == [m EXCEPT !.hosts[t[1]].secrets[t[2]] = fp]

(* A slip: the seal is not recorded.                                       *)
WithoutSeal(m, s, bytes, masters) == m

(* manifest m with the seal of source s entered.                           *)
WithSeal(m, s, bytes, masters) ==
  [m EXCEPT !.sources[s] = [ciphertext_sha256 |-> Sha(bytes),
                            master_set_sha256 |-> Sha(masters)]]

Entry(m, t) == m.hosts[t[1]].secrets[t[2]]

(* Target t has an entry, in a section made for this host key and these    *)
(* masters.                                                                *)
MatchesHeader(m, plans, t) ==
  /\ m.hosts[t[1]] # None
  /\ m.hosts[t[1]].host_pubkey_sha256 = Sha(plans[t[1]].host_pubkey)
  /\ m.hosts[t[1]].master_set_sha256 = Sha(plans[t[1]].master_identities)
  /\ Entry(m, t) # None

(* Slips: the skip decision without the host key, without the source,      *)
(* without the output path, without the bytes of the output.               *)
MatchesPrevOfAnyKey(m, plans, t, source, output) ==
  /\ m.hosts[t[1]] # None
  /\ m.hosts[t[1]].master_set_sha256 = Sha(plans[t[1]].master_identities)
  /\ Entry(m, t) # None
  /\ Entry(m, t).source_sha256 = Sha(source)
  /\ Entry(m, t).output_file = Output(plans, t)
  /\ output # Absent
  /\ Entry(m, t).output_sha256 = Sha(output)

MatchesPrevOfAnySource(m, plans, t, source, output) ==
  /\ MatchesHeader(m, plans, t)
  /\ Entry(m, t).output_file = Output(plans, t)
  /\ output # Absent
  /\ Entry(m, t).output_sha256 = Sha(output)

MatchesPrevOfAnyPath(m, plans, t, source, output) ==
  /\ MatchesHeader(m, plans, t)
  /\ Entry(m, t).source_sha256 = Sha(source)
  /\ output # Absent
  /\ Entry(m, t).output_sha256 = Sha(output)

MatchesPrevOfAnyOutput(m, plans, t, source, output) ==
  /\ MatchesHeader(m, plans, t)
  /\ Entry(m, t).source_sha256 = Sha(source)
  /\ Entry(m, t).output_file = Output(plans, t)
  /\ output # Absent

(* matches_prev: rekey skips target t when the previous section was made   *)
(* for this host key and these masters and its entry names this source,    *)
(* this output path and the bytes the output has now.                      *)
MatchesPrev(m, plans, t, source, output) ==
  /\ MatchesHeader(m, plans, t)
  /\ Entry(m, t).source_sha256 = Sha(source)
  /\ Entry(m, t).output_file = Output(plans, t)
  /\ output # Absent
  /\ Entry(m, t).output_sha256 = Sha(output)

(* Slips: the seal of any master set, or of any bytes, will do.            *)
SealMatchesAnyMasters(m, s, bytes, masters) ==
  m.sources[s] # None /\ m.sources[s].ciphertext_sha256 = Sha(bytes)

SealMatchesAnyBytes(m, s, bytes, masters) ==
  m.sources[s] # None /\ m.sources[s].master_set_sha256 = Sha(masters)

(* reseal skips source s when the last recorded seal has these bytes and   *)
(* this master set.                                                        *)
SealMatches(m, s, bytes, masters) ==
  /\ m.sources[s] # None
  /\ m.sources[s].ciphertext_sha256 = Sha(bytes)
  /\ m.sources[s].master_set_sha256 = Sha(masters)

-----------------------------------------------------------------------------
(* What the assumptions say of the constants: the sentinels are values of  *)
(* no type they stand beside, and configurations are sets of plans.        *)

ASSUME SentinelAssumption ==
  /\ Absent \notin Content
  /\ None \notin Plan /\ None \notin SecretEntry
  /\ None \notin SecretFingerprint /\ None \notin HostSection
  /\ None \notin SourceSealState

ASSUME ConfigAssumption ==
  /\ Configs \subseteq PlanSet
  /\ PluginKey \subseteq MasterKey
  /\ InitFiles \subseteq [Path -> File]

ASSUME BoundAssumption == MaxEvents \in Nat
=============================================================================
