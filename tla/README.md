# A formal model of tombkey

tombkey re-encrypts age secrets: every *source*, a file encrypted to the master
identities, becomes one *output* per host that uses it, encrypted to that
host's key. A committed manifest records digests of what each output was made
from, so that a run that finds them unchanged needs no hardware token. This
project models that program in TLA+, checks small instances with TLC and proves
with TLAPS, for all instances, every safety property that holds on them.

The question behind everything here: **the program decides from digests alone
not to look at a secret. Is it ever wrong, whatever failed, was killed, edited,
reconfigured or run at the same time before?** A wrong skip is silent and lasts:
no later run looks again either.

## The system

| component | state | operations | modules |
|---|---|---|---|
| plans (`plan.rs`, `main.rs`) | none of its own; one plan per host, read at start | validate one plan, validate the set | `PlanCheck`, `Store` |
| manifest (`manifest.rs`) | `.tombkey/manifest.json`: per host a section of fingerprints, per source a seal | load, write | `Store`, `Run` |
| rekey (`ops/rekey.rs`) | a run's plans, loaded and new manifest, source bytes, stale and failed targets | classify, unwrap, decrypt, fan out, purge, sweep, commit | `Rekey` |
| reseal (`ops/reseal.rs`) | a run's plans, manifest, source bytes | prepare, unwrap, re-encrypt, commit | `Reseal` |
| gc (`ops/gc.rs`) | a run's plans and manifest | prune, sweep, commit | `Gc` |
| edit, view (`ops/edit.rs`, `ops/view.rs`) | the plaintext in hand | decrypt, edit, write back, rekey | `Edit` |
| editor (`editor.rs`) | a staged plaintext, the signal handlers, the abort flag | stage, run `$EDITOR`, re-read, wipe | `Editor` |
| orphan sweep (`ops/mod.rs`) | the files found in one directory | list, remove | `Run` |
| plugin session (`age/batch_unwrap.rs`) | indices, slots for file keys, the attempt | send, receive, retry, give up | `BatchUnwrap`, `Run` |
| plugin path (`age/plugin.rs`) | `$PATH` and its guards | install, drop | `PluginPath` |
| atomic writes (`fs.rs`) | a temporary file, a directory | write, sync, rename, sync | `AtomicWrite`, `Run` |
| encryption (`age/*.rs`) | none | encrypt, decrypt | `Store`, `Run` |
| Nix module, people, git | configuration and checkout | change either | `Tombkey` |

The commands interact only through the checkout: the sources, the outputs and
the manifest. There is **no lock**: a command loads the manifest once, works on
files for as long as a hardware token takes, and writes the manifest once, at
the end. What is hard follows from that:

- *failure in the middle*: a kill, an I/O error or a token that does not answer,
  between any two file accesses; and a write that reports an error although the
  rename has happened;
- *several targets, some of which fail* in one run;
- *staleness*: source bytes read in phase 1 are used in phase 3, digests of one
  run are used in another under another configuration;
- *order*: commands run for one host or for all, in any order, before or after
  the configuration changed;
- *two commands at once*, one of which may be an edit with its editor open;
- *signals*, between any two steps of an edit;
- *an external plugin* that answers in any order and number, wrongly, or breaks
  off;
- *power cuts*, which undo what was not synced;
- *repair*: what any of this leaves behind must be put right by running again.

Per component, what makes it correct:

- *plans*: what passes validation keeps hosts, outputs, directories and sources
  apart as files, however their paths are spelled (`AcceptedIsSound`), nothing is
  turned down without a cause (`RejectedForCause`), and a path named to edit
  leads to its consumers' masters (`EditFindsMasters`); no sweep takes an output
  (`SweepSparesOutputs`), and no file outside the storage directories, as the
  sources are in the README's layout, is written or removed by rekey or gc
  (`StaysInStorage`);
- *manifest*: it never vouches for what is not so (`Truthful`), and a command
  leaves the parts of others alone (`OthersUntouched`);
- *rekey*: a skip is right (`SkipIsSafe`); a commit leaves no stale output and
  no entry of a failed target (`RekeyLeavesNoStale`); a clean exit leaves nothing
  to do (`RekeySettles`); repeated, it repairs (`Converges`) and comes to rest
  (`Quiesces`);
- *reseal*: a skip is right (`ResealSkipIsSafe`); a source only ever becomes the
  same plaintext for exactly its consumers' masters (`ResealKeepsPlaintext`);
- *gc*: it takes nothing a later run would have used (`GcKeepsSkips`);
- *edit*: it writes what the editor left, for exactly the consumers' masters
  (`EditSealsForConsumers`), and once its rekey commits no output holds the old
  secret (`EditIsDeployed`);
- *editor*: signals are heeded or harmless (`HeedsSignals`, `SignalsNeverTear`),
  only what the editor left is saved (`SavesWhatEditorLeft`), the staged file is
  wiped unless an I/O error befell it (`WipedBeforeUnlink`);
- *plugin session*: a file key goes to the source it opens (`KeysGoHome`), and
  undisturbed no source is left out (`UnwrapsAll`);
- *plugin path*: age finds the plugins the plans bring, and `$PATH` is restored
  (`PluginsAtHand`, `PathIsKept`);
- *atomic writes*: whole versions only (`FileSpec`), and what a returned write
  replaced stays replaced (`OkIsDurable`).

## The modules

`Store` ← `Run` ← `Rekey`, `Reseal`, `Gc`, `Edit` ← `Tombkey` ← `TombkeyMC` ←
`SoloMC` (instances), and `Tombkey` ← `TombkeyProofs` ← `OrderProofs` ←
`SoloProofs` (theorems). An arrow is an EXTENDS. Beside this
stand the parts that the composition takes as single steps, each modelled in
detail and, where there is one, shown to implement what the composition takes it
for:

| detail | implements | which is | instances | theorems |
|---|---|---|---|---|
| `Editor` | `EditSession` | the steps `EditorSaves`, `EditorGivesUp`, `Save`, `SaveFails` of `Edit` | `edit_session.cfg` | `EditorProofs` |
| `BatchUnwrap` | `Opening` | `SessionKeys`, `OpenSession`, `Openers` of `Run` | `BatchUnwrapMC` | `BatchUnwrapProofs` |
| `AtomicWrite` | `AtomicFile` | every replacement of a file, and the failures of one | `atomic_write.cfg` | `AtomicWriteProofs` |
| `PlanCheck` | - | `ValidSet` and `Consistent` of `Store`, `Canonical` of `Edit` | `PlanCheckMC` | `PlanCheckProofs` |
| `PluginPath` | - | that calls of age find their plugins | `PluginPathMC` | `PluginPathProofs` |

The first three are refinements (`INSTANCE ... WITH`, or by equal names), checked
by TLC with the abstract specification as a property. For the last two the link
is by reading: what `AcceptedIsSound` and `EditFindsMasters` say of files is what
`Store` and `Edit` assume, and a plugin that is missing is one of the failures
that any step of `Run` may meet.

**Store.** Files, manifest and configuration, with the types of `plan.rs` and
`manifest.rs`, and everything that is a function of them: `ValidSet`,
`Consistent`, `MatchesPrev` (the skip of rekey), `SealMatches` (that of reseal).
Paths, names and keys are atoms. Bytes are `Junk` or a ciphertext: the set of
keys it is encrypted to, the plaintext and a nonce. The nonce matters, for the
program hashes ciphertexts and age never makes the same one twice. A SHA-256 is
the record of what it digests, so that digests are equal when their contents
are; `Sha(x)` is not `x`, and a field that should be a digest and is not fails
the type invariant. A storage directory is the set of `*.age` paths beneath it,
which makes "one lies beneath the other" an intersection.

**Run.** One invocation: `run[p]` has a program counter and the variables of the
Rust functions that outlive a file access (`loaded` is `manifest_initial`,
`draft` is what will be committed: `manifest` together with the `new_section` of
each host). `Invoke` is `main::dispatch` up to the manifest; `Commit` and
`CommitFails` end a command; `Crash` ends it anywhere; `ListOrphans` to `EndSweep`
are `sweep_orphans`. `Encrypt` yields a ciphertext that nothing in the system
still refers to: with finitely many nonces that is how "never the same twice" is
said, and it keeps the state space finite. `SessionKeys` and `OpenSession` are
the batch unwrap: one session holds the tokens of *all* sources in hand.

**Rekey, Reseal, Gc.** One action per file access, decision or external call of
the function, in the order of the code. The order of sources and of targets,
fixed in the code by a `BTreeMap`, is left open. `record_secret_failure` is the
set `doomed`: while it is not empty the run does nothing but purge. When a write
fails the file may or may not have been replaced (`FanOutFails`, `ResealFails`,
`CommitFails`).

**Edit.** edit decrypts, waits for the editor, writes back, and goes on as a
rekey in the same process, with the plans it was started with. A source that
does not exist is staged as the empty plaintext. view is one step.

**Tombkey.** The composition, the environment and the properties. The
environment re-encrypts, restores, damages or deletes a source; deletes, damages
or restores an older version of any file in a storage directory; deletes the
manifest; changes the configuration. "Older version" is the interesting one: a
`git checkout` of an output brings back bytes that once were right, and so does
a power cut after a deletion, which the code does not sync - even bytes that
nothing refers to any more. `Meddling`
says whether the checkout may be changed while a command runs; the configuration
may always change, since a command keeps the plans it was started with.

**Editor.** The process (`pc`), the editor as a child that writes and removes the
file and exits when it likes, and signals delivered between any two steps: until
a handler is installed they kill, afterwards they set `aborted`, for the rest of
the process's life. `heard` and `trouble` are history. Errors pass through
`wipe`, the `Drop` of `LoadedSecret`, because Rust drops locals on the way out.

**BatchUnwrap.** The loop that decides which sources are sent and under which
index, the plugin's answers - any index, any number of times, with the key of any
source it can open or a wrong one - and the three attempts; then
`decrypt_pending`, source by source. File keys are named by the source they open.
`lied` and `disturbed` record what the plugin did, so that the promises can be
exact about when they hold.

**AtomicWrite.** One action per system call. `unsynced` is the set of entries a
power cut may leave, `onDisk` how much of each file's data; a directory just
created may vanish with its contents, since its own entry is never synced.

**PlanCheck.** The loops of `validate` and `validate_set` over their hash sets,
one iteration a step, on paths as sequences of components; `Denotes` is the file
a path leads to. Paths are compared as `Path` compares them, which is not quite
by spelling: that gap is what `reject_traversal` has to close.

**PluginPath.** `$PATH` as a set of directories and the guards that live, through
every command, with an error possible at each step.

Each definition named in the map of `PROJECT.json` is tied to the lines it
stands for. Definitions whose comment begins with "A slip" are mistakes the
code does *not* make: each, put in place of the definition that follows it,
breaks a property, and shows that the property depends on that line of code.

## What is checked

The runs of the composition use `TombkeyMC`, `rekey_solo` and `others_solo`
through `SoloMC`, which has TLC evaluate the hypotheses of the theorems about
such runs. Ten of the configurations of `rekey_solo` have two hosts that share
one source and differ in the ways the README's workflows change things: master
added, master replaced, host key rotated, output moved, secret or host removed;
and three that must be refused (divergent masters, overlapping directories, an
output that is its source). Two have a host with two secrets whose outputs swap
places, and one has two hosts with a source and a token each. The other runs of
the composition use smaller configurations of the same kinds, since they have
more commands or processes.

| run | what varies | properties |
|---|---|---|
| `rekey_solo` | rekey; thirteen configurations; 2 events | `TypeOK` `SkipIsSafe` `SweepSparesOutputs` `RekeyLeavesNoStale` `RekeySettles` `Converges` `Quiesces` |
| `others_solo` | reseal with and without `--force`, gc, view, edit with its rekey, for all hosts or one; sources shared, of one host, of nobody, or to be created; 2 events | `ResealSkipIsSafe` `ResealKeepsPlaintext` `GcKeepsSkips` `OthersUntouched` `EditSealsForConsumers` `EditIsDeployed` `StaysInStorage` |
| `rekey_beside` | rekey beside reseal or edit, meddling; 1 event | `Truthful` `SkipIsSafe` `ResealSkipIsSafe` `StaysInStorage` |
| `workflow` | rekey, reseal, gc and edit again and again, meddling; 2 events | `Converges` `Quiesces` |
| `edit_session` | one edit of three texts; any signals, writes, kills and errors | `TypeOK` `HeedsSignals` `SignalsNeverTear` `SavesWhatEditorLeft` `WipedBeforeUnlink` `SessionSpec` |
| `batch_unwrap` | every batch of three sources over two tokens and a native key | `TypeOK` `KeysGoHome` `UnwrapsAll` `OpeningSpec` |
| `atomic_write` | three calls for one file; failures, kills, power cuts | `TypeOK` `OkIsDurable` `FileSpec` |
| `plan_check` | 16,000 sets of one or two plans, up to two secrets | `TypeOK` `AcceptedIsSound` `RejectedForCause` `EditFindsMasters` |
| `plugin_path` | 1,152 pairs of plans, three values of `$PATH`, four commands | `TypeOK` `PluginsAtHand` `PathIsKept` |

*Bounds.* An event is an edit, a reconfiguration, an I/O fault or a crash;
`MaxEvents` bounds them per behaviour. Commands themselves are not bounded: runs
follow one another for ever. Two events let a history have, say, a fault in one
run and a reconfiguration, a restored output or an edit before the next. Two
hosts and one shared source are what the cross-host conditions need; a second
source is needed for one failing while the other goes on, for swapped outputs
and for the shared session. The five nonces are as many as
are ever needed at once in these instances: a command short of one could not go
on, and deadlock is checked in every run of the composition. `rekey_beside` has
four, which only keeps other hands from an edit in a few states in which both
processes hold old versions (a fifth adds 0.4 % of states), and takes them up to
symmetry: they are compared for equality only, and `Encrypt` takes any one that
is free. The runs with liveness use no symmetry. `others_solo` has rekey
only as the end of an edit, which costs an event; rekey by itself is the subject
of `rekey_solo`. `workflow` has one host, whose key, masters and output change,
and lets other hands act at any step: while the editor is open, for instance.
`rekey_beside` has two processes on one host, and one event, since their
histories multiply; the second rekey is the one that ends an edit. Two reseals,
or more processes, are left out for that reason; the theorems cover them.

In the five smaller models nothing is cut short: every behaviour of the instance
is explored. Three sources are enough for one that is skipped to lie between two
that are sent; three writers for a rename to come between another's rename and
its sync, beside a third that is killed; two plans with one secret, or one plan
with two, for every comparison the checks make, since each is between two
things; three texts, one of them empty, for a text to change twice and be
nothing to wipe. `edit_session` and the others stop when their one command has
ended, so deadlock is not checked there; in the runs of the composition it is.

*What the solo runs assume.* `RekeyLeavesNoStale`, `RekeySettles`,
`ResealKeepsPlaintext`, `GcKeepsSkips`, `OthersUntouched`,
`EditSealsForConsumers` and `EditIsDeployed` say what one command does to a
checkout nobody else changes meanwhile; with another command or an editor at work
none of them holds, for want of a lock: a later commit, for instance, replaces
sections of other hosts with what it loaded before. `SkipIsSafe`,
`ResealSkipIsSafe`, `Truthful` and `StaysInStorage` need no such assumption.
`RekeySettles`, `GcKeepsSkips` and `EditIsDeployed` moreover are about layouts
that keep sources out of storage directories: see the first disagreement below,
and `SourcesApart` among the hypotheses of the theorems.

*Fairness.* A running process takes its steps (weak fairness of `Step(p)`, which
has no `Crash`: I/O calls return, with or without success, and an editor is
closed at last) and rekey is invoked again and again by every process that runs
it (strong fairness of `Invoke(p, "rekey")`, strong because another command may
be running whenever one looks). The second is the README's own way
out of every failure: "the next `rekey` run converges". Nothing is assumed of
the environment. `Converges` depends on the events being finite in number, which
the bound provides: with a disk that fails for ever nothing converges.

`SessionSpec` and `OpeningSpec` have liveness of their own: an edit comes to its
end, every source of a batch is opened or fails. Both rest on someone outside.
`Editor` assumes that the user closes the editor; signals do not help, since the
wait is resumed after each. `BatchUnwrap` assumes that the plugin ends each
session, by success or failure, which the code does not enforce: it has no
timeout, and a plugin that hangs hangs the command. Nothing is assumed about
signals, kills, answers or power cuts; `AtomicFile` promises no progress.

## Where the code and its documents disagree

Three runs end in a violation, each of one property that a text of the
repository states.

1. `sweep_takes_source`: the check on outputs is there to "keep the orphan sweep
   scoped to tombkey-owned outputs" (`plan.rs:172`), but nothing keeps a *source*
   out of the storage directory, and the sweep deletes it. Sources elsewhere,
   as in the README's layout, are safe.
2. `rotate_at_once`: the README has a master rotated by updating
   `masterIdentities` and running reseal. reseal opens sources with the *new*
   identities only; replaced in one step, the master cannot be. Adding the new
   master, resealing, removing the old one and resealing again works.
3. `edit_new_secret`: `normalize_secret_path` is to "normalize a user-provided
   secret path for plan lookup" (`ops/mod.rs:183`), but `canonicalize` works on
   files that exist. The plan of a secret still to be created, named through a
   `..`, is not found, and the new source is encrypted to the first host's
   masters. `EditFindsMasters`, which holds, is the same statement for files
   that exist.

One behaviour that a reader may not expect contradicts no text: a plugin session
is given the identity files of all sources in hand (`ops/mod.rs:63`), so a source
may be opened by a token its own consumers do not have, and whether it is
depends on what else is stale. For this reason `Carries`, the relation behind
most properties, lets a source be opened by its masters *or* a key in
`PluginKey`; with `PluginKey` empty, as in `rekey_beside`, it is the strict
statement.

## What is proved

Every invariant and every action property of the passing runs is also a theorem,
for every value of the constants - any number of processes, hosts, secrets and
keys, any configurations and initial checkouts, any bound on events:

| theorem | in | proves | if |
|---|---|---|---|
| `TypeCorrect` | `TombkeyProofs` | `TypeOK` | |
| `TruthfulAlways` | `TombkeyProofs` | `Truthful` | |
| `SkipSafety` | `TombkeyProofs` | `SkipIsSafe` | |
| `ResealSkipSafety` | `TombkeyProofs` | `ResealSkipIsSafe` | |
| `SweepSafety` | `TombkeyProofs` | `SweepSparesOutputs` | |
| `WritesStayInStorage` | `OrderProofs` | `StaysInStorage` | |
| `OthersSafe` | `SoloProofs` | `OthersUntouched` | `Solo` |
| `RekeySafe` | `SoloProofs` | `RekeyLeavesNoStale` | `Solo` |
| `RekeySettled` | `SoloProofs` | `RekeySettles` | `Solo`, `SourcesApart` |
| `ResealsSafe` | `SoloProofs` | `ResealKeepsPlaintext` | `Solo` |
| `GcSafe` | `SoloProofs` | `GcKeepsSkips` | `Solo`, `SourcesApart` |
| `EditsSafe` | `SoloProofs` | `EditSealsForConsumers` | `Solo` |
| `EditDeployed` | `SoloProofs` | `EditIsDeployed` | `Solo`, `SourcesApart`, `EditsApart` |

The inductive invariants are theorems too: `Invariance` (`Inv`), `OrderedAlways`
(`Ordered`) and, if `Solo`, `SteadyAlways` (`Steady`). The smaller modules:

| module | theorems | for any |
|---|---|---|
| `PlanCheckProofs` | `AcceptanceIsSound`, `RejectionHasCause`, `EditorFindsMasters` | number of plans and secrets, paths of any components and length |
| `EditorProofs` | `SignalsHeeded`, `NothingTorn`, `SavedIsLeft`, `UnlinkedIsWiped`, `SessionSafety` | texts |
| `BatchUnwrapProofs` | `KeysAtHome`, `AllUnwrapped`, `OpeningSafety` | batch, tokens and identities |
| `AtomicWriteProofs` | `Durability`, `Refinement` | number of writers |
| `PluginPathProofs` | `NoneLacking`, `PathKept` | plans, directories and plugins |

Each of them also proves its type invariant (`TypeCorrect`) and its inductive
invariant (`Invariance`).

*Assumptions on the constants.* `SentinelAssumption` (the values that stand for
"none" are not plans, entries and so on), `ConfigAssumption` (configurations and
initial checkouts have their types, tokens are masters), `BoundAssumption`,
`CommandAssumption` and `EditAssumption`. No configuration is assumed valid: a
command refuses those that are not. The other modules assume that their sentinels
are no data (`TextAssumption`, `BatchAssumption`, `WriterAssumption`,
`PathAssumption`) and that their inputs have their types (`InputAssumption`). TLC
evaluates all of them on every run.

*Hypotheses of single theorems.* Three, none of which can be left out:

- `Solo`: there is one process, and nobody else changes the checkout while it
  runs. Faults and crashes at every step remain, and so do edits, restored files
  and lost manifests between two runs, and a new configuration at any time.
- `SourcesApart`: no storage directory of plans that pass validation holds one of
  their sources. The code means to establish it and does not (first disagreement
  above): where it fails, the sweep deletes the source, or it is another secret's
  output and is written over. `StaysInStorage`, which needs no hypothesis, says
  that no other source is ever lost to rekey or gc.
- `EditsApart`: nor does one hold a file that people name to edit. It matters for
  a secret that no plan uses: the sweep of the rekey that ends the edit would
  remove it.

The README's layout, with `secrets/` beside `.tombkey/`, satisfies both of the
last. `SoloMC` states all three as an assumption, so that TLC confirms there
that they are met by runs in which everything the theorems speak of happens.

*The argument for what is recorded.* `SkipIsSafe` is not inductive: it speaks of
the manifest on disk, and a commit replaces that by what a process has carried
along, built up from something it loaded while files, configuration and manifest
went on changing. The strengthening is that **no manifest anywhere - on disk,
loaded, being built - ever says anything false about the bytes it names**
(`Certified`, `Sealed`), and that a process keeps to the plans it validated
(`KeepsToPlans`, `WorksSoundly`). This is stable because an entry is about
*contents*, by digest, and not about files: whatever happens to the files, "these
output bytes carry those source bytes for that key" stays true once it was.
`MatchIsCarried` then turns a truthful manifest into a right skip: the bytes on
disk have the digests the entry names, therefore they are the bytes it is true
of. The new entries are true because the fan-out records the digest of the bytes
it decrypted (`FanOutKeepsInv`), and because consumers of one source agree on its
masters (`MastersAreShared`); they sit under the right header because a new
section is made from the plan itself (`NewSectionsAreTrue`). No step depends on
what another process does, which is why the absence of a lock does no harm here.
`SweepSafety` rests on disjoint storage directories (`OrphansAreNotOutputs`).

*The argument for which files a step may write.* `Inv` says nothing of a
process's lists: by it alone a purge might come in any phase. `Orderly` says,
phase by phase, which lists may hold anything and which command may be there, and
that what is about to be removed lies in a storage directory of the plans in
hand. It speaks of one process's own variables only, so the steps of all others
keep it, and `WritesWhatIsStored` draws the conclusion: rekey and gc write in
storage directories and nowhere else.

*The argument for whole runs.* The promises about a command as a whole hold at
its end; `Steady` says what holds on the way there, of the process together with
the files and the manifest. For rekey (`Rekeying`): each target either waits, in
exactly one list and without an entry; or is done, with an output that carries
the source *as it was read* and the entry that says so; or failed, without an
entry, and its output is gone unless it is still to be purged or could not be.
When no target waits any more that is `RekeyLeavesNoStale`. The crux is the order
of steps: a target is moved from one list to the next in the step that writes its
output, a failed write may have left either version behind, and outputs of
different targets never meet (`OutputsDiffer`), so that a step disturbs the
account of its own target only (`AccountIsKept`). `Settling` adds that what was
read is still what the source is, which needs `SourcesApart`, and that what was
swept stays clean: with it the next run finds nothing to do. `Drafting` relates
the draft to the manifest on disk, which nobody else replaces; `Resealing` says
that reseal's sources are as it read them until it writes them, and are sealed in
its draft afterwards; `Editing` and `Deploying` follow the edited text through
the editor, the write and the rekey. A crash or an error leads to the idle
process, of which nothing is asked (`IdleIsSteady`), so that no promise rests on
a run coming to its end.

*The argument for the validation of plans.* The loops keep hash sets of what they
have seen; the invariant says that each set is exactly the image of the targets
passed so far, and that those are pairwise apart (`Validating`, `Separating`,
`Anchoring`), and that what earlier loops established holds of all targets
(`Validated`, `Separated`); what is turned down is turned down at a target that
is at fault by itself or beside one passed before, whence `RejectedForCause`. What
remains is about paths: the checks compare components, the promise is about
files. `Components` and `Denotes` are recursive
functions, and that each does what it should is shown without induction over an
operator, by a least counterexample (`LeastOfNat`, `WalksAgree`): two walks along
a path that start alike and are alike after each step if they were before it are
alike at its end. So a path of plain names denotes its own components, what
`RejectTraversal` lets through is such a path, and for these equality and
prefixes of components are equality and prefixes of files.

*The smaller modules.* *Editor*: which handlers are installed, and whether the
editor was started, is a function of the program counter (`Handlers`,
`Progressing`); once all three are installed a signal can only set the flag, which
stays set until the check (`Heeding`), and only a signal that comes before kills
(`Dying`); past the re-read the text in memory is what the editor left
(`Keeping`), and every way to the unlink leads past the wipe, with no editor
running (`Wiping`). *BatchUnwrap*: `orig_indices` and `eligible` are one and the
same increasing list of the sources that have a stanza (`Gathered`), a slot is
filled exactly for the indices answered for, with the right key unless the plugin
lied (`Answered`), and a session that was not disturbed was asked and answered for
everything (`Quiet`, `Decided`). *AtomicWrite*: a call past its sync has its data
on disk (`SyncedFirst`), every entry that may be met leads to a synced file
(`EntriesWhole`), and after a returned call the old version is no longer among
them (`OldIsGone`). *PluginPath*: what each step finds on `$PATH` (`Guarded`,
`Equipped`). The refinement theorems map every step to one of the abstract
specification or a stutter; `OpeningSafety` and `SessionSafety` are the safety
parts of `OpeningSpec` and `SessionSpec`.

*Only model-checked:* `Converges` and `Quiesces`, and the liveness parts of
`SessionSpec` and `OpeningSpec`, since the prover has no liveness under fairness.
`ResealAcceptsMasters` and `EditFindsMastersOfNew` are not theorems because they
are false, as their runs show.

## What is not modelled

- *JSON and recipient syntax*: they decide which strings become the atoms of the
  model, or refuse them before any step. So do argument parsing, the search for
  `flake.nix` and `--manifest`.
- *Symbolic links*: neither the checks of the code nor `Denotes` resolve them;
  `PlanCheck` knows them only as the reason `canonicalize` is called.
- *An output that exists and cannot be read* when it is classified: the code
  takes it for stale, as one that was changed, and writes it again. Outputs whose
  bytes were damaged lead to the same steps.
- *An output that is another secret's source*, which passes validation
  (`plan.rs:157` compares it with its own secret's) and replaces that source: it is
  in no configuration of the runs. The theorems whose hypotheses do not exclude it
  hold of it too.
- *An empty `local_storage_dir`* in the composition: `PlanCheck` shows that it is
  accepted for a single plan and overlaps with every other.
- *Armored sources in a batch*: the header parser of the session does not see
  through the armor, so such a source is left to its own identities; in
  `BatchUnwrap` and `Run` every source with a stanza is sent.
- *Messages and prompts of the plugin*: `msg` and `error` change nothing, prompts
  end the session; both are covered by answers that do not come and by `Retry`.
- *A sweep that sees a directory change while it reads it*: each directory is
  read in one step, then emptied file by file.
- *Files an editor leaves beside the staged one*, and the plaintext in memory:
  locking it is best effort, overwriting it is the work of a library.
- *The order of directories on `$PATH`*, which decides between two builds of one
  plugin.
- *Nix and agenix*: the first is evaluated elsewhere and appears as the set of
  configurations, the second is another project.

## Plan

Done: the store, the life of a command, rekey, reseal, gc, edit, their
composition; the editor, the plugin session, atomic writes, the validation of
plans and the plugin path in detail, three of them as refinements; theorems for
every invariant and every action property.

What is left, in this order:

1. An abstract specification of the manifest as a set of true statements that
   only an encryption adds to, and `Tombkey` proved to implement it.
2. Storage directories as paths in the composition, so that `PlanCheck` can be
   shown to establish `ValidSet` by a refinement and not by reading.
3. Armored sources, and sources whose plugin is another than fido2-hmac, in
   `BatchUnwrap`.
