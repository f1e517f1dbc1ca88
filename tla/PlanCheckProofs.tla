---------------------------- MODULE PlanCheckProofs ----------------------------
(***************************************************************************)
(* Theorems about PlanCheck for any plans, of any length, with any paths.  *)
(***************************************************************************)
EXTENDS PlanCheck, WellFoundedInduction, TLAPS

-----------------------------------------------------------------------------
(* Natural numbers and the walks along a path *)

(* A set of natural numbers that is not empty has a least element.         *)
LEMMA LeastOfNat ==
  ASSUME NEW T \in SUBSET Nat, T # {}
  PROVE  \E x \in T : \A y \in T : x <= y
<1> DEFINE R == OpToRel(<, Nat)
<1>1. IsWellFoundedOn(R, Nat)
  BY NatLessThanWellFounded
<1>2. \A x, y \in T : <<y, x>> \notin R => x <= y
  <2>1. \A x, y \in Nat : y < x => <<y, x>> \in R
    BY DEF OpToRel
  <2> HIDE DEF R
  <2> QED
    BY <2>1
<1> HIDE DEF R
<1>3. \E x \in T : \A y \in T : <<y, x>> \notin R
  BY <1>1, WFMin
<1> QED
  BY <1>2, <1>3

(* Two walks that start alike and are alike after a step whenever they     *)
(* were before it are alike throughout.                                    *)
LEMMA WalksAgree ==
  ASSUME NEW n \in Nat, NEW f, NEW g, f[0] = g[0],
         \A k \in 1 .. n : f[k - 1] = g[k - 1] => f[k] = g[k]
  PROVE  f[n] = g[n]
<1>1. SUFFICES ASSUME f[n] # g[n]
               PROVE  FALSE
  OBVIOUS
<1> DEFINE T == {k \in 0 .. n : f[k] # g[k]}
<1>2. PICK k \in T : \A l \in T : k <= l
  <2>1. T \in SUBSET Nat /\ T # {}
    BY <1>1
  <2> HIDE DEF T
  <2> QED
    BY <2>1, LeastOfNat
<1>3. k # 0 /\ k \in 1 .. n /\ k - 1 \in 0 .. n /\ k - 1 \notin T
  BY <1>2
<1> QED
  BY <1>2, <1>3

(* The beginnings of a path, of every length.                              *)
Beginnings(p) == [k \in 0 .. Len(p) |-> SubSeq(p, 1, k)]

(* Each has one component more than the one before.                        *)
LEMMA BeginningsGrow ==
  ASSUME NEW p \in FilePath
  PROVE  /\ Len(p) \in Nat
         /\ Beginnings(p)[0] = <<>> /\ Beginnings(p)[Len(p)] = p
         /\ \A k \in 1 .. Len(p) :
              Beginnings(p)[k] = Append(Beginnings(p)[k - 1], p[k])
  BY DEF Beginnings, FilePath

(* A walk along p that appends each component arrives at p.                *)
LEMMA AppendingWalk ==
  ASSUME NEW p \in FilePath, NEW f, f[0] = <<>>,
         \A k \in 1 .. Len(p) : f[k] = Append(f[k - 1], p[k])
  PROVE  f[Len(p)] = p
<1> DEFINE first == Beginnings(p)
<1>1. /\ Len(p) \in Nat /\ first[0] = <<>> /\ first[Len(p)] = p
      /\ \A k \in 1 .. Len(p) : first[k] = Append(first[k - 1], p[k])
  BY BeginningsGrow
<1> HIDE DEF first
<1>2. ASSUME NEW k \in 1 .. Len(p), f[k - 1] = first[k - 1]
      PROVE  f[k] = first[k]
  <2>1. f[k] = Append(f[k - 1], p[k])
    OBVIOUS
  <2>2. first[k] = Append(first[k - 1], p[k])
    BY <1>1
  <2> QED
    BY <1>2, <2>1, <2>2
<1>3. f[Len(p)] = first[Len(p)]
  <2>1. \A k \in 1 .. Len(p) : f[k - 1] = first[k - 1] => f[k] = first[k]
    BY <1>2
  <2>2. f[0] = first[0]
    BY <1>1
  <2> QED
    BY <1>1, <2>1, <2>2, WalksAgree
<1> QED
  BY <1>1, <1>3

(* Nothing is dropped from a path without empty parts and ".".             *)
LEMMA PlainComponents ==
  ASSUME NEW p \in FilePath,
         \A k \in 1 .. Len(p) : p[k] \notin {EmptyPart, CurDir}
  PROVE  Components(p) = p
<1> DEFINE next(f, k) == IF k = 0 THEN <<>>
                         ELSE IF k > 1 /\ p[k] \in {EmptyPart, CurDir} THEN f[k - 1]
                         ELSE Append(f[k - 1], p[k])
           kept == CHOOSE f : f = [k \in 0 .. Len(p) |-> next(f, k)]
           first == Beginnings(p)
<1>1. ASSUME NEW f, NEW k \in 0 .. Len(p)
      PROVE  next(f, k) = IF k = 0 THEN <<>> ELSE Append(f[k - 1], p[k])
  <2>1. k # 0 => p[k] \notin {EmptyPart, CurDir}
    BY BeginningsGrow
  <2> QED
    BY <2>1
<1> HIDE DEF next
<1>2. first = [k \in 0 .. Len(p) |-> next(first, k)]
  <2>1. first = [k \in 0 .. Len(p) |-> first[k]]
    BY DEF Beginnings
  <2>2. ASSUME NEW k \in 0 .. Len(p)
        PROVE  first[k] = next(first, k)
    <3>1. next(first, k) = IF k = 0 THEN <<>> ELSE Append(first[k - 1], p[k])
      BY <1>1
    <3>2. k = 0 \/ k \in 1 .. Len(p)
      BY BeginningsGrow
    <3> QED
      BY <3>1, <3>2, BeginningsGrow
  <2> HIDE DEF first
  <2> QED
    BY <2>1, <2>2
<1>3. kept = [k \in 0 .. Len(p) |-> next(kept, k)]
  <2> HIDE DEF first
  <2> QED
    BY <1>2
<1>4. Components(p) = kept[Len(p)]
  BY DEF Components, next
<1> HIDE DEF kept
<1>5. ASSUME NEW k \in 0 .. Len(p)
      PROVE  kept[k] = IF k = 0 THEN <<>> ELSE Append(kept[k - 1], p[k])
  <2>1. kept[k] = next(kept, k)
    BY <1>3
  <2> QED
    BY <1>1, <2>1
<1>6. kept[0] = <<>>
  BY <1>5, BeginningsGrow
<1>7. ASSUME NEW k \in 1 .. Len(p)
      PROVE  kept[k] = Append(kept[k - 1], p[k])
  <2>1. k \in 0 .. Len(p) /\ k # 0
    OBVIOUS
  <2> QED
    BY <1>5, <2>1
<1>8. kept[Len(p)] = p
  BY <1>6, <1>7, AppendingWalk
<1> QED
  BY <1>4, <1>8

(* A path made of names leads where it says.                               *)
LEMMA PlainDenotes ==
  ASSUME NEW p \in FilePath, Components(p) = p,
         \A k \in 1 .. Len(p) : p[k] \notin {ParentDir, CurDir}
  PROVE  Denotes(p) = p
<1> DEFINE next(f, k) == IF k = 0 THEN <<>> ELSE Enter(f[k - 1], p[k])
           dir == CHOOSE f : f = [k \in 0 .. Len(p) |-> next(f, k)]
           first == Beginnings(p)
<1>1. ASSUME NEW f, NEW k \in 0 .. Len(p)
      PROVE  next(f, k) = IF k = 0 THEN <<>> ELSE Append(f[k - 1], p[k])
  <2>1. k # 0 => p[k] \notin {ParentDir, CurDir}
    BY BeginningsGrow
  <2> QED
    BY <2>1 DEF Enter
<1> HIDE DEF next
<1>2. first = [k \in 0 .. Len(p) |-> next(first, k)]
  <2>1. first = [k \in 0 .. Len(p) |-> first[k]]
    BY DEF Beginnings
  <2>2. ASSUME NEW k \in 0 .. Len(p)
        PROVE  first[k] = next(first, k)
    <3>1. next(first, k) = IF k = 0 THEN <<>> ELSE Append(first[k - 1], p[k])
      BY <1>1
    <3>2. k = 0 \/ k \in 1 .. Len(p)
      BY BeginningsGrow
    <3> QED
      BY <3>1, <3>2, BeginningsGrow
  <2> HIDE DEF first
  <2> QED
    BY <2>1, <2>2
<1>3. dir = [k \in 0 .. Len(p) |-> next(dir, k)]
  <2> HIDE DEF first
  <2> QED
    BY <1>2
<1>4. Denotes(p) = dir[Len(p)]
  BY DEF Denotes, next
<1> HIDE DEF dir
<1>5. ASSUME NEW k \in 0 .. Len(p)
      PROVE  dir[k] = IF k = 0 THEN <<>> ELSE Append(dir[k - 1], p[k])
  <2>1. dir[k] = next(dir, k)
    BY <1>3
  <2> QED
    BY <1>1, <2>1
<1>6. dir[0] = <<>>
  BY <1>5, BeginningsGrow
<1>7. ASSUME NEW k \in 1 .. Len(p)
      PROVE  dir[k] = Append(dir[k - 1], p[k])
  <2>1. k \in 0 .. Len(p) /\ k # 0
    OBVIOUS
  <2> QED
    BY <1>5, <2>1
<1>8. dir[Len(p)] = p
  BY <1>6, <1>7, AppendingWalk
<1> QED
  BY <1>4, <1>8

(* What RejectTraversal lets through leads where it says, inside.          *)
LEMMA AdmittedPath ==
  ASSUME NEW p \in FilePath, ~RejectTraversal(p)
  PROVE  Components(p) = p /\ Denotes(p) = p /\ Inside(p)
<1>1. /\ Components(p) = p
      /\ \A c \in {RootDir, ParentDir, CurDir} : ~Contains(p, c)
  BY DEF RejectTraversal
<1>2. \A k \in 1 .. Len(p) : p[k] \notin {RootDir, ParentDir, CurDir}
  BY <1>1 DEF Contains
<1>3. Denotes(p) = p
  BY <1>1, <1>2, PlainDenotes
<1>4. p # <<>> => 1 \in 1 .. Len(p) /\ Head(p) = p[1]
  BY DEF FilePath
<1>5. Inside(p)
  BY <1>2, <1>4 DEF Inside
<1> QED
  BY <1>1, <1>3, <1>5

(* And it lets through what is spelled plainly.                            *)
LEMMA PlainPath ==
  ASSUME NEW p \in FilePath, Plainly(p)
  PROVE  ~RejectTraversal(p)
<1>1. \A k \in 1 .. Len(p) : p[k] \notin {RootDir, ParentDir, CurDir, EmptyPart}
  <2>1. \A k \in 1 .. Len(p) : p[k] \in Range(p)
    BY DEF Range, FilePath
  <2> QED
    BY <2>1 DEF Plainly
<1>2. Components(p) = p
  BY <1>1, PlainComponents
<1> QED
  BY <1>1, <1>2 DEF RejectTraversal, Contains

-----------------------------------------------------------------------------
(* What the loops decide, on the spellings *)

(* The secrets of plans ps, <<plan, secret>>, and those that come before   *)
(* secret n of plan k.                                                     *)
TargetsOf(ps) == UNION {{k} \X DOMAIN ps[k].secrets : k \in DOMAIN ps}

Before(ps, k, n) ==
  {t \in TargetsOf(ps) : t[1] < k \/ (t[1] = k /\ t[2] < n)}

EntryOf(ps, t) == ps[t[1]].secrets[t[2]]
SourceIn(ps, t) == Components(EntryOf(ps, t).rekey_file)
OutputIn(ps, t) == Components(EntryOf(ps, t).output_file)
MastersIn(ps, t) == ps[t[1]].master_identities

(* What Plan::validate asks of a plan, its secrets left aside,             *)
HeaderValid(ps, k) ==
  /\ ps[k].master_identities # {}
  /\ ~RejectTraversal(ps[k].local_storage_dir)
  /\ ~RejectTraversal(ps[k].manifest_file)

(* of one secret,                                                          *)
TargetValid(ps, t) ==
  /\ ~RejectTraversal(EntryOf(ps, t).rekey_file)
  /\ ~RejectTraversal(EntryOf(ps, t).output_file)
  /\ OutputIn(ps, t) # SourceIn(ps, t)
  /\ StartsWith(EntryOf(ps, t).output_file, ps[t[1]].local_storage_dir)

(* and of two secrets of one plan.                                         *)
OwnApart(ps, T) ==
  \A t, u \in T : t # u /\ t[1] = u[1] =>
    /\ EntryOf(ps, t).name # EntryOf(ps, u).name
    /\ OutputIn(ps, t) # OutputIn(ps, u)

(* What validate_set asks of two secrets of any plans, of labels,          *)
OutputsApart(ps, T) ==
  \A t, u \in T : t # u => OutputIn(ps, t) # OutputIn(ps, u)

LabelsApart(ps, n) ==
  \A k, l \in 1 .. n : k # l => ps[k].host_label # ps[l].host_label

(* and of the plans as a set.                                              *)
SetValid(ps) ==
  /\ \A k \in DOMAIN ps :
       Components(ps[k].manifest_file) = Components(ps[1].manifest_file)
  /\ \A k, l \in DOMAIN ps : k < l => ~Overlap(ps[k], ps[l])

(* Two secrets that share a source share their masters.                    *)
MastersShared(ps, T) ==
  \A t, u \in T : SourceIn(ps, t) = SourceIn(ps, u)
    => MastersIn(ps, t) = MastersIn(ps, u)

(* All that the checks of command c ask for.                               *)
Valid(ps, c) ==
  /\ \A k \in DOMAIN ps : HeaderValid(ps, k)
  /\ \A t \in TargetsOf(ps) : TargetValid(ps, t)
  /\ OwnApart(ps, TargetsOf(ps))
  /\ LabelsApart(ps, Len(ps))
  /\ OutputsApart(ps, TargetsOf(ps))
  /\ SetValid(ps)
  /\ c # "gc" => MastersShared(ps, TargetsOf(ps))

(* A target is a plan's number and a secret's number.                      *)
LEMMA TargetsAre ==
  ASSUME NEW ps \in Seq(Plan)
  PROVE  /\ Len(ps) \in Nat /\ DOMAIN ps = 1 .. Len(ps)
         /\ \A k \in DOMAIN ps :
              /\ ps[k] \in Plan
              /\ Len(ps[k].secrets) \in Nat
              /\ DOMAIN ps[k].secrets = 1 .. Len(ps[k].secrets)
         /\ \A k \in DOMAIN ps : \A n \in DOMAIN ps[k].secrets :
              <<k, n>> \in TargetsOf(ps)
         /\ \A t \in TargetsOf(ps) :
              /\ t[1] \in DOMAIN ps /\ t[2] \in DOMAIN ps[t[1]].secrets
              /\ t = <<t[1], t[2]>>
              /\ EntryOf(ps, t) \in SecretEntry
<1>1. /\ Len(ps) \in Nat /\ DOMAIN ps = 1 .. Len(ps)
      /\ \A k \in DOMAIN ps : ps[k] \in Plan
  OBVIOUS
<1>2. ASSUME NEW k \in DOMAIN ps
      PROVE  /\ ps[k].secrets \in Seq(SecretEntry)
             /\ Len(ps[k].secrets) \in Nat
             /\ DOMAIN ps[k].secrets = 1 .. Len(ps[k].secrets)
             /\ \A n \in DOMAIN ps[k].secrets : ps[k].secrets[n] \in SecretEntry
  <2>1. ps[k].secrets \in Seq(SecretEntry)
    BY <1>1 DEF Plan
  <2> QED
    BY <2>1
<1>3. \A k \in DOMAIN ps : \A n \in DOMAIN ps[k].secrets : <<k, n>> \in TargetsOf(ps)
  BY DEF TargetsOf
<1>4. ASSUME NEW t \in TargetsOf(ps)
      PROVE  /\ t[1] \in DOMAIN ps /\ t[2] \in DOMAIN ps[t[1]].secrets
             /\ t = <<t[1], t[2]>>
  <2>1. PICK k \in DOMAIN ps : t \in {k} \X DOMAIN ps[k].secrets
    BY DEF TargetsOf
  <2> QED
    BY <2>1
<1> QED
  BY <1>1, <1>2, <1>3, <1>4 DEF EntryOf

(* Before the first secret of the first plan there is none; Before moves   *)
(* on by one secret, or by one plan.                                       *)
LEMMA BeforeFirst ==
  ASSUME NEW ps \in Seq(Plan)
  PROVE  /\ \A t \in TargetsOf(ps) : t[1] \in Nat \ {0} /\ t[2] \in Nat \ {0}
         /\ Before(ps, 1, 1) = {}
         /\ \A k, n : Before(ps, k, n) \subseteq TargetsOf(ps)
  BY TargetsAre DEF Before

(* Past one secret, it is the one more that comes before;                  *)
LEMMA BeforeNextSecret ==
  ASSUME NEW ps \in Seq(Plan), NEW k \in DOMAIN ps,
         NEW n \in DOMAIN ps[k].secrets
  PROVE  /\ Before(ps, k, n + 1) = Before(ps, k, n) \cup {<<k, n>>}
         /\ <<k, n>> \notin Before(ps, k, n)
<1>1. <<k, n>> \in TargetsOf(ps) /\ k \in Nat /\ n \in Nat
  BY TargetsAre
<1>2. \A t \in TargetsOf(ps) : t[1] = k /\ t[2] = n => t = <<k, n>>
  BY TargetsAre
<1>3. \A t \in TargetsOf(ps) : t[2] < n + 1 <=> t[2] < n \/ t[2] = n
  BY <1>1, BeforeFirst
<1> QED
  BY <1>1, <1>2, <1>3, BeforeFirst DEF Before

(* past the last one of a plan, the next plan is at hand.                  *)
LEMMA BeforeNextPlan ==
  ASSUME NEW ps \in Seq(Plan), NEW k \in DOMAIN ps, NEW n \in Nat,
         n > Len(ps[k].secrets)
  PROVE  /\ Before(ps, k + 1, 1) = Before(ps, k, n)
         /\ k = Len(ps) => Before(ps, k, n) = TargetsOf(ps)
<1>1. ASSUME NEW t \in TargetsOf(ps)
      PROVE  /\ t[1] = k => t[2] < n
             /\ t[1] < k + 1 <=> t[1] < k \/ t[1] = k
             /\ ~(t[2] < 1)
             /\ k = Len(ps) => t[1] <= k
  BY TargetsAre, BeforeFirst
<1>2. k \in Nat /\ \A t \in TargetsOf(ps) : t[1] \in Nat
  BY TargetsAre, BeforeFirst
<1> QED
  BY <1>1, <1>2 DEF Before

-----------------------------------------------------------------------------
(* The inductive invariant: how much the loops have established *)

Typed == plans \in Seq(Plan) /\ (pc # "rejected" => plans # <<>>)

Done == Before(plans, i, j)
OwnDone == {t \in Done : t[1] = i}

(* While plans are validated, the former ones are valid, this one as far   *)
(* as its secret j, and the sets are what has been seen of it.             *)
Validating ==
  /\ pc \in {"header", "secret"} =>
       /\ \A k \in 1 .. i - 1 : HeaderValid(plans, k)
       /\ \A t \in Done : TargetValid(plans, t)
       /\ OwnApart(plans, Done)
       /\ labels = {} /\ DOMAIN anchors = {}
  /\ pc = "header" => j = 1
  /\ pc = "secret" => /\ HeaderValid(plans, i)
                      /\ names = {EntryOf(plans, t).name : t \in OwnDone}
                      /\ outputs = {OutputIn(plans, t) : t \in OwnDone}

Validated ==
  pc \notin {"header", "secret", "rejected"} =>
    /\ \A k \in DOMAIN plans : HeaderValid(plans, k)
    /\ \A t \in TargetsOf(plans) : TargetValid(plans, t)
    /\ OwnApart(plans, TargetsOf(plans))

(* Then labels and outputs are told apart,                                 *)
Separating ==
  /\ pc \in {"label", "output"} =>
       /\ OutputsApart(plans, Done)
       /\ outputs = {OutputIn(plans, t) : t \in Done}
  /\ pc = "label" => /\ j = 1 /\ LabelsApart(plans, i - 1)
                     /\ labels = {plans[k].host_label : k \in 1 .. i - 1}
  /\ pc = "output" => /\ LabelsApart(plans, i)
                      /\ labels = {plans[k].host_label : k \in 1 .. i}

Separated ==
  pc \notin {"header", "secret", "label", "output", "rejected"} =>
    /\ LabelsApart(plans, Len(plans))
    /\ OutputsApart(plans, TargetsOf(plans))

(* and each source seen so far is bound to the masters all its users have. *)
Anchoring ==
  /\ pc \in {"label", "output", "set"} => DOMAIN anchors = {}
  /\ pc = "set" => i = 1 /\ j = 1
  /\ pc = "anchor" =>
       /\ cmd # "gc" /\ SetValid(plans)
       /\ DOMAIN anchors = {SourceIn(plans, t) : t \in Done}
       /\ \A t \in Done : anchors[SourceIn(plans, t)] = MastersIn(plans, t)

(* The checks decide Valid.                                                *)
Decided ==
  /\ pc \in {"accepted", "opened"} => Valid(plans, cmd)
  /\ pc = "rejected" => plans = <<>> \/ ~Valid(plans, cmd)

(* The plan that edit and view use is the one that plan_consuming gives.   *)
Looked ==
  pc = "opened" =>
    cmd = "edit" /\ chosen = PlanConsuming(Normalize(asked[1], asked[2]))

Inv == /\ TypeOK /\ Typed /\ Validating /\ Validated /\ Separating
       /\ Separated /\ Anchoring /\ Decided /\ Looked

(* The invariant holds at the start, with nothing looked at yet.           *)
LEMMA InitInv == Init => Inv
<1> SUFFICES ASSUME Init PROVE Inv
  OBVIOUS
<1>1. plans \in Seq(Plan) /\ i = 1 /\ j = 1
  BY InputAssumption DEF Init
<1>2. plans # <<>> => /\ 1 \in DOMAIN plans /\ 1 \in 1 .. Len(plans[1].secrets) + 1
                      /\ Before(plans, 1, 1) = {}
  <2>1. plans # <<>> => 1 \in DOMAIN plans
    BY <1>1
  <2>2. plans # <<>> => 1 \in 1 .. Len(plans[1].secrets) + 1
    BY <1>1, <2>1, TargetsAre
  <2> QED
    BY <1>1, <2>1, <2>2, BeforeFirst
<1>3. pc = IF plans = <<>> THEN "rejected" ELSE "header"
  BY DEF Init
<1>4. TypeOK
  BY <1>1, <1>2, <1>3 DEF Init, TypeOK, PlanNow
<1>5. Typed /\ Decided /\ Looked
  BY <1>1, <1>3 DEF Typed, Decided, Looked
<1>6. Validating
  BY <1>1, <1>2, <1>3 DEF Init, Validating, Done, OwnApart
<1>7. Validated /\ Separating /\ Separated /\ Anchoring
  BY <1>3 DEF Validated, Separating, Separated, Anchoring
<1> QED
  BY <1>4, <1>5, <1>6, <1>7 DEF Inv

(* What the loops have at hand while they run.                             *)
LEMMA AtHand ==
  ASSUME Inv, pc # "rejected"
  PROVE  /\ plans \in Seq(Plan) /\ plans # <<>>
         /\ i \in DOMAIN plans /\ i \in Nat \ {0} /\ Len(plans) \in Nat
         /\ DOMAIN plans = 1 .. Len(plans)
         /\ j \in Nat \ {0} /\ j <= Len(plans[i].secrets) + 1
         /\ Len(plans[i].secrets) \in Nat
         /\ Done \subseteq TargetsOf(plans)
         /\ AtSecret <=> j \in DOMAIN plans[i].secrets
         /\ ~AtSecret => j > Len(plans[i].secrets)
         /\ AtSecret => <<i, j>> \in TargetsOf(plans)
         /\ PlanNow = plans[i] /\ Secret = EntryOf(plans, <<i, j>>)
<1>1. /\ plans \in Seq(Plan) /\ plans # <<>> /\ i \in DOMAIN plans
      /\ j \in 1 .. Len(plans[i].secrets) + 1
  BY DEF Inv, Typed, TypeOK, PlanNow
<1>2. /\ i \in Nat \ {0} /\ Len(plans) \in Nat /\ DOMAIN plans = 1 .. Len(plans)
      /\ Len(plans[i].secrets) \in Nat
      /\ DOMAIN plans[i].secrets = 1 .. Len(plans[i].secrets)
  BY <1>1, TargetsAre
<1>3. AtSecret <=> j \in DOMAIN plans[i].secrets
  BY <1>1, <1>2 DEF AtSecret, PlanNow
<1>4. ~AtSecret => j > Len(plans[i].secrets)
  BY <1>1, <1>2 DEF AtSecret, PlanNow
<1>5. j \in Nat \ {0} /\ Done \subseteq TargetsOf(plans)
  BY <1>1, <1>2, BeforeFirst DEF Done
<1>6. AtSecret => <<i, j>> \in TargetsOf(plans)
  BY <1>1, <1>3, TargetsAre
<1> QED
  BY <1>1, <1>2, <1>3, <1>4, <1>5, <1>6 DEF PlanNow, Secret, EntryOf

(* A command that is turned down for a reason ends well.                   *)
LEMMA RejectInv ==
  ASSUME Inv, pc # "rejected", pc' = "rejected", UNCHANGED <<plans, cmd, chosen>>,
         i' = i, j' \in {j, j + 1}, j' # j => AtSecret, ~Valid(plans, cmd)
  PROVE  Inv'
<1>1. /\ j \in Nat \ {0} /\ j <= Len(plans[i].secrets) + 1 /\ i \in DOMAIN plans
      /\ Len(plans[i].secrets) \in Nat /\ DOMAIN plans[i].secrets = 1 .. Len(plans[i].secrets)
      /\ AtSecret => j \in DOMAIN plans[i].secrets
  BY AtHand, TargetsAre
<1>2. i' \in DOMAIN plans' /\ j' \in 1 .. Len(PlanNow.secrets)' + 1
  BY <1>1 DEF PlanNow
<1>3. TypeOK'
  BY <1>2 DEF Inv, TypeOK
<1>4. Typed' /\ Decided' /\ Looked'
  BY DEF Inv, Typed, Decided, Looked
<1>5. Validating' /\ Validated' /\ Separating' /\ Separated' /\ Anchoring'
  BY DEF Validating, Validated, Separating, Separated, Anchoring
<1> QED
  BY <1>3, <1>4, <1>5 DEF Inv

(* The host's label and masters are looked at.                             *)
LEMMA ValidateHeaderInv == Inv /\ ValidateHeader => Inv'
<1> SUFFICES ASSUME Inv, ValidateHeader PROVE Inv'
  OBVIOUS
<1> USE DEF ValidateHeader
<1>1. PlanNow = plans[i] /\ i \in DOMAIN plans
  BY AtHand
<1>2. CASE HeaderValid(plans, i)
  <2>1. pc' = "secret"
    BY <1>1, <1>2 DEF Check, HeaderValid
  <2>2. j = 1 /\ Done' = Done /\ OwnDone' = {}
    <3>1. j = 1
      BY DEF Inv, Validating
    <3>2. Done' = Done /\ OwnDone' = {t \in Done : t[1] = i}
      BY DEF Done, OwnDone
    <3>3. \A t \in TargetsOf(plans) : t[2] \in Nat \ {0} /\ t[1] \in Nat
      BY AtHand, TargetsAre
    <3>4. i \in Nat
      BY AtHand
    <3> QED
      BY <3>1, <3>2, <3>3, <3>4 DEF Done, Before
  <2>3. TypeOK'
    BY <2>1 DEF Inv, TypeOK, PlanNow
  <2>4. Typed' /\ Decided' /\ Looked'
    BY <2>1 DEF Inv, Typed, Decided, Looked
  <2>5. Validating'
    BY <1>2, <2>1, <2>2 DEF Inv, Validating, FreshNames
  <2>6. Validated' /\ Separating' /\ Separated' /\ Anchoring'
    BY <2>1 DEF Validated, Separating, Separated, Anchoring
  <2> QED
    BY <2>3, <2>4, <2>5, <2>6 DEF Inv
<1>3. CASE ~HeaderValid(plans, i)
  <2>1. pc' = "rejected"
    BY <1>1, <1>3 DEF Check, HeaderValid
  <2>2. ~Valid(plans, cmd)
    BY <1>1, <1>3 DEF Valid
  <2> QED
    BY <2>1, <2>2, RejectInv
<1> QED
  BY <1>2, <1>3

(* One secret is looked at, against those of its host before it.           *)
LEMMA ValidateSecretInv == Inv /\ ValidateSecret => Inv'
<1> SUFFICES ASSUME Inv, ValidateSecret PROVE Inv'
  OBVIOUS
<1> DEFINE t == <<i, j>>
           ok == /\ TargetValid(plans, t)
                 /\ \A u \in OwnDone :
                      /\ EntryOf(plans, t).name # EntryOf(plans, u).name
                      /\ OutputIn(plans, t) # OutputIn(plans, u)
<1>1. /\ plans \in Seq(Plan) /\ i \in DOMAIN plans /\ i \in Nat /\ j \in Nat \ {0}
      /\ PlanNow = plans[i] /\ Secret = EntryOf(plans, t)
      /\ t \in TargetsOf(plans) /\ Done \subseteq TargetsOf(plans)
      /\ j \in DOMAIN plans[i].secrets
  BY AtHand DEF ValidateSecret
<1>2. t[1] = i /\ t[2] = j
  OBVIOUS
<1>3. Before(plans, i, j + 1) = Done \cup {t} /\ t \notin Done
  BY <1>1, BeforeNextSecret DEF Done, t
<1> HIDE DEF t
<1>4. /\ names = {EntryOf(plans, u).name : u \in OwnDone}
      /\ outputs = {OutputIn(plans, u) : u \in OwnDone}
  BY DEF Inv, Validating, ValidateSecret
<1>5. pc' = IF ok THEN "secret" ELSE "rejected"
  <2>1. ok <=> /\ Secret.name \notin names
               /\ Components(Secret.output_file) \notin outputs
               /\ Components(Secret.output_file) # Components(Secret.rekey_file)
               /\ ~RejectTraversal(Secret.rekey_file)
               /\ ~RejectTraversal(Secret.output_file)
               /\ StartsWith(Secret.output_file, PlanNow.local_storage_dir)
    BY <1>1, <1>2, <1>4 DEF TargetValid, OutputIn, SourceIn
  <2> QED
    BY <2>1 DEF ValidateSecret, Check
<1>6. CASE ok
  <2>1. pc' = "secret" /\ j' = j + 1 /\ i' = i /\ plans' = plans
    BY <1>5, <1>6 DEF ValidateSecret
  <2>2. Done' = Done \cup {t} /\ OwnDone' = OwnDone \cup {t}
    BY <1>2, <1>3, <2>1 DEF Done, OwnDone
  <2>3. /\ names' = {EntryOf(plans, u).name : u \in OwnDone \cup {t}}
        /\ outputs' = {OutputIn(plans, u) : u \in OwnDone \cup {t}}
    BY <1>1, <1>4 DEF ValidateSecret, OutputIn
  <2>4. OwnApart(plans, Done \cup {t})
    <3>1. \A u \in Done : u[1] = i => u \in OwnDone
      BY DEF OwnDone
    <3> QED
      BY <1>2, <1>6, <3>1 DEF Inv, Validating, ValidateSecret, OwnApart
  <2>5. TypeOK'
    <3>1. j' \in 1 .. Len(plans[i].secrets) + 1
      BY <1>1, <2>1, TargetsAre
    <3> QED
      BY <1>1, <2>1, <3>1 DEF Inv, TypeOK, ValidateSecret, PlanNow
  <2>6. Typed' /\ Decided' /\ Looked'
    BY <2>1 DEF Inv, Typed, Decided, Looked, ValidateSecret
  <2>7. Validating'
    BY <1>6, <2>1, <2>2, <2>3, <2>4 DEF Inv, Validating, ValidateSecret
  <2>8. Validated' /\ Separating' /\ Separated' /\ Anchoring'
    BY <2>1 DEF Validated, Separating, Separated, Anchoring
  <2> QED
    BY <2>5, <2>6, <2>7, <2>8 DEF Inv
<1>7. CASE ~ok
  <2>1. ~Valid(plans, cmd)
    <3>1. \A u \in OwnDone : u \in TargetsOf(plans) /\ u[1] = t[1] /\ u # t
      BY <1>1, <1>2, <1>3 DEF OwnDone
    <3> QED
      BY <1>1, <1>7, <3>1 DEF Valid, OwnApart
  <2> QED
    BY <1>5, <1>7, <2>1, RejectInv DEF ValidateSecret
<1> QED
  BY <1>6, <1>7

(* One plan's label is looked at, against those before it.                 *)
LEMMA CheckLabelInv == Inv /\ CheckLabel => Inv'
<1> SUFFICES ASSUME Inv, CheckLabel PROVE Inv'
  OBVIOUS
<1> USE DEF CheckLabel
<1> DEFINE ok == \A k \in 1 .. i - 1 : plans[k].host_label # plans[i].host_label
<1>1. /\ PlanNow = plans[i] /\ i \in DOMAIN plans /\ i \in Nat \ {0}
      /\ DOMAIN plans = 1 .. Len(plans) /\ Len(plans) \in Nat
  BY AtHand
<1>2. /\ labels = {plans[k].host_label : k \in 1 .. i - 1}
      /\ LabelsApart(plans, i - 1) /\ j = 1
  BY DEF Inv, Separating
<1>3. pc' = IF ok THEN "output" ELSE "rejected"
  BY <1>1, <1>2 DEF Check
<1>4. CASE ok
  <2>1. pc' = "output" /\ Done' = Done
    BY <1>3, <1>4 DEF Done
  <2>2. \A k \in 1 .. i : k \in 1 .. i - 1 \/ k = i
    BY <1>1
  <2>3. labels' = {plans[k].host_label : k \in 1 .. i}
    <3>1. \A k \in 1 .. i - 1 : k \in 1 .. i
      BY <1>1
    <3> QED
      BY <1>1, <1>2, <2>2, <3>1
  <2>4. LabelsApart(plans, i)
    BY <1>2, <1>4, <2>2 DEF LabelsApart
  <2>5. TypeOK' /\ Typed' /\ Decided' /\ Looked'
    BY <2>1 DEF Inv, TypeOK, PlanNow, Typed, Decided, Looked
  <2>6. Validating' /\ Validated'
    BY <2>1 DEF Inv, Validating, Validated
  <2>7. Separating'
    BY <2>1, <2>3, <2>4 DEF Inv, Separating
  <2>8. Separated' /\ Anchoring'
    BY <2>1 DEF Inv, Separated, Anchoring
  <2> QED
    BY <2>5, <2>6, <2>7, <2>8 DEF Inv
<1>5. CASE ~ok
  <2>1. PICK k \in 1 .. i - 1 : plans[k].host_label = plans[i].host_label
    BY <1>5
  <2>2. k \in 1 .. Len(plans) /\ i \in 1 .. Len(plans) /\ k # i
    BY <1>1
  <2>3. ~Valid(plans, cmd)
    BY <2>1, <2>2 DEF Valid, LabelsApart
  <2> QED
    BY <1>3, <1>5, <2>3, RejectInv
<1> QED
  BY <1>4, <1>5

(* One output is looked at, against those of all plans before it.          *)
LEMMA CheckOutputInv == Inv /\ CheckOutput => Inv'
<1> SUFFICES ASSUME Inv, CheckOutput PROVE Inv'
  OBVIOUS
<1> DEFINE t == <<i, j>>
           ok == \A u \in Done : OutputIn(plans, t) # OutputIn(plans, u)
<1>1. /\ plans \in Seq(Plan) /\ i \in DOMAIN plans /\ j \in Nat \ {0}
      /\ Secret = EntryOf(plans, t)
      /\ t \in TargetsOf(plans) /\ Done \subseteq TargetsOf(plans)
      /\ j \in DOMAIN plans[i].secrets
  BY AtHand DEF CheckOutput
<1>2. Before(plans, i, j + 1) = Done \cup {t} /\ t \notin Done
  BY <1>1, BeforeNextSecret DEF Done, t
<1> HIDE DEF t
<1>3. outputs = {OutputIn(plans, u) : u \in Done} /\ OutputsApart(plans, Done)
  BY DEF Inv, Separating, CheckOutput
<1>4. pc' = IF ok THEN "output" ELSE "rejected"
  BY <1>1, <1>3 DEF CheckOutput, Check, OutputIn
<1>5. CASE ok
  <2>1. pc' = "output" /\ j' = j + 1 /\ i' = i /\ plans' = plans
    BY <1>4, <1>5 DEF CheckOutput
  <2>2. Done' = Done \cup {t}
    BY <1>2, <2>1 DEF Done
  <2>3. outputs' = {OutputIn(plans, u) : u \in Done \cup {t}}
    BY <1>1, <1>3 DEF CheckOutput, OutputIn
  <2>4. OutputsApart(plans, Done \cup {t})
    BY <1>3, <1>5 DEF OutputsApart
  <2>5. TypeOK'
    <3>1. j' \in 1 .. Len(plans[i].secrets) + 1
      BY <1>1, <2>1, TargetsAre
    <3> QED
      BY <1>1, <2>1, <3>1 DEF Inv, TypeOK, CheckOutput, PlanNow
  <2>6. Typed' /\ Decided' /\ Looked' /\ Validating' /\ Validated'
    BY <2>1 DEF Inv, Typed, Decided, Looked, Validating, Validated, CheckOutput
  <2>7. Separating'
    BY <2>1, <2>2, <2>3, <2>4 DEF Inv, Separating, CheckOutput
  <2>8. Separated' /\ Anchoring'
    BY <2>1 DEF Inv, Separated, Anchoring, CheckOutput
  <2> QED
    BY <2>5, <2>6, <2>7, <2>8 DEF Inv
<1>6. CASE ~ok
  <2>1. ~Valid(plans, cmd)
    BY <1>1, <1>2, <1>6 DEF Valid, OutputsApart
  <2> QED
    BY <1>4, <1>6, <2>1, RejectInv DEF CheckOutput
<1> QED
  BY <1>5, <1>6

(* Storage directories are compared, each with each.                       *)
LEMMA CheckSetInv == Inv /\ CheckSet => Inv'
<1> SUFFICES ASSUME Inv, CheckSet PROVE Inv'
  OBVIOUS
<1> USE DEF CheckSet
<1>1. plans \in Seq(Plan) /\ i = 1 /\ j = 1 /\ DOMAIN anchors = {}
  BY AtHand DEF Inv, Anchoring
<1>2. pc' = IF SetValid(plans) THEN IF cmd = "gc" THEN "accepted" ELSE "anchor"
            ELSE "rejected"
  BY DEF Check, SetValid
<1>3. CASE SetValid(plans)
  <2>1. /\ \A k \in DOMAIN plans : HeaderValid(plans, k)
        /\ \A t \in TargetsOf(plans) : TargetValid(plans, t)
        /\ OwnApart(plans, TargetsOf(plans))
        /\ LabelsApart(plans, Len(plans))
        /\ OutputsApart(plans, TargetsOf(plans))
    BY DEF Inv, Validated, Separated
  <2>2. Done' = {}
    BY <1>1, BeforeFirst DEF Done
  <2>3. pc' = (IF cmd = "gc" THEN "accepted" ELSE "anchor")
    BY <1>2, <1>3
  <2>4. TypeOK' /\ Typed' /\ Looked'
    BY <2>3 DEF Inv, TypeOK, PlanNow, Typed, Looked
  <2>5. Decided'
    BY <1>3, <2>1, <2>3 DEF Decided, Valid
  <2>6. Validating' /\ Validated' /\ Separating' /\ Separated'
    BY <2>1, <2>3 DEF Validating, Validated, Separating, Separated
  <2>7. Anchoring'
    BY <1>1, <1>3, <2>2, <2>3 DEF Anchoring
  <2> QED
    BY <2>4, <2>5, <2>6, <2>7 DEF Inv
<1>4. CASE ~SetValid(plans)
  <2>1. pc' = "rejected"
    BY <1>2, <1>4
  <2>2. ~Valid(plans, cmd)
    BY <1>4 DEF Valid
  <2> QED
    BY <2>1, <2>2, RejectInv
<1> QED
  BY <1>3, <1>4

(* One source's masters are compared with those of its anchor.             *)
LEMMA CheckAnchorInv == Inv /\ CheckAnchor => Inv'
<1> SUFFICES ASSUME Inv, CheckAnchor PROVE Inv'
  OBVIOUS
<1> DEFINE t == <<i, j>>
           ok == SourceIn(plans, t) \in DOMAIN anchors =>
                   anchors[SourceIn(plans, t)] = MastersIn(plans, t)
<1>1. /\ plans \in Seq(Plan) /\ i \in DOMAIN plans /\ j \in Nat \ {0}
      /\ PlanNow = plans[i] /\ Secret = EntryOf(plans, t)
      /\ t \in TargetsOf(plans) /\ Done \subseteq TargetsOf(plans)
      /\ j \in DOMAIN plans[i].secrets
  BY AtHand DEF CheckAnchor
<1>2. Before(plans, i, j + 1) = Done \cup {t} /\ t[1] = i
  BY <1>1, BeforeNextSecret DEF Done, t
<1> HIDE DEF t
<1>3. /\ cmd # "gc" /\ SetValid(plans)
      /\ DOMAIN anchors = {SourceIn(plans, u) : u \in Done}
      /\ \A u \in Done : anchors[SourceIn(plans, u)] = MastersIn(plans, u)
  BY DEF Inv, Anchoring, CheckAnchor
<1>4. SourceIn(plans, t) = Components(Secret.rekey_file)
      /\ MastersIn(plans, t) = PlanNow.master_identities
  BY <1>1, <1>2 DEF SourceIn, MastersIn
<1>5. pc' = IF ok THEN "anchor" ELSE "rejected"
  BY <1>4 DEF CheckAnchor, Check
<1>6. CASE ok
  <2>1. pc' = "anchor" /\ j' = j + 1 /\ i' = i /\ plans' = plans /\ cmd' = cmd
    BY <1>5, <1>6 DEF CheckAnchor
  <2>2. Done' = Done \cup {t}
    BY <1>2, <2>1 DEF Done
  <2>3. /\ DOMAIN anchors' = DOMAIN anchors \cup {SourceIn(plans, t)}
        /\ \A x \in DOMAIN anchors : anchors'[x] = anchors[x]
        /\ SourceIn(plans, t) \notin DOMAIN anchors =>
             anchors'[SourceIn(plans, t)] = MastersIn(plans, t)
    BY <1>4 DEF CheckAnchor
  <2>4. /\ DOMAIN anchors' = {SourceIn(plans, u) : u \in Done \cup {t}}
        /\ \A u \in Done \cup {t} : anchors'[SourceIn(plans, u)] = MastersIn(plans, u)
    <3>1. DOMAIN anchors' = {SourceIn(plans, u) : u \in Done \cup {t}}
      BY <1>3, <2>3
    <3>2. \A u \in Done : anchors'[SourceIn(plans, u)] = MastersIn(plans, u)
      BY <1>3, <2>3
    <3>3. anchors'[SourceIn(plans, t)] = MastersIn(plans, t)
      BY <1>6, <2>3
    <3> QED
      BY <3>1, <3>2, <3>3
  <2>5. TypeOK'
    <3>1. j' \in 1 .. Len(plans[i].secrets) + 1
      BY <1>1, <2>1, TargetsAre
    <3> QED
      BY <1>1, <2>1, <3>1 DEF Inv, TypeOK, CheckAnchor, PlanNow
  <2>6. Typed' /\ Decided' /\ Looked' /\ Validating' /\ Validated' /\ Separating' /\ Separated'
    BY <2>1 DEF Inv, Typed, Decided, Looked, Validating, Validated, Separating,
                Separated, CheckAnchor
  <2>7. Anchoring'
    BY <1>3, <2>1, <2>2, <2>4 DEF Anchoring
  <2> QED
    BY <2>5, <2>6, <2>7 DEF Inv
<1>7. CASE ~ok
  <2>1. PICK u \in Done : /\ SourceIn(plans, u) = SourceIn(plans, t)
                          /\ MastersIn(plans, u) # MastersIn(plans, t)
    BY <1>3, <1>7
  <2>2. ~Valid(plans, cmd)
    BY <1>1, <1>3, <2>1 DEF Valid, MastersShared
  <2> QED
    BY <1>5, <1>7, <2>2, RejectInv DEF CheckAnchor
<1> QED
  BY <1>6, <1>7

(* The loop of a check has reached the end of a plan's secrets.            *)
LEMMA NextPlanInv == Inv /\ NextPlan => Inv'
<1> SUFFICES ASSUME Inv, NextPlan PROVE Inv'
  OBVIOUS
<1>1. /\ plans \in Seq(Plan) /\ i \in DOMAIN plans /\ i \in Nat \ {0}
      /\ Len(plans) \in Nat /\ DOMAIN plans = 1 .. Len(plans)
      /\ j \in Nat /\ j > Len(plans[i].secrets)
      /\ pc \in {"secret", "output", "anchor"} /\ j' = 1
      /\ plans' = plans /\ cmd' = cmd /\ labels' = labels /\ anchors' = anchors
      /\ chosen' = chosen /\ asked' = asked
  BY AtHand DEF NextPlan, StartOver
<1>2. /\ Before(plans, i + 1, 1) = Done
      /\ i = Len(plans) => Done = TargetsOf(plans)
      /\ Before(plans, 1, 1) = {}
  BY <1>1, BeforeNextPlan, BeforeFirst DEF Done
<1>3. /\ outputs' = IF pc = "secret" THEN {} ELSE outputs
      /\ i < Len(plans) => i' = i + 1
      /\ i >= Len(plans) => i' = 1
  BY <1>1 DEF NextPlan
<1>4. i' \in DOMAIN plans /\ i' - 1 \in {i, 0}
  BY <1>1, <1>3
<1>5. Len(plans[i'].secrets) \in Nat
  BY <1>1, <1>4, TargetsAre
<1>6. CASE pc = "secret"
  <2>1. /\ \A k \in 1 .. i : HeaderValid(plans, k)
        /\ \A t \in Done : TargetValid(plans, t)
        /\ OwnApart(plans, Done)
        /\ labels = {} /\ DOMAIN anchors = {}
    <3>1. \A k \in 1 .. i : k \in 1 .. i - 1 \/ k = i
      BY <1>1
    <3> QED
      BY <1>6, <3>1 DEF Inv, Validating
  <2>2. CASE i < Len(plans)
    <3>1. pc' = "header" /\ i' = i + 1 /\ Done' = Done
      BY <1>1, <1>2, <1>6, <2>2 DEF NextPlan, Done
    <3>2. TypeOK' /\ Typed'
      BY <1>1, <1>4, <1>5, <3>1 DEF Inv, TypeOK, Typed, PlanNow
    <3>3. Validating'
      BY <1>1, <2>1, <3>1 DEF Validating
    <3> QED
      BY <3>1, <3>2, <3>3 DEF Inv, Validated, Separating, Separated, Anchoring,
                              Decided, Looked
  <2>3. CASE i = Len(plans)
    <3>1. pc' = "label" /\ i' = 1 /\ Done' = {}
      BY <1>1, <1>2, <1>6, <2>3 DEF NextPlan, Done
    <3>2. TypeOK' /\ Typed'
      BY <1>1, <1>4, <1>5, <3>1 DEF Inv, TypeOK, Typed, PlanNow
    <3>3. Validating' /\ Validated'
      BY <1>1, <1>2, <2>1, <2>3, <3>1 DEF Validating, Validated
    <3>4. Separating'
      BY <1>1, <1>3, <1>6, <2>1, <3>1 DEF Separating, LabelsApart, OutputsApart
    <3>5. Anchoring'
      BY <1>1, <2>1, <3>1 DEF Anchoring
    <3> QED
      BY <3>1, <3>2, <3>3, <3>4, <3>5 DEF Inv, Separated, Decided, Looked
  <2> QED
    BY <1>1, <2>2, <2>3
<1>7. CASE pc = "output"
  <2>1. /\ OutputsApart(plans, Done) /\ outputs = {OutputIn(plans, t) : t \in Done}
        /\ LabelsApart(plans, i) /\ DOMAIN anchors = {}
        /\ labels = {plans[k].host_label : k \in 1 .. i}
    BY <1>7 DEF Inv, Separating, Anchoring
  <2>2. outputs' = outputs
    BY <1>3, <1>7
  <2>3. CASE i < Len(plans)
    <3>1. pc' = "label" /\ i' = i + 1 /\ i' - 1 = i /\ Done' = Done
      BY <1>1, <1>2, <1>7, <2>3 DEF NextPlan, Done
    <3>2. TypeOK' /\ Typed'
      BY <1>1, <1>4, <1>5, <3>1 DEF Inv, TypeOK, Typed, PlanNow
    <3>3. Validating' /\ Validated'
      BY <1>1, <1>7, <3>1 DEF Inv, Validating, Validated
    <3>4. Separating'
      BY <1>1, <2>1, <2>2, <3>1 DEF Separating
    <3> QED
      BY <1>1, <2>1, <3>1, <3>2, <3>3, <3>4 DEF Inv, Separated, Anchoring, Decided, Looked
  <2>4. CASE i = Len(plans)
    <3>1. pc' = "set" /\ i' = 1
      BY <1>1, <1>7, <2>4 DEF NextPlan
    <3>2. TypeOK' /\ Typed'
      BY <1>1, <1>4, <1>5, <3>1 DEF Inv, TypeOK, Typed, PlanNow
    <3>3. Validating' /\ Validated' /\ Separating'
      BY <1>1, <1>7, <3>1 DEF Inv, Validating, Validated, Separating
    <3>4. Separated'
      BY <1>1, <1>2, <2>1, <2>4 DEF Separated
    <3> QED
      BY <1>1, <2>1, <3>1, <3>2, <3>3, <3>4 DEF Inv, Anchoring, Decided, Looked
  <2> QED
    BY <1>1, <2>3, <2>4
<1>8. CASE pc = "anchor"
  <2>1. /\ cmd # "gc" /\ SetValid(plans)
        /\ DOMAIN anchors = {SourceIn(plans, t) : t \in Done}
        /\ \A t \in Done : anchors[SourceIn(plans, t)] = MastersIn(plans, t)
    BY <1>8 DEF Inv, Anchoring
  <2>2. CASE i < Len(plans)
    <3>1. pc' = "anchor" /\ i' = i + 1 /\ Done' = Done
      BY <1>1, <1>2, <1>8, <2>2 DEF NextPlan, Done
    <3>2. TypeOK' /\ Typed'
      BY <1>1, <1>4, <1>5, <3>1 DEF Inv, TypeOK, Typed, PlanNow
    <3>3. Anchoring'
      BY <1>1, <2>1, <3>1 DEF Anchoring
    <3>4. Validating' /\ Validated' /\ Separating' /\ Separated'
      BY <1>1, <1>8, <3>1 DEF Inv, Validating, Validated, Separating, Separated
    <3> QED
      BY <3>1, <3>2, <3>3, <3>4 DEF Inv, Decided, Looked
  <2>3. CASE i = Len(plans)
    <3>1. pc' = "accepted" /\ i' = 1
      BY <1>1, <1>8, <2>3 DEF NextPlan
    <3>2. TypeOK' /\ Typed'
      BY <1>1, <1>4, <1>5, <3>1 DEF Inv, TypeOK, Typed, PlanNow
    <3>3. MastersShared(plans, TargetsOf(plans))
      BY <1>2, <2>1, <2>3 DEF MastersShared
    <3>4. Valid(plans, cmd)
      BY <1>8, <2>1, <3>3 DEF Inv, Validated, Separated, Valid
    <3>5. Validating' /\ Validated' /\ Separating' /\ Separated'
      BY <1>1, <1>8, <3>1 DEF Inv, Validating, Validated, Separating, Separated
    <3> QED
      BY <1>1, <3>1, <3>2, <3>4, <3>5 DEF Inv, Anchoring, Decided, Looked
  <2> QED
    BY <1>1, <2>2, <2>3
<1> QED
  BY <1>1, <1>6, <1>7, <1>8

(* plan_consuming finds a plan, and one that uses the source if any does.  *)
LEMMA PlanConsumingIs ==
  ASSUME plans \in Seq(Plan), plans # <<>>, NEW path
  PROVE  /\ PlanConsuming(path) \in DOMAIN plans
         /\ \A t \in TargetsOf(plans) : SourceIn(plans, t) = path =>
              \E u \in TargetsOf(plans) : /\ u[1] = PlanConsuming(path)
                                         /\ SourceIn(plans, u) = path
<1> DEFINE consuming == {k \in DOMAIN plans : \E n \in DOMAIN plans[k].secrets :
                           Components(plans[k].secrets[n].rekey_file) = path}
<1>1. DOMAIN plans = 1 .. Len(plans) /\ Len(plans) \in Nat /\ 1 \in DOMAIN plans
  BY TargetsAre
<1>2. \A t \in TargetsOf(plans) : SourceIn(plans, t) = path => t[1] \in consuming
  BY TargetsAre DEF SourceIn, EntryOf
<1>3. \A k \in consuming : \E u \in TargetsOf(plans) :
        u[1] = k /\ SourceIn(plans, u) = path
  <2> SUFFICES ASSUME NEW k \in consuming
               PROVE  \E u \in TargetsOf(plans) : u[1] = k /\ SourceIn(plans, u) = path
    OBVIOUS
  <2>1. PICK n \in DOMAIN plans[k].secrets :
          Components(plans[k].secrets[n].rekey_file) = path
    OBVIOUS
  <2>2. <<k, n>> \in TargetsOf(plans)
    BY <2>1, TargetsAre
  <2> QED
    BY <2>1, <2>2 DEF SourceIn, EntryOf
<1>4. consuming \subseteq DOMAIN plans /\ consuming \in SUBSET Nat
  BY <1>1
<1>5. PlanConsuming(path) = IF consuming = {} THEN 1
                            ELSE CHOOSE k \in consuming : \A l \in consuming : k <= l
  BY DEF PlanConsuming
<1> HIDE DEF consuming
<1>6. CASE consuming = {}
  BY <1>1, <1>2, <1>5, <1>6
<1>7. CASE consuming # {}
  <2>1. \E k \in consuming : \A l \in consuming : k <= l
    BY <1>4, <1>7, LeastOfNat
  <2>2. PlanConsuming(path) \in consuming
    BY <1>5, <1>7, <2>1
  <2> QED
    BY <1>3, <1>4, <2>2
<1> QED
  BY <1>6, <1>7

(* The canonical plan is looked up.                                        *)
LEMMA LookUpInv ==
  ASSUME Inv, NEW p \in UserPaths, NEW exists \in BOOLEAN, LookUp(p, exists)
  PROVE  Inv'
<1> USE DEF LookUp
<1>1. plans \in Seq(Plan) /\ plans # <<>> /\ pc' = "opened"
  BY AtHand
<1>2. asked'[1] = p /\ asked'[2] = exists
  OBVIOUS
<1>3. PlanConsuming(Normalize(p, exists))' = PlanConsuming(Normalize(p, exists))
  BY DEF PlanConsuming
<1>4. TypeOK'
  <2>1. chosen' \in DOMAIN plans
    BY <1>1, PlanConsumingIs
  <2> QED
    BY <1>1, <2>1 DEF Inv, TypeOK, PlanNow
<1>5. Looked'
  BY <1>2, <1>3 DEF Looked
<1> QED
  BY <1>1, <1>4, <1>5 DEF Inv, Typed, Validating, Validated, Separating, Separated,
                          Anchoring, Decided

(* Every step keeps the invariant.                                         *)
LEMMA NextInv == Inv /\ [Next]_vars => Inv'
<1> SUFFICES ASSUME Inv, [Next]_vars PROVE Inv'
  OBVIOUS
<1>1. CASE UNCHANGED vars
  BY <1>1 DEF vars, Inv, TypeOK, PlanNow, Typed, Validating, Validated, Separating,
              Separated, Anchoring, Decided, Looked, Done, OwnDone, PlanConsuming
<1>2. CASE Next
  BY <1>2, ValidateHeaderInv, ValidateSecretInv, CheckLabelInv, CheckOutputInv,
     CheckSetInv, CheckAnchorInv, NextPlanInv, LookUpInv DEF Next
<1> QED
  BY <1>1, <1>2

-----------------------------------------------------------------------------
(* From spellings to files *)

(* The paths of plans that have been typed are sequences of parts.         *)
LEMMA PathTypes ==
  ASSUME NEW ps \in Seq(Plan)
  PROVE  /\ \A k \in DOMAIN ps : /\ ps[k].local_storage_dir \in FilePath
                                 /\ ps[k].manifest_file \in FilePath
         /\ \A t \in TargetsOf(ps) : /\ EntryOf(ps, t).rekey_file \in FilePath
                                     /\ EntryOf(ps, t).output_file \in FilePath
                                     /\ t[1] \in DOMAIN ps
  BY TargetsAre DEF Plan, SecretEntry

(* The files of plans whose paths are all admitted are those paths.        *)
LEMMA AdmittedFiles ==
  ASSUME plans \in Seq(Plan),
         \A k \in DOMAIN plans : /\ ~RejectTraversal(plans[k].local_storage_dir)
                                /\ ~RejectTraversal(plans[k].manifest_file),
         \A t \in TargetsOf(plans) :
           /\ ~RejectTraversal(EntryOf(plans, t).rekey_file)
           /\ ~RejectTraversal(EntryOf(plans, t).output_file)
  PROVE  /\ \A k \in DOMAIN plans :
              /\ Components(plans[k].local_storage_dir) = Directory(k)
              /\ Components(plans[k].manifest_file) = Denotes(plans[k].manifest_file)
              /\ Inside(Denotes(plans[k].manifest_file))
         /\ \A t \in TargetsOf(plans) :
              /\ SourceIn(plans, t) = SourceFile(t) /\ Inside(SourceFile(t))
              /\ OutputIn(plans, t) = OutputFile(t) /\ Inside(OutputFile(t))
              /\ Components(EntryOf(plans, t).output_file) = OutputFile(t)
              /\ Components(plans[t[1]].local_storage_dir) = Directory(t[1])
<1>1. ASSUME NEW k \in DOMAIN plans
      PROVE  /\ Components(plans[k].local_storage_dir) = Directory(k)
             /\ Components(plans[k].manifest_file) = Denotes(plans[k].manifest_file)
             /\ Inside(Denotes(plans[k].manifest_file))
  BY AdmittedPath, PathTypes DEF Directory
<1>2. ASSUME NEW t \in TargetsOf(plans)
      PROVE  /\ SourceIn(plans, t) = SourceFile(t) /\ Inside(SourceFile(t))
             /\ OutputIn(plans, t) = OutputFile(t) /\ Inside(OutputFile(t))
             /\ Components(EntryOf(plans, t).output_file) = OutputFile(t)
             /\ t[1] \in DOMAIN plans
  <2>1. EntryOf(plans, t) = SecretOf(t)
    BY DEF EntryOf, SecretOf
  <2> QED
    BY <2>1, AdmittedPath, PathTypes DEF SourceIn, OutputIn, SourceFile, OutputFile
<1> QED
  BY <1>1, <1>2

(* For such plans, what the checks ask of spellings is what Store demands  *)
(* of files.                                                               *)
LEMMA ValidIsSound ==
  ASSUME plans \in Seq(Plan), plans # <<>>,
         \A k \in DOMAIN plans : /\ ~RejectTraversal(plans[k].local_storage_dir)
                                /\ ~RejectTraversal(plans[k].manifest_file),
         \A t \in TargetsOf(plans) :
           /\ ~RejectTraversal(EntryOf(plans, t).rekey_file)
           /\ ~RejectTraversal(EntryOf(plans, t).output_file)
  PROVE  Valid(plans, cmd) <=> Sound /\ (cmd # "gc" => MastersAgree)
<1>1. /\ Targets = TargetsOf(plans)
      /\ DOMAIN plans = 1 .. Len(plans) /\ Len(plans) \in Nat /\ 1 \in DOMAIN plans
      /\ \A t \in TargetsOf(plans) : t[1] \in DOMAIN plans
      /\ \A t : EntryOf(plans, t) = SecretOf(t)
  BY TargetsAre DEF Targets, TargetsOf, EntryOf, SecretOf
<1>2. /\ \A k \in DOMAIN plans :
           /\ Components(plans[k].local_storage_dir) = Directory(k)
           /\ Components(plans[k].manifest_file) = Denotes(plans[k].manifest_file)
           /\ Inside(Denotes(plans[k].manifest_file))
      /\ \A t \in TargetsOf(plans) :
           /\ SourceIn(plans, t) = SourceFile(t) /\ Inside(SourceFile(t))
           /\ OutputIn(plans, t) = OutputFile(t) /\ Inside(OutputFile(t))
           /\ Components(EntryOf(plans, t).output_file) = OutputFile(t)
           /\ Components(plans[t[1]].local_storage_dir) = Directory(t[1])
  BY AdmittedFiles
<1>3. (\A k \in DOMAIN plans : HeaderValid(plans, k))
        <=> (\A k \in DOMAIN plans : plans[k].master_identities # {})
  BY DEF HeaderValid
<1>4. (\A t \in TargetsOf(plans) : TargetValid(plans, t))
        <=> (\A t \in TargetsOf(plans) : /\ OutputFile(t) # SourceFile(t)
                                        /\ IsPrefix(Directory(t[1]), OutputFile(t)))
  BY <1>2 DEF TargetValid, StartsWith
<1>5. OwnApart(plans, TargetsOf(plans)) /\ OutputsApart(plans, TargetsOf(plans))
        <=> (\A t, u \in TargetsOf(plans) : t # u =>
               /\ OutputFile(t) # OutputFile(u)
               /\ t[1] = u[1] => SecretOf(t).name # SecretOf(u).name)
  BY <1>1, <1>2 DEF OwnApart, OutputsApart
<1>6. LabelsApart(plans, Len(plans))
        <=> (\A k, l \in DOMAIN plans : k # l => plans[k].host_label # plans[l].host_label)
  BY <1>1 DEF LabelsApart
<1>7. (\A k \in DOMAIN plans :
         Components(plans[k].manifest_file) = Components(plans[1].manifest_file))
        <=> (\A k, l \in DOMAIN plans : k # l =>
               Denotes(plans[k].manifest_file) = Denotes(plans[l].manifest_file))
  BY <1>1, <1>2
<1>8. (\A k, l \in DOMAIN plans : k < l => ~Overlap(plans[k], plans[l]))
        <=> (\A k, l \in DOMAIN plans : k # l => ~IsPrefix(Directory(k), Directory(l)))
  <2>1. \A k, l \in DOMAIN plans :
          Overlap(plans[k], plans[l]) <=> \/ IsPrefix(Directory(l), Directory(k))
                                        \/ IsPrefix(Directory(k), Directory(l))
    BY <1>2 DEF Overlap, StartsWith
  <2>2. \A k, l \in DOMAIN plans : k # l <=> (k < l \/ l < k)
    BY <1>1
  <2> QED
    BY <2>1, <2>2
<1>9. MastersShared(plans, TargetsOf(plans)) <=> MastersAgree
  BY <1>1, <1>2 DEF MastersShared, MastersAgree, MastersIn, PlanOf
<1>10. Sound <=>
         /\ \A k \in DOMAIN plans : plans[k].master_identities # {}
         /\ \A t \in TargetsOf(plans) : /\ OutputFile(t) # SourceFile(t)
                                        /\ IsPrefix(Directory(t[1]), OutputFile(t))
         /\ \A t, u \in TargetsOf(plans) : t # u =>
              /\ OutputFile(t) # OutputFile(u)
              /\ t[1] = u[1] => SecretOf(t).name # SecretOf(u).name
         /\ \A k, l \in DOMAIN plans : k # l =>
              plans[k].host_label # plans[l].host_label
         /\ \A k, l \in DOMAIN plans : k # l =>
              Denotes(plans[k].manifest_file) = Denotes(plans[l].manifest_file)
         /\ \A k, l \in DOMAIN plans : k # l => ~IsPrefix(Directory(k), Directory(l))
  BY <1>1, <1>2 DEF Sound
<1> QED
  BY <1>3, <1>4, <1>5, <1>6, <1>7, <1>8, <1>9, <1>10 DEF Valid, SetValid

(* What is accepted is sound, and what is sound and spelled plainly is     *)
(* not turned down.                                                        *)
LEMMA DecidedIsRight == Inv => AcceptedIsSound /\ RejectedForCause
<1> SUFFICES ASSUME Inv PROVE AcceptedIsSound /\ RejectedForCause
  OBVIOUS
<1>1. plans \in Seq(Plan)
  BY DEF Inv, Typed
<1>2. ASSUME pc \in {"accepted", "opened"}
      PROVE  Sound /\ (cmd # "gc" => MastersAgree)
  <2>1. Valid(plans, cmd) /\ plans # <<>>
    BY <1>2 DEF Inv, Decided, Typed
  <2>2. /\ \A k \in DOMAIN plans : /\ ~RejectTraversal(plans[k].local_storage_dir)
                                  /\ ~RejectTraversal(plans[k].manifest_file)
        /\ \A t \in TargetsOf(plans) :
             /\ ~RejectTraversal(EntryOf(plans, t).rekey_file)
             /\ ~RejectTraversal(EntryOf(plans, t).output_file)
    BY <2>1 DEF Valid, HeaderValid, TargetValid
  <2> QED
    BY <1>1, <2>1, <2>2, ValidIsSound
<1>3. ASSUME pc = "rejected", Sound, cmd # "gc" => MastersAgree, SpelledPlainly
      PROVE  FALSE
  <2>1. ~Valid(plans, cmd) /\ plans # <<>>
    BY <1>3 DEF Inv, Decided, Sound
  <2>2. Targets = TargetsOf(plans) /\ \A t : EntryOf(plans, t) = SecretOf(t)
    BY DEF Targets, TargetsOf, EntryOf, SecretOf
  <2>3. \A k \in DOMAIN plans : /\ ~RejectTraversal(plans[k].local_storage_dir)
                               /\ ~RejectTraversal(plans[k].manifest_file)
    BY <1>1, <1>3, PathTypes, PlainPath DEF SpelledPlainly
  <2>4. \A t \in TargetsOf(plans) :
          /\ ~RejectTraversal(EntryOf(plans, t).rekey_file)
          /\ ~RejectTraversal(EntryOf(plans, t).output_file)
    BY <1>1, <1>3, <2>2, PathTypes, PlainPath DEF SpelledPlainly
  <2> QED
    BY <1>1, <1>3, <2>1, <2>3, <2>4, ValidIsSound
<1> QED
  BY <1>2, <1>3 DEF AcceptedIsSound, RejectedForCause

(* The plan that is found is one of those that use the file.               *)
LEMMA FoundIsRight == Inv => EditFindsMasters
<1> SUFFICES ASSUME Inv, pc = "opened", asked[2], NEW t \in Targets,
                    SourceFile(t) = Denotes(asked[1])
             PROVE  plans[chosen].master_identities = PlanOf(t).master_identities
  BY DEF EditFindsMasters, FoundItsMasters
<1>1. /\ plans \in Seq(Plan) /\ plans # <<>> /\ cmd = "edit" /\ Valid(plans, cmd)
      /\ chosen = PlanConsuming(Denotes(asked[1]))
  BY DEF Inv, Typed, Decided, Looked, Normalize
<1>2. Targets = TargetsOf(plans) /\ EntryOf(plans, t) = SecretOf(t)
  BY DEF Targets, TargetsOf, EntryOf, SecretOf
<1>3. SourceIn(plans, t) = SourceFile(t)
  <2>1. ~RejectTraversal(SecretOf(t).rekey_file) /\ SecretOf(t).rekey_file \in FilePath
    BY <1>1, <1>2, PathTypes DEF Valid, TargetValid
  <2> QED
    BY <1>2, <2>1, AdmittedPath DEF SourceIn, SourceFile
<1>4. PICK u \in TargetsOf(plans) : /\ u[1] = chosen
                                  /\ SourceIn(plans, u) = Denotes(asked[1])
  BY <1>1, <1>2, <1>3, PlanConsumingIs
<1>5. MastersIn(plans, u) = MastersIn(plans, t)
  BY <1>1, <1>2, <1>3, <1>4 DEF Valid, MastersShared
<1> QED
  BY <1>4, <1>5 DEF MastersIn, PlanOf

-----------------------------------------------------------------------------
(* The inductive invariant holds of every command, for plans of any        *)
(* number, length and spelling.                                            *)
THEOREM Invariance == Spec => []Inv
  BY InitInv, NextInv, PTL DEF Spec

(* Every variable keeps its type: the loops over plans and secrets of      *)
(* src/plan.rs and src/ops/mod.rs never run past their ends.               *)
THEOREM TypeCorrect == Spec => []TypeOK
<1>1. Inv => TypeOK
  BY DEF Inv
<1> QED
  BY <1>1, Invariance, PTL

(* Plans that pass Plan::validate, validate_set and the master check keep  *)
(* hosts, outputs, directories and sources apart as files.                 *)
THEOREM AcceptanceIsSound == Spec => []AcceptedIsSound
  BY DecidedIsRight, Invariance, PTL

(* And they are turned down only for a cause.                              *)
THEOREM RejectionHasCause == Spec => []RejectedForCause
  BY DecidedIsRight, Invariance, PTL

(* normalize_secret_path and plan_consuming find the masters of a file     *)
(* that is there, however it is spelled.                                   *)
THEOREM EditorFindsMasters == Spec => []EditFindsMasters
  BY FoundIsRight, Invariance, PTL

=============================================================================
