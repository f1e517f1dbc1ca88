--------------------------- MODULE BatchUnwrapProofs ---------------------------
(***************************************************************************)
(* Theorems about BatchUnwrap for batches of any size, any keys, and a     *)
(* plugin that answers what it likes.                                      *)
(***************************************************************************)
EXTENDS BatchUnwrap, TLAPS

(* The gathering loop leaves out no source that it should send.            *)
Gathered ==
  /\ orig_indices = eligible
  /\ Len(eligible) <= seen
  /\ \A s \in Source : s <= seen /\ Stanzas(s) # {} => \E i \in DOMAIN eligible : eligible[i] = s
  /\ pc = "receive" => seen = Count

(* An index that was answered for has a key; without a lie it is the right *)
(* one; and a key is had only of what some token in hand unwraps.          *)
Answered ==
  /\ pc = "receive" => \A i \in DOMAIN eligible : i \in told => results[eligible[i]] # None
  /\ pc \in {"receive", "decrypt"} =>
       /\ ~lied => \A s \in Source : results[s] \in {None, s}
       /\ \A s \in Source : results[s] = s => Stanzas(s) \cap Identities # {}

(* Lies, failed attempts and sessions that were given up disturb.          *)
Quiet ==
  /\ lied => disturbed
  /\ attempt # 1 => disturbed
  /\ ~plugin => results = NoKeys /\ pc # "receive"

(* What the session was, once it is over.                                  *)
Decided ==
  /\ pc = "decrypt" <=> session # NotYet
  /\ pc = "decrypt" => session = {} \/ (plugin /\ session = Identities)
  /\ pc = "decrypt" /\ plugin /\ ~disturbed =>
       /\ session = Identities
       /\ \A s \in Source : Stanzas(s) \cap Identities # {} => results[s] = s
  /\ pc = "decrypt" => \A s \in Source : results[s] = s => session = Identities

Inv == TypeOK /\ Gathered /\ Answered /\ Quiet /\ Decided

-----------------------------------------------------------------------------
(* The wire *)

(* The answers that count are those for an index that was sent.            *)
LEMMA SentIndices ==
  ASSUME NEW idx
  PROVE  {w[1] : w \in {v \in Sent : v[1] = idx}} = {idx} \cap DOMAIN eligible
<1> DEFINE indices == {w[1] : w \in {v \in Sent : v[1] = idx}}
<1>1. ASSUME NEW i \in indices PROVE i \in {idx} \cap DOMAIN eligible
  <2>1. PICK w \in Sent : w[1] = idx /\ i = idx
    BY <1>1
  <2>2. PICK k \in DOMAIN eligible : w = <<k, eligible[k]>>
    BY <2>1 DEF Sent, WireIndex
  <2> QED
    BY <2>1, <2>2
<1>2. ASSUME idx \in DOMAIN eligible PROVE idx \in indices
  <2>1. <<idx, eligible[idx]>> \in Sent
    BY <1>2 DEF Sent, WireIndex
  <2>2. <<idx, eligible[idx]>>[1] = idx
    OBVIOUS
  <2> QED
    BY <2>1, <2>2
<1> QED
  BY <1>1, <1>2

(* The indices sent count up without a gap, so the plugin accepts them.    *)
LEMMA AlwaysAccepts == Accepts
<1>1. ASSUME NEW w \in Sent PROVE w[1] \in DOMAIN eligible
  BY <1>1 DEF Sent, WireIndex
<1>2. ASSUME NEW i \in DOMAIN eligible PROVE \E w \in Sent : w[1] = i
  <2>1. <<i, eligible[i]>> \in Sent
    BY <1>2 DEF Sent, WireIndex
  <2>2. <<i, eligible[i]>>[1] = i
    OBVIOUS
  <2> QED
    BY <2>1, <2>2
<1> QED
  BY <1>1, <1>2 DEF Accepts

(* A key the plugin comes by is nonsense or that of a source it was sent   *)
(* and that one of its tokens unwraps.                                     *)
LEMMA KnownKeys ==
  ASSUME NEW key \in Known
  PROVE  \/ key = Wrong
         \/ \E i \in DOMAIN eligible : key = eligible[i] /\ Stanzas(key) \cap Identities # {}
BY DEF Known, Sent, WireIndex

(* The initial states satisfy the invariant.                               *)
LEMMA InitInv == Init => Inv
<1> SUFFICES ASSUME Init PROVE Inv
  OBVIOUS
<1>1. PICK in \in Inputs : to = in.to /\ own = in.own
  BY DEF Init
<1>2. to \in [Source -> SUBSET Key] /\ own \in [Source -> SUBSET Key]
  BY <1>1, BatchAssumption
<1>3. \A s \in Source : ~(s <= 0)
  BY BatchAssumption DEF Source
<1>4. NoKeys \in [Source -> Source \cup {None, Wrong}]
  BY DEF NoKeys
<1>5. eligible \in Seq(Source) /\ orig_indices \in Seq(Source) /\ Len(eligible) = 0
  BY DEF Init
<1>6. TypeOK
  <2>1. 0 \in 0 .. Count /\ 1 \in 1 .. ATTEMPTS
    BY BatchAssumption DEF ATTEMPTS
  <2>2. outcome \in [Source -> {"pending", "open", "failed"}] /\ told \subseteq Source
    BY DEF Init
  <2> QED
    BY <1>2, <1>4, <1>5, <2>1, <2>2 DEF Init, TypeOK
<1>7. Gathered
  BY <1>3, <1>5 DEF Init, Gathered
<1> QED
  BY <1>6, <1>7 DEF Init, Inv, Answered, Quiet, Decided

-----------------------------------------------------------------------------
(* One step at a time *)

(* Gathering keeps the invariant: the indices are of the sources that have *)
(* a stanza, so far.                                                       *)
LEMMA GatherInv == Inv /\ Gather => Inv'
<1> SUFFICES ASSUME Inv, Gather PROVE Inv'
  OBVIOUS
<1> USE DEF Inv
<1>1. /\ pc = "gather" /\ plugin /\ seen < Count /\ seen' = seen + 1
      /\ IF Stanzas(seen + 1) # {}
         THEN /\ orig_indices' = Append(orig_indices, seen + 1)
              /\ eligible' = Append(eligible, seen + 1)
         ELSE UNCHANGED <<orig_indices, eligible>>
      /\ UNCHANGED <<batch, pc, attempt, results, outcome, history>>
  BY DEF Gather
<1>2. seen + 1 \in Source /\ seen' \in 0 .. Count
  BY <1>1, BatchAssumption DEF TypeOK, Source
<1>3. eligible' \in Seq(Source) /\ orig_indices' = eligible'
  <2>1. eligible \in Seq(Source) /\ orig_indices = eligible
    BY DEF TypeOK, Gathered
  <2>2. Append(eligible, seen + 1) \in Seq(Source)
    BY <1>2, <2>1
  <2> QED
    BY <1>1, <2>1, <2>2
<1>4. TypeOK'
  BY <1>1, <1>2, <1>3 DEF TypeOK, batch, history
<1>5. ASSUME NEW s \in Source, s <= seen', Stanzas(s) # {}
      PROVE  \E i \in DOMAIN eligible' : eligible'[i] = s
  <2>1. CASE s = seen + 1
    <3>1. eligible' = Append(eligible, s) /\ Len(eligible) \in Nat
      BY <1>1, <1>5, <2>1 DEF TypeOK
    <3>2. Len(eligible') = Len(eligible) + 1 /\ eligible'[Len(eligible) + 1] = s
      BY <3>1 DEF TypeOK
    <3>3. Len(eligible) + 1 \in DOMAIN eligible'
      BY <1>3, <3>1, <3>2
    <3> QED
      BY <3>2, <3>3
  <2>2. CASE s <= seen
    <3>1. PICK i \in DOMAIN eligible : eligible[i] = s
      BY <1>5, <2>2 DEF Gathered
    <3>2. i \in DOMAIN eligible' /\ eligible'[i] = s
      <4>1. eligible \in Seq(Source) /\ seen + 1 \in Source
        BY <1>2 DEF TypeOK
      <4>2. /\ i \in DOMAIN Append(eligible, seen + 1)
            /\ Append(eligible, seen + 1)[i] = eligible[i]
        BY <3>1, <4>1
      <4> QED
        BY <1>1, <3>1, <4>2
    <3> QED
      BY <3>2
  <2> QED
    BY <1>1, <1>5, <2>1, <2>2 DEF TypeOK, Source
<1>6. \A s \in Source : Stanzas(s)' = Stanzas(s)
  BY <1>1 DEF batch, Stanzas
<1>7. Len(eligible') <= seen'
  <2>1. Len(eligible') \in {Len(eligible), Len(eligible) + 1} /\ Len(eligible) \in Nat
    BY <1>1 DEF TypeOK
  <2> QED
    BY <1>1, <2>1 DEF TypeOK, Gathered
<1>8. Gathered'
  BY <1>1, <1>3, <1>5, <1>6, <1>7 DEF Gathered
<1> QED
  BY <1>1, <1>4, <1>8 DEF batch, history, Answered, Quiet, Decided

(* Sending keeps the invariant: every slot is empty again.                 *)
LEMMA SendInv == Inv /\ Send => Inv'
<1> SUFFICES ASSUME Inv, Send PROVE Inv'
  OBVIOUS
<1> USE DEF Inv, Send, batch, gathering
<1>1. results' = NoKeys /\ NoKeys \in [Source -> Source \cup {None, Wrong}]
  BY DEF FreshResults, NoKeys
<1>2. TypeOK'
  BY <1>1 DEF TypeOK
<1>3. \A s \in Source : results'[s] = None /\ None # s
  BY <1>1, BatchAssumption DEF NoKeys
<1>4. UNCHANGED Identities /\ (\A s \in Source : Stanzas(s)' = Stanzas(s))
  BY DEF Identities, Stanzas
<1> QED
  BY <1>1, <1>2, <1>3, <1>4 DEF Gathered, Answered, Quiet, Decided

(* An answer keeps it: a key goes to the slot of the source it was asked   *)
(* for.                                                                    *)
LEMMA FileKeyInv ==
  ASSUME NEW idx, NEW key \in Known, Inv, FileKey(idx, key)
  PROVE  Inv'
<1> USE DEF Inv
<1>1. /\ pc = "receive"
      /\ results' = IF idx \in DOMAIN orig_indices /\ IsEmpty(Slot(idx))
                    THEN [results EXCEPT ![Slot(idx)] = key] ELSE results
      /\ told' = told \cup ({idx} \cap DOMAIN eligible)
      /\ lied' = (lied \/ \E w \in Sent : w[1] = idx /\ idx \notin told /\ w[2] # key)
      /\ disturbed' = (disturbed \/ lied')
      /\ UNCHANGED <<to, own, plugin, pc, attempt, eligible, orig_indices, seen,
                     outcome, session>>
  BY SentIndices DEF FileKey, batch, gathering
<1>2. eligible \in Seq(Source) /\ DOMAIN eligible = 1 .. Len(eligible)
      /\ \A i \in DOMAIN eligible : eligible[i] \in Source
  BY DEF TypeOK
<1>3. idx \in DOMAIN eligible => Slot(idx) = eligible[idx] /\ orig_indices = eligible
  BY DEF Gathered, Slot
<1>4. key # None /\ key \in Source \cup {Wrong}
      /\ (key \in Source => Stanzas(key) \cap Identities # {})
  BY <1>2, KnownKeys, BatchAssumption
<1>5. DOMAIN eligible \subseteq Source
  BY <1>2, BatchAssumption DEF TypeOK, Gathered, Source
<1>6. TypeOK'
  BY <1>1, <1>2, <1>3, <1>4, <1>5, Zenon DEF TypeOK
<1>7. UNCHANGED Identities /\ (\A s \in Source : Stanzas(s)' = Stanzas(s))
  BY <1>1 DEF Identities, Stanzas
<1>8. Gathered'
  BY <1>1, <1>7 DEF Gathered
<1>9. \A i \in DOMAIN eligible : i \in told' => results'[eligible[i]] # None
  BY <1>1, <1>2, <1>3, <1>4 DEF TypeOK, Answered, IsEmpty
<1>10. ASSUME ~lied', NEW s \in Source PROVE results'[s] \in {None, s}
  <2>1. results[s] \in {None, s}
    BY <1>1, <1>10 DEF Answered
  <2>2. ASSUME idx \in DOMAIN eligible, IsEmpty(Slot(idx)), s = eligible[idx]
        PROVE  key = s
    <3>1. idx \notin told
      BY <1>1, <1>3, <2>2 DEF Answered, IsEmpty
    <3>2. <<idx, eligible[idx]>> \in Sent
      BY <2>2 DEF Sent, WireIndex
    <3> QED
      BY <1>1, <1>10, <2>2, <3>1, <3>2
  <2>3. results'[s] = IF idx \in DOMAIN eligible /\ IsEmpty(Slot(idx)) /\ eligible[idx] = s
                      THEN key ELSE results[s]
    BY <1>1, <1>3 DEF TypeOK, Gathered
  <2> QED
    BY <2>1, <2>2, <2>3
<1>11. ASSUME NEW s \in Source, results'[s] = s PROVE Stanzas(s) \cap Identities # {}
  BY <1>1, <1>3, <1>4, <1>11 DEF TypeOK, Answered
<1>12. Answered'
  BY <1>1, <1>7, <1>9, <1>10, <1>11 DEF Answered
<1>13. Quiet' /\ Decided'
  BY <1>1 DEF Quiet, Decided
<1> QED
  BY <1>6, <1>8, <1>12, <1>13

(* The end of a session keeps it: what was not answered for is a           *)
(* disturbance.                                                            *)
LEMMA DoneInv == Inv /\ Done => Inv'
<1> SUFFICES ASSUME Inv, Done PROVE Inv'
  OBVIOUS
<1> USE DEF Inv, batch, gathering
<1>1. /\ pc = "receive" /\ pc' = "decrypt" /\ session' = Identities
      /\ disturbed' = (disturbed \/ \E w \in Sent :
           Stanzas(w[2]) \cap Identities # {} /\ w[1] \notin told)
      /\ UNCHANGED <<to, own, plugin, attempt, eligible, orig_indices, seen,
                     results, outcome, told, lied>>
  BY DEF Done
<1>2. plugin /\ seen = Count
  BY <1>1 DEF Quiet, Gathered, TypeOK
<1>3. Identities \subseteq Token /\ NotYet # Identities
  BY BatchAssumption DEF Identities
<1>4. TypeOK'
  BY <1>1, <1>3 DEF TypeOK
<1>5. UNCHANGED Identities /\ (\A s \in Source : Stanzas(s)' = Stanzas(s))
  BY <1>1 DEF Identities, Stanzas
<1>6. ASSUME ~disturbed', NEW s \in Source, Stanzas(s) \cap Identities # {}
      PROVE  results[s] = s
  <2>1. s <= seen
    BY <1>2, BatchAssumption DEF Source
  <2>2. PICK i \in DOMAIN eligible : eligible[i] = s
    BY <1>6, <2>1 DEF Gathered
  <2>3. <<i, s>> \in Sent
    BY <2>2 DEF Sent, WireIndex
  <2>4. i \in told
    BY <1>1, <1>6, <2>3
  <2>5. results[s] # None /\ ~lied
    BY <1>1, <1>6, <2>2, <2>4 DEF Answered, Quiet
  <2> QED
    BY <1>1, <2>5 DEF Answered
<1>7. Gathered' /\ Answered' /\ Quiet'
  BY <1>1, <1>2, <1>5 DEF Gathered, Answered, Quiet
<1>8. Decided'
  BY <1>1, <1>2, <1>3, <1>5, <1>6 DEF Decided
<1> QED
  BY <1>4, <1>7, <1>8

(* A retry keeps it: nothing of the failed attempt is counted.             *)
LEMMA RetryInv == Inv /\ Retry => Inv'
<1> SUFFICES ASSUME Inv, Retry PROVE Inv'
  OBVIOUS
<1> USE DEF Inv, Retry, batch, gathering
<1>1. disturbed'
  BY AlwaysAccepts
<1>2. attempt' \in 1 .. ATTEMPTS
  BY DEF TypeOK, ATTEMPTS
<1>3. TypeOK'
  BY <1>1, <1>2, BatchAssumption DEF TypeOK
<1>4. \A s \in Source : ~(s <= seen')
  BY BatchAssumption DEF Source
<1>5. UNCHANGED Identities /\ (\A s \in Source : Stanzas(s)' = Stanzas(s))
  BY DEF Identities, Stanzas
<1> QED
  BY <1>1, <1>3, <1>4, <1>5 DEF Gathered, Answered, Quiet, Decided

(* Giving up keeps it: every source is left to its own identities.         *)
LEMMA GiveUpInv == Inv /\ GiveUp => Inv'
<1> SUFFICES ASSUME Inv, GiveUp PROVE Inv'
  OBVIOUS
<1> USE DEF Inv, GiveUp, batch, gathering
<1>1. disturbed'
  BY AlwaysAccepts
<1>2. NoKeys \in [Source -> Source \cup {None, Wrong}]
  BY DEF NoKeys
<1>3. TypeOK' /\ session' # NotYet
  BY <1>1, <1>2, BatchAssumption DEF TypeOK
<1>4. \A s \in Source : results'[s] = None /\ None # s
  BY BatchAssumption DEF NoKeys
<1>5. UNCHANGED Identities /\ (\A s \in Source : Stanzas(s)' = Stanzas(s))
  BY DEF Identities, Stanzas
<1> QED
  BY <1>1, <1>3, <1>4, <1>5 DEF Gathered, Answered, Quiet, Decided

(* The invariant survives every step, the plugin's answers among them.     *)
LEMMA NextInv == Inv /\ [Next]_vars => Inv'
<1> SUFFICES ASSUME Inv, [Next]_vars PROVE Inv'
  OBVIOUS
<1> USE DEF Inv
<1>1. ASSUME UNCHANGED <<batch, pc, attempt, gathering, results, session, told, lied>>,
             outcome' \in [Source -> {"pending", "open", "failed"}],
             disturbed' \in {disturbed, TRUE}
      PROVE  Inv'
  <2>1. UNCHANGED Identities /\ (\A s \in Source : Stanzas(s)' = Stanzas(s))
    BY <1>1 DEF Identities, Stanzas, batch
  <2> USE DEF batch, gathering
  <2>2. TypeOK'
    BY <1>1 DEF TypeOK
  <2>3. Gathered' /\ Answered'
    BY <1>1, <2>1 DEF Gathered, Answered
  <2>4. Quiet' /\ Decided'
    <3>1. /\ plugin' = plugin /\ pc' = pc /\ attempt' = attempt /\ lied' = lied
          /\ session' = session /\ results' = results /\ Identities' = Identities
      BY <1>1, <2>1
    <3>2. ~disturbed' => ~disturbed
      BY <1>1 DEF TypeOK
    <3>3. Quiet'
      BY <3>1, <3>2 DEF Quiet, NoKeys
    <3>4. Decided'
      BY <2>1, <3>1, <3>2 DEF Decided
    <3> QED
      BY <3>3, <3>4
  <2> QED
    BY <2>2, <2>3, <2>4
<1>2. CASE UNCHANGED vars
  BY <1>1, <1>2 DEF vars, history, TypeOK
<1>3. CASE NoPlugin
  <2>1. UNCHANGED Identities /\ (\A s \in Source : Stanzas(s)' = Stanzas(s))
    BY <1>3 DEF NoPlugin, Identities, Stanzas, batch
  <2>2. \A s \in Source : results[s] = None /\ None # s
    BY <1>3, BatchAssumption DEF NoPlugin, Quiet, NoKeys
  <2> QED
    BY <1>3, <2>1, <2>2, BatchAssumption
       DEF NoPlugin, batch, gathering, TypeOK, Gathered, Answered, Quiet, Decided
<1>4. CASE Gather
  BY <1>4, GatherInv
<1>5. CASE Send
  BY <1>5, SendInv
<1>6. CASE Done
  BY <1>6, DoneInv
<1>7. CASE Retry
  BY <1>7, RetryInv
<1>8. CASE GiveUp
  BY <1>8, GiveUpInv
<1>9. ASSUME NEW s \in Source, Decrypt(s) \/ DecryptFails(s) PROVE Inv'
  <2>1. outcome' \in [Source -> {"pending", "open", "failed"}]
    BY <1>9 DEF Decrypt, DecryptFails, TypeOK
  <2> QED
    BY <1>1, <1>9, <2>1 DEF Decrypt, DecryptFails, history
<1>10. ASSUME NEW idx \in 1 .. Count + 1, NEW key \in Known, FileKey(idx, key) PROVE Inv'
  BY <1>10, FileKeyInv
<1>11. CASE Disturb
  BY <1>1, <1>11 DEF Disturb, TypeOK
<1> QED
  BY <1>2, <1>3, <1>4, <1>5, <1>6, <1>7, <1>8, <1>9, <1>10, <1>11 DEF Next, Progress

-----------------------------------------------------------------------------
(* The theorems *)

(* The inductive invariant holds throughout.                               *)
THEOREM Invariance == Spec => []Inv
  BY InitInv, NextInv, PTL DEF Spec

(* Every variable keeps its type.                                          *)
THEOREM TypeCorrect == Spec => []TypeOK
<1>1. Inv => TypeOK
  BY DEF Inv
<1> QED
  BY Invariance, <1>1, PTL

(* Unless the plugin lies, a file key is given to the source it opens.     *)
THEOREM KeysAtHome == Spec => []KeysGoHome
<1>1. Inv => KeysGoHome
  BY DEF Inv, Answered, KeysGoHome
<1> QED
  BY Invariance, <1>1, PTL

(* Undisturbed, one session opens just what a token in hand can.           *)
THEOREM AllUnwrapped == Spec => []UnwrapsAll
<1>1. Inv => UnwrapsAll
  BY DEF Inv, Answered, Quiet, Decided, UnwrapsAll
<1> QED
  BY Invariance, <1>1, PTL

(* Opening a batch implements the safety part of its specification: no     *)
(* source fails without a cause, none opens that should not.               *)
THEOREM OpeningSafety ==
  Spec => Abstract!Init /\ [][Abstract!Disturb \/ Abstract!Progress]_(Abstract!vars)
<1>1. Init => Abstract!Init
  BY InitInv DEF Inv, TypeOK, Init, Abstract!Init, Key, Abstract!Key
<1>2. Inv /\ Inv' /\ [Next]_vars
        => [Abstract!Disturb \/ Abstract!Progress]_(Abstract!vars)
  <2> SUFFICES ASSUME Inv, Inv', [Next]_vars
               PROVE  [Abstract!Disturb \/ Abstract!Progress]_(Abstract!vars)
    OBVIOUS
  <2> USE DEF Abstract!vars, Abstract!Progress, Inv
  <2>1. ASSUME UNCHANGED <<to, own, plugin, session, outcome>>, disturbed' \in {disturbed, TRUE}
        PROVE  [Abstract!Disturb \/ Abstract!Progress]_(Abstract!vars)
    BY <2>1 DEF Abstract!Disturb
  <2>2. CASE NoPlugin
    <3>1. session' = {k \in Token : plugin /\ \E s \in Source : k \in own[s]}
      BY <2>2 DEF NoPlugin
    <3>2. session = NotYet
      BY <2>2 DEF NoPlugin, Decided
    <3> QED
      BY <2>2, <3>1, <3>2 DEF NoPlugin, batch, Abstract!OpenSession
  <2>3. CASE Done
    <3>1. plugin /\ session = NotYet
      BY <2>3 DEF Done, Quiet, Decided, TypeOK
    <3>2. session' = {k \in Token : plugin /\ \E s \in Source : k \in own[s]}
      BY <2>3, <3>1 DEF Done, Identities
    <3>3. disturbed' \in {disturbed, TRUE}
      BY <2>3 DEF Done, TypeOK
    <3> QED
      BY <2>3, <3>1, <3>2, <3>3 DEF Done, batch, Abstract!OpenSession
  <2>4. CASE GiveUp
    BY <2>4, AlwaysAccepts DEF GiveUp, batch, Decided, Abstract!OpenSession
  <2>5. ASSUME NEW s \in Source, Decrypt(s) \/ DecryptFails(s)
        PROVE  Abstract!Open(s) \/ Abstract!Fail(s)
    <3>1. /\ session # NotYet /\ outcome[s] = "pending"
          /\ UNCHANGED <<to, own, plugin, session, disturbed>>
      BY <2>5 DEF Decrypt, DecryptFails, Decided, batch, history
    <3>2. Stanzas(s) \subseteq to[s] /\ Abstract!Openers(s) = own[s] \cup session
      BY DEF Stanzas, Abstract!Openers
    <3>3. CASE Decrypt(s) /\ Opens(s)
      <4>1. Abstract!Openers(s) \cap to[s] # {}
        <5>1. CASE results[s] = s
          BY <2>5, <3>2, <3>3, <5>1 DEF Decrypt, Answered, Decided
        <5>2. CASE own[s] \cap to[s] # {}
          BY <3>2, <5>2
        <5> QED
          BY <3>3, <5>1, <5>2 DEF Opens
      <4> QED
        BY <3>1, <3>3, <4>1 DEF Decrypt, Abstract!Open
    <3>4. CASE Decrypt(s) /\ ~Opens(s)
      <4>1. outcome' = [outcome EXCEPT ![s] = "failed"] /\ pc = "decrypt"
        BY <3>4 DEF Decrypt
      <4>2. ASSUME ~disturbed PROVE Abstract!Openers(s) \cap to[s] = {}
        <5>1. results[s] = None
          BY <3>4, <4>1, <4>2 DEF Opens, Quiet, Answered
        <5>2. own[s] \cap to[s] = {} /\ s # None
          BY <3>4, <5>1, BatchAssumption DEF Opens
        <5>3. session \cap to[s] = {}
          <6>1. CASE session = {}
            BY <6>1
          <6>2. CASE plugin /\ session = Identities
            BY <4>1, <4>2, <5>1, <5>2, <6>2 DEF Decided, Stanzas, Identities
          <6> QED
            BY <4>1, <6>1, <6>2 DEF Decided
        <5> QED
          BY <3>2, <5>2, <5>3
      <4> QED
        BY <3>1, <4>1, <4>2 DEF Abstract!Fail
    <3>5. CASE DecryptFails(s)
      BY <3>1, <3>5 DEF DecryptFails, Abstract!Fail
    <3> QED
      BY <2>5, <3>3, <3>4, <3>5
  <2>6. CASE Gather \/ Send
    BY <2>6 DEF Gather, Send, batch, history
  <2>7. CASE Retry
    BY <2>1, <2>7, AlwaysAccepts DEF Retry, batch
  <2>8. ASSUME NEW idx \in 1 .. Count + 1, NEW key \in Known, FileKey(idx, key)
        PROVE  [Abstract!Disturb \/ Abstract!Progress]_(Abstract!vars)
    <3>1. disturbed' \in {disturbed, TRUE}
      BY <2>8 DEF FileKey, TypeOK
    <3> QED
      BY <2>1, <2>8, <3>1 DEF FileKey, batch
  <2>9. CASE Disturb \/ UNCHANGED vars
    BY <2>1, <2>9 DEF Disturb, vars, batch, history
  <2> QED
    BY <2>2, <2>3, <2>4, <2>5, <2>6, <2>7, <2>8, <2>9 DEF Next, Progress
<1> QED
  BY Invariance, <1>1, <1>2, PTL DEF Spec

=============================================================================
