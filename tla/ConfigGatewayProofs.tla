------------------------- MODULE ConfigGatewayProofs ------------------------
(***************************************************************************)
(* Proofs about ConfigGenerations, GatewayDevices and GatewayFiles, what   *)
(* the daemon and its gateway run by and keep. For any documents,          *)
(* adapters, operators, boots and crashes what is active has been tested,  *)
(* a boot over an active generation is never wedged, and no activation is  *)
(* lost. For any devices, operator input and number of commands at once no *)
(* command loses what another has reported, and every request is served by *)
(* the registry as it was reported. For any requests at once and any kills *)
(* the gateway's index, device id and staged proposals are kept.           *)
(***************************************************************************)
EXTENDS ConfigGenerations, GatewayDevices, GatewayFiles, SequenceTheorems,
        FiniteSetTheorems, TLAPS

-----------------------------------------------------------------------------
(* Configuration: the inductive invariant.                                 *)

\* Some activation of document d has been staged.
Held(d) == \E i \in 1..Len(stream) : stream[i].gen = d

\* A test that has passed keeps its adapters; what was active was proposed, as
\* was what a boot has recorded; the revision counts the activations.
StoreInv ==
    /\ \A d \in Docs : gens[d] = "passed" => Needs[d] \subseteq registered
    /\ active # None => gens[active] = "passed"
    /\ \A d \in Docs : Held(d) => active # None /\ gens[d] # "none"
    /\ \A d \in Docs, r \in Nat : <<d, r>> \in proposals => gens[d] # "none"
    /\ revision = Len(stream)

\* What a boot works with is what it read, since nobody else acts meanwhile.
BootInv ==
    /\ pc \in {"propose", "test", "activate"} =>
         /\ doc \in Docs
         /\ running = Services[doc]
         /\ expected = revision
         /\ rollback <=> Held(doc)
    /\ pc = "propose" => active = None \/ gens[doc] = "none"
    /\ pc = "test" => gens[doc] # "none"
    /\ pc = "activate" => gens[doc] = "passed"
    /\ pc = "failed" => active = None \/ ~(Needs[doc] \subseteq registered)

\* An operator's reading is of the past, and is the pointer while its revision is.
SeenInv ==
    \A o \in Operators : /\ seen[o].revision <= revision
                         /\ seen[o].revision = revision => seen[o].gen = active

ConfigInv ==
    /\ ConfigTypeOK /\ StoreInv /\ BootInv /\ SeenInv
    /\ ServicesFrozen /\ RollbackNamed

LEMMA ConfigInvInit == ConfigInit => ConfigInv
<1> SUFFICES ASSUME ConfigInit PROVE ConfigInv
  OBVIOUS
<1>1. stream = <<>> /\ Len(stream) = 0 /\ stream \in Seq(Event)
  BY EmptySeq, Zenon DEF ConfigInit
<1>2. ConfigTypeOK
  <2>1. 0 \in 0..MaxRevision /\ 0 \in 0..MaxBoots /\ 0 \in 0..Len(stream)
    BY <1>1, ConfigAssumption
  <2>2. seen \in [Operators -> [revision : 0..MaxRevision, gen : Docs \cup {None}]]
    BY <2>1 DEF ConfigInit
  <2>3. gens \in [Docs -> {"none", "untested", "passed"}]
    BY DEF ConfigInit
  <2> QED BY <1>1, <2>1, <2>2, <2>3, Zenon DEF ConfigInit, ConfigTypeOK
<1>3. StoreInv
  BY <1>1 DEF ConfigInit, StoreInv, Held
<1>4. BootInv /\ SeenInv /\ ServicesFrozen
  BY DEF ConfigInit, BootInv, SeenInv, ServicesFrozen
<1>5. RollbackNamed
  BY <1>1 DEF RollbackNamed
<1> QED BY <1>2, <1>3, <1>4, <1>5 DEF ConfigInv

-----------------------------------------------------------------------------
(* Configuration: one lemma per kind of step.                              *)

\* Appending an event keeps the earlier ones and adds it last.
LEMMA Appended ==
    ASSUME NEW S, NEW s \in Seq(S), NEW e \in S
    PROVE  /\ Append(s, e) \in Seq(S)
           /\ Len(Append(s, e)) = Len(s) + 1
           /\ Len(s) \in Nat
           /\ \A i \in 1..Len(s) : Append(s, e)[i] = s[i]
           /\ Append(s, e)[Len(s) + 1] = e
           /\ DOMAIN s = 1..Len(s)
           /\ DOMAIN Append(s, e) = 1..(Len(s) + 1)
OBVIOUS

\* No step outside activate changes what these speak of.
LEMMA SameStore ==
    ASSUME ConfigInv,
           UNCHANGED <<active, revision, stream>>,
           gens' \in [Docs -> {"none", "untested", "passed"}],
           \A d \in Docs : gens[d] # "none" => gens'[d] # "none",
           \A d \in Docs : gens[d] = "passed" => gens'[d] = "passed",
           \A d \in Docs : gens'[d] = "passed" => Needs[d] \subseteq registered',
           \A d \in Docs, r \in Nat : <<d, r>> \in proposals' => gens'[d] # "none"
    PROVE  StoreInv' /\ RollbackNamed' /\ \A d : Held(d)' <=> Held(d)
<1>1. \A d : Held(d)' <=> Held(d)
  BY Zenon DEF Held
<1>2. active # None => active \in Docs
  BY Zenon DEF ConfigInv, ConfigTypeOK
<1>3. StoreInv'
  BY <1>1, <1>2, Zenon DEF ConfigInv, StoreInv
<1>4. RollbackNamed'
  BY Zenon DEF ConfigInv, RollbackNamed
<1> QED BY <1>1, <1>3, <1>4, Zenon

\* activate moves the pointer to a generation that may hold it, and stages the
\* event that says so; a boot's event is named by what came before it.
LEMMA Activated ==
    ASSUME ConfigInv, NEW d \in Docs, NEW rev,
           NEW type \in {"ConfigActivated", "ConfigRolledBack"},
           NEW who \in {"boot", "operator"},
           activate(d, rev, type, who), revision < MaxRevision,
           UNCHANGED <<gens, registered, journaled, proposals, seen>>,
           who = "boot" => (type = "ConfigRolledBack" <=> Held(d))
    PROVE  /\ StoreInv' /\ SeenInv' /\ RollbackNamed'
           /\ active' = d /\ Services[d] = running
           /\ revision' \in 0..MaxRevision
           /\ stream' \in Seq(Event) /\ journaled' \in 0..Len(stream')
<1> DEFINE e == [type |-> type, gen |-> d, by |-> who]
           n == Len(stream)
<1>1. e \in Event /\ stream \in Seq(Event)
  BY DEF ConfigInv, ConfigTypeOK, Event
<1>2. /\ gens[d] = "passed" /\ Services[d] = running
      /\ active' = d /\ revision = rev /\ revision' = rev + 1
      /\ stream' = Append(stream, e)
  BY Zenon DEF activate, cas_active
<1>3. /\ e.type = type /\ e.gen = d /\ e.by = who
  OBVIOUS
<1> HIDE DEF e
<1>4. /\ stream' \in Seq(Event) /\ Len(stream') = n + 1 /\ n \in Nat
      /\ \A i \in 1..n : stream'[i] = stream[i]
      /\ stream'[n + 1] = e
      /\ DOMAIN stream = 1..n /\ DOMAIN stream' = 1..(n + 1)
  <2>1. /\ Append(stream, e) \in Seq(Event)
        /\ Len(Append(stream, e)) = Len(stream) + 1
        /\ Len(stream) \in Nat
        /\ \A i \in 1..Len(stream) : Append(stream, e)[i] = stream[i]
        /\ Append(stream, e)[Len(stream) + 1] = e
        /\ DOMAIN stream = 1..Len(stream)
        /\ DOMAIN Append(stream, e) = 1..(Len(stream) + 1)
    BY <1>1, Appended, Zenon
  <2> QED BY <1>2, <2>1, Zenon
<1> HIDE DEF n
<1>5. /\ revision \in 0..MaxRevision /\ journaled \in 0..n /\ revision = n
      /\ journaled' = journaled
  BY Zenon DEF ConfigInv, ConfigTypeOK, StoreInv, n
<1>6. revision' \in 0..MaxRevision /\ journaled' \in 0..Len(stream') /\ revision' = Len(stream')
  BY <1>2, <1>4, <1>5, ConfigAssumption
<1>7. \A i \in 1..(n + 1) : i \in 1..n \/ i = n + 1
  BY <1>4
<1>8. \A i \in 1..n : i \in 1..(n + 1)
  BY <1>4
<1>9. n + 1 \in 1..(n + 1)
  BY <1>4
<1>10. \A c : Held(c)' => Held(c) \/ c = d
  BY <1>4, <1>3, <1>7, Zenon DEF Held, n
<1>11. StoreInv'
  <2>1. d # None
    BY ConfigAssumption, Zenon
  <2>2. \A c \in Docs : Held(c)' => active' # None /\ gens'[c] # "none"
    BY <1>2, <1>10, <2>1, Zenon DEF ConfigInv, StoreInv
  <2>3. revision' = Len(stream')
    BY <1>6
  <2> QED BY <1>2, <2>2, <2>3, Zenon DEF ConfigInv, StoreInv
<1>12. SeenInv'
  <2> SUFFICES ASSUME NEW o \in Operators
               PROVE  seen[o].revision <= revision' /\ seen[o].revision # revision'
    BY Zenon DEF SeenInv
  <2>1. seen[o].revision \in 0..MaxRevision /\ seen[o].revision <= revision
    BY DEF ConfigInv, ConfigTypeOK, SeenInv
  <2> QED BY <1>2, <1>5, <2>1, ConfigAssumption
<1>13. RollbackNamed'
  <2>1. ASSUME NEW i \in 1..n, stream'[i].by = "boot"
        PROVE  stream'[i].type = "ConfigRolledBack"
               <=> \E j \in 1..i-1 : stream'[j].gen = stream'[i].gen
    <3>1. \A j \in 1..i-1 : j \in 1..n
      BY <1>4
    <3> QED BY <1>4, <2>1, <3>1, Zenon DEF ConfigInv, RollbackNamed
  <2>2. ASSUME who = "boot"
        PROVE  type = "ConfigRolledBack"
               <=> \E j \in 1..(n + 1) - 1 : stream'[j].gen = d
    <3>1. (n + 1) - 1 = n
      BY <1>4
    <3>2. Held(d) <=> \E j \in 1..n : stream'[j].gen = d
      BY <1>4, Zenon DEF Held, n
    <3> QED BY <2>2, <3>1, <3>2, Zenon
  <2> QED BY <1>4, <1>3, <1>7, <2>1, <2>2, Zenon DEF RollbackNamed
<1> QED BY <1>2, <1>4, <1>6, <1>11, <1>12, <1>13, Zenon

\* With the daemon up, BootInv asks nothing.
LEMMA BootDone == ASSUME pc' \in {"up", "down"} PROVE BootInv'
BY Zenon DEF BootInv

LEMMA ProposeStep ==
    ASSUME ConfigInv, NEW d \in Docs, ProposeHandler(d)
    PROVE  ConfigInv'
<1>1. /\ gens[d] = "none" /\ gens' = [gens EXCEPT ![d] = "untested"]
      /\ UNCHANGED <<registered, active, revision, stream, journaled, proposals, pc, boot, seen>>
      /\ pc = "up" /\ gens \in [Docs -> {"none", "untested", "passed"}]
  BY Zenon DEF ProposeHandler, ConfigInv, ConfigTypeOK
<1>2. /\ gens' \in [Docs -> {"none", "untested", "passed"}]
      /\ gens'[d] = "untested" /\ \A c \in Docs : c # d => gens'[c] = gens[c]
  BY <1>1
<1>3. StoreInv' /\ RollbackNamed'
  BY <1>1, <1>2, SameStore, Zenon DEF ConfigInv, StoreInv
<1>4. SeenInv' /\ ServicesFrozen' /\ BootInv'
  BY <1>1, BootDone, Zenon DEF ConfigInv, SeenInv, ServicesFrozen, boot
<1>5. ConfigTypeOK'
  BY <1>1, <1>2, Zenon DEF ConfigInv, ConfigTypeOK, boot
<1> QED BY <1>3, <1>4, <1>5, Zenon DEF ConfigInv

LEMMA MarkTestedStep ==
    ASSUME ConfigInv, NEW d \in Docs, MarkTestedHandler(d)
    PROVE  ConfigInv'
<1>1. /\ smoke_test(d) /\ gens' = [gens EXCEPT ![d] = "passed"]
      /\ UNCHANGED <<registered, active, revision, stream, journaled, proposals, pc, boot, seen>>
      /\ pc = "up" /\ gens \in [Docs -> {"none", "untested", "passed"}]
  BY Zenon DEF MarkTestedHandler, ConfigInv, ConfigTypeOK
<1>2. /\ gens' \in [Docs -> {"none", "untested", "passed"}]
      /\ gens'[d] = "passed" /\ \A c \in Docs : c # d => gens'[c] = gens[c]
  BY <1>1
<1>3. StoreInv' /\ RollbackNamed'
  BY <1>1, <1>2, SameStore, Zenon DEF ConfigInv, StoreInv, smoke_test
<1>4. SeenInv' /\ ServicesFrozen' /\ BootInv'
  BY <1>1, BootDone, Zenon DEF ConfigInv, SeenInv, ServicesFrozen, boot
<1>5. ConfigTypeOK'
  BY <1>1, <1>2, Zenon DEF ConfigInv, ConfigTypeOK, boot
<1> QED BY <1>3, <1>4, <1>5, Zenon DEF ConfigInv

LEMMA ReadStep ==
    ASSUME ConfigInv, NEW o \in Operators, ReadActive(o)
    PROVE  ConfigInv'
<1> DEFINE now == [revision |-> revision, gen |-> active]
           Seen == [revision : 0..MaxRevision, gen : Docs \cup {None}]
<1>1. /\ seen' = [seen EXCEPT ![o] = now] /\ pc = "up"
      /\ UNCHANGED <<store, pc, boot>>
      /\ seen \in [Operators -> Seen]
      /\ revision \in 0..MaxRevision /\ active \in Docs \cup {None}
  BY Zenon DEF ReadActive, ConfigInv, ConfigTypeOK
<1>2. /\ now \in Seen /\ now.revision = revision /\ now.gen = active
      /\ revision <= revision
  BY <1>1, ConfigAssumption
<1> HIDE DEF now, Seen
<1>3. /\ seen' \in [Operators -> Seen]
      /\ seen'[o] = now /\ \A p \in Operators : p # o => seen'[p] = seen[p]
  BY <1>1, <1>2
<1>4. StoreInv' /\ RollbackNamed'
  BY <1>1, SameStore, Zenon DEF ConfigInv, ConfigTypeOK, StoreInv, store
<1>5. SeenInv'
  BY <1>1, <1>2, <1>3, Zenon DEF ConfigInv, SeenInv, store
<1>6. ServicesFrozen' /\ BootInv'
  BY <1>1, BootDone, Zenon DEF ConfigInv, ServicesFrozen, boot, store
<1>7. ConfigTypeOK'
  BY <1>1, <1>3, Zenon DEF ConfigInv, ConfigTypeOK, boot, store, Seen
<1> QED BY <1>4, <1>5, <1>6, <1>7, Zenon DEF ConfigInv

LEMMA ActivateStep ==
    ASSUME ConfigInv, NEW o \in Operators, NEW d \in Docs,
           ActivateHandler(o, d) \/ RollbackHandler(o, d)
    PROVE  ConfigInv' /\ active = seen[o].gen
<1>1. PICK type \in {"ConfigActivated", "ConfigRolledBack"} :
          /\ pc = "up" /\ revision < MaxRevision
          /\ activate(d, seen[o].revision, type, "operator")
          /\ UNCHANGED <<gens, registered, journaled, proposals, pc, boot, seen>>
  BY Zenon DEF ActivateHandler, RollbackHandler
<1>2. /\ StoreInv' /\ SeenInv' /\ RollbackNamed'
      /\ active' = d /\ Services[d] = running
      /\ revision' \in 0..MaxRevision
      /\ stream' \in Seq(Event) /\ journaled' \in 0..Len(stream')
  BY <1>1, Activated, Zenon
<1>3. d # None
  BY ConfigAssumption, Zenon
<1>4. ServicesFrozen' /\ BootInv'
  BY <1>1, <1>2, <1>3, BootDone, Zenon DEF ServicesFrozen, boot
<1>5. ConfigTypeOK'
  BY <1>1, <1>2, Zenon DEF ConfigInv, ConfigTypeOK, boot
<1>6. active = seen[o].gen
  BY <1>1, Zenon DEF ConfigInv, SeenInv, activate, cas_active
<1> QED BY <1>2, <1>4, <1>5, <1>6, Zenon DEF ConfigInv

LEMMA PublishStep ==
    ASSUME ConfigInv, Publish
    PROVE  ConfigInv'
<1>1. /\ pc = "up" /\ journaled < Len(stream) /\ journaled' = journaled + 1
      /\ UNCHANGED <<gens, registered, active, revision, stream, proposals, pc, boot, seen>>
      /\ journaled \in 0..Len(stream) /\ stream \in Seq(Event)
  BY Zenon DEF Publish, ConfigInv, ConfigTypeOK
<1>2. Len(stream) \in Nat
  BY <1>1, LenProperties, Zenon
<1>3. journaled' \in 0..Len(stream)
  BY <1>1, <1>2
<1>4. StoreInv' /\ RollbackNamed'
  BY <1>1, SameStore, Zenon DEF ConfigInv, ConfigTypeOK, StoreInv
<1>5. SeenInv' /\ ServicesFrozen' /\ BootInv'
  BY <1>1, BootDone, Zenon DEF ConfigInv, SeenInv, ServicesFrozen, boot
<1>6. ConfigTypeOK'
  BY <1>1, <1>3, Zenon DEF ConfigInv, ConfigTypeOK, boot
<1> QED BY <1>4, <1>5, <1>6, Zenon DEF ConfigInv

\* The journal and the rows it does not have yet are all that was staged.
LEMMA PreviouslyActive ==
    ASSUME ConfigInv, NEW d
    PROVE  generation_previously_active(d) <=> Held(d)
<1>1. journaled \in 0..Len(stream) /\ stream \in Seq(Event)
  BY Zenon DEF ConfigInv, ConfigTypeOK
<1>2. Len(stream) \in Nat
  BY <1>1, LenProperties, Zenon
<1>3. \A i : i \in 1..Len(stream) <=> i \in 1..journaled \/ i \in (journaled + 1)..Len(stream)
  BY <1>1, <1>2
<1> QED BY <1>3, Zenon DEF generation_previously_active, Held

LEMMA BootStep ==
    ASSUME ConfigInv, NEW d \in Docs \cup {None}, NEW bundles \in SUBSET Adapters,
           Boot(d, bundles)
    PROVE  ConfigInv'
<1>1. /\ boots < MaxBoots /\ boots' = boots + 1 /\ boots \in 0..MaxBoots
      /\ registered' = registered \cup bundles
      /\ doc' = d
      /\ running' = IF d = None THEN NoServices ELSE Services[d]
      /\ expected' = revision
      /\ rollback' = (d # None /\ Reactivate(d) /\ generation_previously_active(d))
      /\ pc' = IF d \in {None, active} THEN "up"
               ELSE IF Reactivate(d) THEN "test" ELSE "propose"
      /\ UNCHANGED <<gens, active, revision, stream, journaled, proposals, seen>>
  BY Zenon DEF Boot, ConfigInv, ConfigTypeOK
<1>2. boots' \in 0..MaxBoots
  BY <1>1, ConfigAssumption
<1>3. ConfigTypeOK'
  <2>1. rollback' \in BOOLEAN
    BY <1>1, Zenon
  <2>2. running' \in {Services[c] : c \in Docs} \cup {NoServices}
    BY <1>1, Zenon
  <2>3. pc' \in {"down", "propose", "test", "activate", "up", "failed"}
    BY <1>1, Zenon
  <2> QED BY <1>1, <1>2, <2>1, <2>2, <2>3, Zenon DEF ConfigInv, ConfigTypeOK
<1>4. StoreInv' /\ RollbackNamed' /\ \A c : Held(c)' <=> Held(c)
  BY <1>1, SameStore, Zenon DEF ConfigInv, ConfigTypeOK, StoreInv
<1>5. SeenInv'
  BY <1>1, Zenon DEF ConfigInv, SeenInv
<1>6. ServicesFrozen'
  <2>1. pc' = "up" => d \in {None, active}
    BY <1>1, Zenon
  <2> QED BY <1>1, <2>1, Zenon DEF ServicesFrozen
<1>7. BootInv'
  <2>1. CASE d \in {None, active}
    BY <1>1, <2>1, BootDone, Zenon
  <2>2. CASE d \notin {None, active} /\ Reactivate(d)
    <3>1. d \in Docs /\ pc' = "test" /\ gens'[doc'] # "none"
      BY <1>1, <2>2, Zenon DEF Reactivate
    <3>2. rollback' <=> Held(d)'
      BY <1>1, <1>4, <2>2, PreviouslyActive, Zenon
    <3> QED BY <1>1, <3>1, <3>2, Zenon DEF BootInv
  <2>3. CASE d \notin {None, active} /\ ~Reactivate(d)
    <3>1. d \in Docs /\ pc' = "propose" /\ (active' = None \/ gens'[doc'] = "none")
      BY <1>1, <2>3, Zenon DEF Reactivate
    <3>2. ~rollback' /\ ~Held(d)
      BY <1>1, <2>3, <3>1, Zenon DEF ConfigInv, StoreInv, Reactivate
    <3> QED BY <1>1, <1>4, <3>1, <3>2, Zenon DEF BootInv
  <2> QED BY <2>1, <2>2, <2>3, Zenon
<1> QED BY <1>3, <1>4, <1>5, <1>6, <1>7, Zenon DEF ConfigInv

LEMMA BootProposeStep ==
    ASSUME ConfigInv, BootPropose
    PROVE  ConfigInv'
<1>1. /\ pc = "propose"
      /\ UNCHANGED <<registered, active, revision, stream, journaled, boot, seen>>
      /\ gens \in [Docs -> {"none", "untested", "passed"}]
      /\ proposals \subseteq Docs \X (0..MaxRevision)
      /\ expected \in 0..MaxRevision
      /\ doc \in Docs /\ running = Services[doc] /\ expected = revision
      /\ rollback <=> Held(doc)
      /\ active = None \/ gens[doc] = "none"
  BY Zenon DEF BootPropose, ConfigInv, ConfigTypeOK, BootInv
<1>2. 0..MaxRevision \subseteq Nat
  BY ConfigAssumption
<1>3. SeenInv'
  BY <1>1, Zenon DEF ConfigInv, SeenInv
<1>4. CASE <<doc, expected>> \in proposals /\ pc' = "test" /\ UNCHANGED <<gens, proposals>>
  <2>1. gens[doc] # "none"
    BY <1>1, <1>2, <1>4, Zenon DEF ConfigInv, StoreInv
  <2>2. StoreInv' /\ RollbackNamed' /\ \A c : Held(c)' <=> Held(c)
    BY <1>1, <1>4, SameStore, Zenon DEF ConfigInv, StoreInv
  <2>3. BootInv' /\ ServicesFrozen'
    BY <1>1, <1>4, <2>1, <2>2, Zenon DEF BootInv, ServicesFrozen, boot
  <2>4. ConfigTypeOK'
    BY <1>1, <1>4, Zenon DEF ConfigInv, ConfigTypeOK, boot
  <2> QED BY <1>3, <2>2, <2>3, <2>4, Zenon DEF ConfigInv
<1>5. CASE /\ gens[doc] = "none" /\ gens' = [gens EXCEPT ![doc] = "untested"]
           /\ proposals' = proposals \cup {<<doc, expected>>} /\ pc' = "test"
  <2>1. /\ gens' \in [Docs -> {"none", "untested", "passed"}]
        /\ gens'[doc] = "untested" /\ \A c \in Docs : c # doc => gens'[c] = gens[c]
    BY <1>1, <1>5
  <2>2. /\ \A c \in Docs, r \in Nat : <<c, r>> \in proposals' =>
              <<c, r>> \in proposals \/ c = doc
        /\ proposals' \subseteq Docs \X (0..MaxRevision)
    BY <1>1, <1>5
  <2>3. StoreInv' /\ RollbackNamed' /\ \A c : Held(c)' <=> Held(c)
    <3>1. \A c \in Docs, r \in Nat : <<c, r>> \in proposals' => gens'[c] # "none"
      BY <2>1, <2>2, Zenon DEF ConfigInv, StoreInv
    <3> QED BY <1>1, <1>5, <2>1, <3>1, SameStore, Zenon DEF ConfigInv, StoreInv
  <2>4. BootInv' /\ ServicesFrozen'
    BY <1>1, <1>5, <2>1, <2>3, Zenon DEF BootInv, ServicesFrozen, boot
  <2>5. ConfigTypeOK'
    BY <1>1, <1>5, <2>1, <2>2, Zenon DEF ConfigInv, ConfigTypeOK, boot
  <2> QED BY <1>3, <2>3, <2>4, <2>5, Zenon DEF ConfigInv
<1>6. CASE gens[doc] # "none" /\ pc' = "failed" /\ UNCHANGED <<gens, proposals>>
  <2>1. StoreInv' /\ RollbackNamed'
    BY <1>1, <1>6, SameStore, Zenon DEF ConfigInv, StoreInv
  <2>2. BootInv' /\ ServicesFrozen'
    BY <1>1, <1>6, Zenon DEF BootInv, ServicesFrozen, boot
  <2>3. ConfigTypeOK'
    BY <1>1, <1>6, Zenon DEF ConfigInv, ConfigTypeOK, boot
  <2> QED BY <1>3, <2>1, <2>2, <2>3, Zenon DEF ConfigInv
<1> QED BY <1>4, <1>5, <1>6, Zenon DEF BootPropose

LEMMA BootTestStep ==
    ASSUME ConfigInv, BootTest
    PROVE  ConfigInv'
<1>1. /\ pc = "test"
      /\ UNCHANGED <<registered, active, revision, stream, journaled, proposals, boot, seen>>
      /\ gens \in [Docs -> {"none", "untested", "passed"}]
      /\ doc \in Docs /\ running = Services[doc] /\ expected = revision
      /\ rollback <=> Held(doc)
      /\ gens[doc] # "none"
  BY Zenon DEF BootTest, ConfigInv, ConfigTypeOK, BootInv
<1>2. SeenInv'
  BY <1>1, Zenon DEF ConfigInv, SeenInv
<1>3. CASE smoke_test(doc) /\ gens' = [gens EXCEPT ![doc] = "passed"] /\ pc' = "activate"
  <2>1. /\ gens' \in [Docs -> {"none", "untested", "passed"}]
        /\ gens'[doc] = "passed" /\ \A c \in Docs : c # doc => gens'[c] = gens[c]
    BY <1>1, <1>3
  <2>2. StoreInv' /\ RollbackNamed' /\ \A c : Held(c)' <=> Held(c)
    BY <1>1, <1>3, <2>1, SameStore, Zenon DEF ConfigInv, StoreInv, smoke_test
  <2>3. BootInv' /\ ServicesFrozen'
    BY <1>1, <1>3, <2>1, <2>2, Zenon DEF BootInv, ServicesFrozen, boot
  <2>4. ConfigTypeOK'
    BY <1>1, <1>3, <2>1, Zenon DEF ConfigInv, ConfigTypeOK, boot
  <2> QED BY <1>2, <2>2, <2>3, <2>4, Zenon DEF ConfigInv
<1>4. CASE ~smoke_test(doc) /\ pc' = "failed" /\ UNCHANGED gens
  <2>1. StoreInv' /\ RollbackNamed'
    BY <1>1, <1>4, SameStore, Zenon DEF ConfigInv, StoreInv
  <2>2. BootInv' /\ ServicesFrozen'
    BY <1>1, <1>4, Zenon DEF BootInv, ServicesFrozen, boot, smoke_test
  <2>3. ConfigTypeOK'
    BY <1>1, <1>4, Zenon DEF ConfigInv, ConfigTypeOK, boot
  <2> QED BY <1>2, <2>1, <2>2, <2>3, Zenon DEF ConfigInv
<1> QED BY <1>3, <1>4, Zenon DEF BootTest

LEMMA BootActivateStep ==
    ASSUME ConfigInv, BootActivate
    PROVE  ConfigInv'
<1> DEFINE type == IF rollback THEN "ConfigRolledBack" ELSE "ConfigActivated"
<1>1. /\ pc = "activate" /\ revision < MaxRevision
      /\ activate(doc, expected, type, "boot")
      /\ pc' = "up"
      /\ UNCHANGED <<gens, registered, journaled, proposals, boot, seen>>
      /\ doc \in Docs /\ (rollback <=> Held(doc))
  BY Zenon DEF BootActivate, ConfigInv, BootInv
<1>2. /\ type \in {"ConfigActivated", "ConfigRolledBack"}
      /\ type = "ConfigRolledBack" <=> Held(doc)
  BY <1>1, Zenon
<1> HIDE DEF type
<1>3. /\ StoreInv' /\ SeenInv' /\ RollbackNamed'
      /\ active' = doc /\ Services[doc] = running
      /\ revision' \in 0..MaxRevision
      /\ stream' \in Seq(Event) /\ journaled' \in 0..Len(stream')
  BY <1>1, <1>2, Activated, Zenon
<1>4. doc # None
  BY <1>1, ConfigAssumption, Zenon
<1>5. ServicesFrozen' /\ BootInv'
  BY <1>1, <1>3, <1>4, BootDone, Zenon DEF ServicesFrozen, boot
<1>6. ConfigTypeOK'
  BY <1>1, <1>3, Zenon DEF ConfigInv, ConfigTypeOK, boot
<1> QED BY <1>3, <1>5, <1>6, Zenon DEF ConfigInv

LEMMA CrashStep ==
    ASSUME ConfigInv, Crash
    PROVE  ConfigInv'
<1>1. /\ pc' = "down" /\ doc' = None /\ running' = NoServices
      /\ expected' = 0 /\ rollback' = FALSE
      /\ UNCHANGED <<store, boots, seen>>
  BY Zenon DEF Crash
<1>2. 0 \in 0..MaxRevision
  BY ConfigAssumption
<1>3. ConfigTypeOK'
  BY <1>1, <1>2, Zenon DEF ConfigInv, ConfigTypeOK, store
<1>4. StoreInv' /\ RollbackNamed'
  BY <1>1, SameStore, Zenon DEF ConfigInv, ConfigTypeOK, StoreInv, store
<1>5. SeenInv' /\ ServicesFrozen' /\ BootInv'
  BY <1>1, BootDone, Zenon DEF ConfigInv, SeenInv, ServicesFrozen, store
<1> QED BY <1>3, <1>4, <1>5, Zenon DEF ConfigInv

LEMMA ConfigStep ==
    ASSUME ConfigInv, [ConfigNext]_configVars
    PROVE  ConfigInv'
<1>1. ASSUME NEW d \in Docs, ProposeHandler(d) \/ MarkTestedHandler(d) PROVE ConfigInv'
  BY <1>1, ProposeStep, MarkTestedStep, Zenon
<1>2. ASSUME NEW o \in Operators, ReadActive(o) PROVE ConfigInv'
  BY <1>2, ReadStep, Zenon
<1>3. ASSUME NEW o \in Operators, NEW d \in Docs,
             ActivateHandler(o, d) \/ RollbackHandler(o, d)
      PROVE  ConfigInv'
  BY <1>3, ActivateStep, Zenon
<1>4. ASSUME NEW d \in Docs \cup {None}, NEW bundles \in SUBSET Adapters, Boot(d, bundles)
      PROVE  ConfigInv'
  BY <1>4, BootStep, Zenon
<1>5. CASE Publish \/ BootPropose \/ BootTest \/ BootActivate \/ Crash
  BY <1>5, PublishStep, BootProposeStep, BootTestStep, BootActivateStep, CrashStep, Zenon
<1>6. CASE UNCHANGED configVars
  <2>1. StoreInv' /\ RollbackNamed' /\ \A c : Held(c)' <=> Held(c)
    BY <1>6, SameStore, Zenon DEF ConfigInv, ConfigTypeOK, StoreInv, configVars, store
  <2>2. ConfigTypeOK' /\ SeenInv' /\ ServicesFrozen'
    BY <1>6, Zenon DEF ConfigInv, ConfigTypeOK, SeenInv, ServicesFrozen, configVars, store, boot
  <2>3. BootInv'
    BY <1>6, <2>1, Zenon DEF ConfigInv, BootInv, configVars, store, boot
  <2> QED BY <2>1, <2>2, <2>3, Zenon DEF ConfigInv
<1> QED BY <1>1, <1>2, <1>3, <1>4, <1>5, <1>6, Zenon DEF ConfigNext

-----------------------------------------------------------------------------
(* Configuration: the theorem.                                             *)

\* For any documents, adapters, operators, boots and crashes: a boot over an
\* active generation fails only for want of an adapter and its activation is
\* never refused; the active generation has passed its test with its adapters
\* registered, and has the services the daemon booted with; a boot's activation
\* is named a roll back exactly when it is one; and no operator's activation
\* overwrites one it has not seen.
THEOREM BootsRecover == ConfigSpec => BootRecovers
<1>1. ConfigInit => ConfigInv
  BY ConfigInvInit
<1>2. ConfigInv /\ [ConfigNext]_configVars => ConfigInv'
  BY ConfigStep
<1>3. ConfigInv => NeverWedged /\ ActiveEligible /\ ServicesFrozen /\ RollbackNamed
  <2> SUFFICES ASSUME ConfigInv PROVE NeverWedged /\ ActiveEligible
    BY Zenon DEF ConfigInv
  <2>1. active # None => active \in Docs
    BY Zenon DEF ConfigInv, ConfigTypeOK
  <2> QED BY <2>1, Zenon DEF ConfigInv, StoreInv, BootInv, NeverWedged, ActiveEligible
<1>4. ConfigInv /\ [ConfigNext]_configVars =>
        [NoLostActivation]_configVars
  BY ActivateStep, Zenon DEF NoLostActivation
<1> QED BY <1>1, <1>2, <1>3, <1>4, PTL DEF ConfigSpec, BootRecovers

-----------------------------------------------------------------------------
(* Devices: the inductive invariant.                                       *)

DeviceEntry == [token_hash : {token_hash(d) : d \in DeviceIds}, enabled : BOOLEAN]
Registry == UNION {[D -> DeviceEntry] : D \in SUBSET DeviceIds}

AddCmd == [pc : {"flock", "load"}, op : {"add"}, id : DeviceIds]
RevokeCmd == [pc : {"flock", "load"}, op : {"revoke"}, prefix : Given]
SaveCmd == [pc : {"save", "saved"}, op : {"add", "revoke"}, id : DeviceIds, reg : Registry]

Types ==
    /\ file \in Registry
    /\ cmd \in [Commands -> {Idle} \cup AddCmd \cup RevokeCmd \cup SaveCmd]
    /\ minted \subseteq DeviceIds
    /\ gate.auth_token \in {{}, {Master}}

\* What the registry has, and what was reported of it.
RegistryInv ==
    /\ DOMAIN file \subseteq minted
    /\ \A d \in DOMAIN file : file[d].token_hash = token_hash(d)
    /\ added \cup tried \subseteq DOMAIN file /\ revoked \subseteq tried
    /\ \A d \in revoked : ~file[d].enabled
    /\ \A d \in DOMAIN file \ tried : file[d].enabled

Holding(c) == cmd[c].pc \in {"load", "save", "saved"}
Adding(c) == cmd[c].pc \in {"flock", "load", "save"} /\ cmd[c].op = "add"

\* A command that has the lock is alone with the registry: what it is about to
\* save is its edit of the registry as it is.
CommandOK(c) ==
    /\ Holding(c) => lock = {c}
    /\ Adding(c) => cmd[c].id \in minted \ DOMAIN file
    /\ cmd[c].pc = "save" =>
          /\ cmd[c].reg = Edited(file, cmd[c].op, cmd[c].id)
          /\ cmd[c].op = "revoke" => cmd[c].id \in tried
    /\ cmd[c].pc = "saved" =>
          /\ cmd[c].id \in DOMAIN file
          /\ cmd[c].op = "revoke" => cmd[c].id \in tried /\ ~file[cmd[c].id].enabled

\* No two commands add the same id.
AddsDistinct ==
    \A b, c \in Commands : Adding(b) /\ Adding(c) /\ cmd[b].id = cmd[c].id => b = c

CommandInv == (\A c \in Commands : CommandOK(c)) /\ AddsDistinct

\* A request knows of what was reported before it came.
RequestInv ==
    request.pc \in {"auth", "answered"} =>
        /\ request.bearer \in Bearers
        /\ request.added \subseteq added /\ request.revoked \subseteq revoked

DeviceInv == Types /\ RegistryInv /\ CommandInv /\ RequestInv /\ Honoured

-----------------------------------------------------------------------------
(* Devices: tokens and registries.                                         *)

\* The digest tells tokens apart.
LEMMA HashInjective ==
    ASSUME NEW S, NEW a \in Seq(S), NEW b \in Seq(S), "sha256" \in S,
           token_hash(a) = token_hash(b)
    PROVE  a = b
<1> DEFINE h == <<"sha256">>
           x == h \o a
           y == h \o b
<1>1. h \in Seq(S)
  OBVIOUS
<1>a. Len(h) = 1
  BY Zenon
<1>2. Len(a) \in Nat /\ Len(b) \in Nat
  BY LenProperties, Zenon
<1> HIDE DEF h
<1>3. /\ Len(x) = 1 + Len(a)
      /\ \A i \in 1..(1 + Len(a)) : x[i] = IF i <= 1 THEN h[i] ELSE a[i - 1]
  <2>1. /\ Len(x) = Len(h) + Len(a)
        /\ \A i \in 1..(Len(h) + Len(a)) : x[i] = IF i <= Len(h) THEN h[i] ELSE a[i - Len(h)]
    BY <1>1, ConcatProperties, Zenon
  <2> QED BY <1>a, <2>1, Zenon
<1>4. /\ Len(y) = 1 + Len(b)
      /\ \A i \in 1..(1 + Len(b)) : y[i] = IF i <= 1 THEN h[i] ELSE b[i - 1]
  <2>1. /\ Len(y) = Len(h) + Len(b)
        /\ \A i \in 1..(Len(h) + Len(b)) : y[i] = IF i <= Len(h) THEN h[i] ELSE b[i - Len(h)]
    BY <1>1, ConcatProperties, Zenon
  <2> QED BY <1>a, <2>1, Zenon
<1>5. x = y
  BY Zenon DEF token_hash, h
<1> HIDE DEF x, y
<1>6. Len(a) = Len(b)
  BY <1>2, <1>3, <1>4, <1>5
<1>7. ASSUME NEW i \in 1..Len(a) PROVE a[i] = b[i]
  <2>1. i + 1 \in 1..(1 + Len(a)) /\ ~(i + 1 <= 1) /\ (i + 1) - 1 = i
    BY <1>2
  <2>2. x[i + 1] = a[i] /\ y[i + 1] = b[i]
    BY <1>3, <1>4, <1>6, <2>1, Zenon
  <2> QED BY <1>5, <2>2, Zenon
<1> QED BY <1>6, <1>7, SeqEqual, Zenon

\* Only the device it was made for, and no other token, has a device's digest.
LEMMA OneToken ==
    ASSUME NEW d \in DeviceIds, NEW t \in DeviceIds \cup {Master, Unknown},
           token_hash(d) = token_hash(t)
    PROVE  d = t
<1>1. DeviceIds \subseteq Seq(Letters)
  BY DeviceAssumption, Zenon
<1> DEFINE T == Letters \cup {"sha256", "master", "unknown"}
<1>2. d \in Seq(T)
  BY <1>1, SeqMonotonic, Zenon
<1>3. t \in Seq(T)
  <2>1. CASE t \in DeviceIds
    BY <1>1, <2>1, SeqMonotonic, Zenon
  <2>2. <<"master">> \in Seq(T) /\ <<"unknown">> \in Seq(T)
    OBVIOUS
  <2> QED BY <2>1, <2>2, Zenon DEF Master, Unknown
<1>4. "sha256" \in T
  BY Zenon
<1> HIDE DEF T
<1> QED BY <1>2, <1>3, <1>4, HashInjective, Zenon

LEMMA RegistryParts ==
    ASSUME NEW reg \in Registry
    PROVE  DOMAIN reg \subseteq DeviceIds /\ \A d \in DOMAIN reg : reg[d] \in DeviceEntry
BY Zenon DEF Registry

\* The edit of add: one more device, enabled; the others as they were.
LEMMA EditedAdd ==
    ASSUME NEW reg \in Registry, NEW d \in DeviceIds
    PROVE  LET new == Edited(reg, "add", d)
           IN  /\ new \in Registry /\ DOMAIN new = DOMAIN reg \cup {d}
               /\ new[d].token_hash = token_hash(d) /\ new[d].enabled
               /\ \A x \in DOMAIN reg \ {d} : new[x] = reg[x]
<1> DEFINE new == Edited(reg, "add", d)
           e == [token_hash |-> token_hash(d), enabled |-> TRUE]
<1>1. new = [x \in DOMAIN reg \cup {d} |-> IF x = d THEN e ELSE reg[x]]
  BY Zenon DEF Edited
<1>2. e \in DeviceEntry /\ e.token_hash = token_hash(d) /\ e.enabled = TRUE
  BY Zenon DEF DeviceEntry
<1> HIDE DEF e
<1>3. /\ DOMAIN new = DOMAIN reg \cup {d} /\ new[d] = e
      /\ \A x \in DOMAIN reg \ {d} : new[x] = reg[x]
  BY <1>1, Zenon
<1>4. new \in [DOMAIN reg \cup {d} -> DeviceEntry] /\ DOMAIN reg \cup {d} \subseteq DeviceIds
  BY <1>1, <1>2, RegistryParts, Zenon
<1> HIDE DEF new
<1>5. new \in Registry
  BY <1>4, Zenon DEF Registry
<1> QED BY <1>2, <1>3, <1>5, Zenon DEF new

\* The edit of revoke: the device is disabled, the others are as they were.
LEMMA EditedRevoke ==
    ASSUME NEW reg \in Registry, NEW d \in DOMAIN reg
    PROVE  LET new == Edited(reg, "revoke", d)
           IN  /\ new \in Registry /\ DOMAIN new = DOMAIN reg
               /\ new[d].token_hash = reg[d].token_hash /\ ~new[d].enabled
               /\ \A x \in DOMAIN reg \ {d} : new[x] = reg[x]
<1> DEFINE new == Edited(reg, "revoke", d)
           e == [reg[d] EXCEPT !.enabled = FALSE]
<1>0. reg[d] \in DeviceEntry
  BY RegistryParts, Zenon
<1>1. new = [reg EXCEPT ![d] = e]
  BY Zenon DEF Edited
<1>2. e \in DeviceEntry /\ e.token_hash = reg[d].token_hash /\ e.enabled = FALSE
  BY <1>0, Zenon DEF DeviceEntry
<1> HIDE DEF e
<1>3. /\ DOMAIN new = DOMAIN reg /\ new[d] = e
      /\ \A x \in DOMAIN reg \ {d} : new[x] = reg[x]
  BY <1>1, Zenon
<1>4. new \in [DOMAIN reg -> DeviceEntry] /\ DOMAIN reg \subseteq DeviceIds
  BY <1>1, <1>2, RegistryParts, Zenon
<1> HIDE DEF new
<1>5. new \in Registry
  BY <1>4, Zenon DEF Registry
<1> QED BY <1>2, <1>3, <1>5, Zenon DEF new

-----------------------------------------------------------------------------
(* Devices: the steps of a command.                                        *)

LEMMA DeviceInit == DevicesInit => DeviceInv
<1> SUFFICES ASSUME DevicesInit PROVE DeviceInv
  BY Zenon
<1>1. DOMAIN file = {} /\ file \in Registry
  <2>1. file \in [{} -> DeviceEntry]
    BY DEF DevicesInit
  <2> QED BY <2>1, Zenon DEF Registry
<1>2. \A c \in Commands : cmd[c] = Idle
  BY Zenon DEF DevicesInit
<1>3. Types
  <2>1. cmd \in [Commands -> {Idle} \cup AddCmd \cup RevokeCmd \cup SaveCmd]
    BY Zenon DEF DevicesInit
  <2>2. gate.auth_token \in {{}, {Master}}
    BY Zenon DEF DevicesInit
  <2> QED BY <1>1, <2>1, <2>2, Zenon DEF Types, DevicesInit
<1>4. RegistryInv
  BY <1>1, Zenon DEF RegistryInv, DevicesInit
<1>5. CommandInv
  BY <1>2 DEF CommandInv, CommandOK, AddsDistinct, Holding, Adding, Idle
<1>6. RequestInv /\ Honoured
  BY Zenon DEF RequestInv, Honoured, DevicesInit, Idle
<1> QED BY <1>3, <1>4, <1>5, <1>6, Zenon DEF DeviceInv

LEMMA CommandParts ==
    ASSUME Types, NEW c \in Commands
    PROVE  /\ cmd[c] = Idle => cmd[c].pc = "idle"
           /\ cmd[c] # Idle => cmd[c].pc # "idle"
           /\ cmd[c].pc \in {"idle", "flock", "load", "save", "saved"}
           /\ cmd[c].pc \in {"flock", "load"} => cmd[c] \in AddCmd \cup RevokeCmd
           /\ cmd[c].pc \in {"save", "saved"} => cmd[c] \in SaveCmd
<1>1. cmd[c] \in {Idle} \cup AddCmd \cup RevokeCmd \cup SaveCmd
  BY Zenon DEF Types
<1>2. CASE cmd[c] = Idle
  BY <1>2 DEF Idle
<1>3. CASE cmd[c] \in AddCmd \cup RevokeCmd
  <2>1. cmd[c].pc \in {"flock", "load"}
    BY <1>3, Zenon DEF AddCmd, RevokeCmd
  <2> QED BY <1>3, <2>1 DEF Idle
<1>4. CASE cmd[c] \in SaveCmd
  <2>1. cmd[c].pc \in {"save", "saved"}
    BY <1>4, Zenon DEF SaveCmd
  <2> QED BY <1>4, <2>1 DEF Idle
<1> QED BY <1>1, <1>2, <1>3, <1>4, Zenon

\* While one command moves and the registry stays, nothing changes for the
\* others.
LEMMA OthersStay ==
    ASSUME DeviceInv, NEW c \in Commands, NEW v, cmd' = [cmd EXCEPT ![c] = v],
           file' = file, minted \subseteq minted', tried \subseteq tried',
           \A b \in Commands \ {c} : lock = {b} => lock' = {b}
    PROVE  /\ cmd'[c] = v /\ \A b \in Commands \ {c} : cmd'[b] = cmd[b]
           /\ \A b \in Commands \ {c} : CommandOK(b)'
<1>1. cmd'[c] = v /\ \A b \in Commands \ {c} : cmd'[b] = cmd[b]
  BY Zenon DEF DeviceInv, Types
<1>2. ASSUME NEW b \in Commands \ {c} PROVE CommandOK(b)'
  <2>1. CommandOK(b) /\ cmd'[b] = cmd[b]
    BY <1>1, Zenon DEF DeviceInv, CommandInv
  <2> QED BY <2>1, Zenon DEF CommandOK, Holding, Adding
<1> QED BY <1>1, <1>2, Zenon

\* What a request knows and was answered stays true as more is reported.
LEMMA RequestStays ==
    ASSUME DeviceInv, request' = request, gate' = gate, added \subseteq added',
           revoked \subseteq revoked', tried \subseteq tried'
    PROVE  RequestInv' /\ Honoured'
BY Zenon DEF DeviceInv, RequestInv, Honoured

\* A command that ends takes nothing with it.
LEMMA ExitStep ==
    ASSUME DeviceInv, NEW c \in Commands, Exit(c), file' = file, minted' = minted,
           tried' = tried
    PROVE  /\ cmd' \in [Commands -> {Idle} \cup AddCmd \cup RevokeCmd \cup SaveCmd]
           /\ CommandInv'
<1>1. cmd' = [cmd EXCEPT ![c] = Idle] /\ lock' = lock \ {c}
  BY Zenon DEF Exit
<1>2. /\ cmd'[c] = Idle /\ \A b \in Commands \ {c} : cmd'[b] = cmd[b]
      /\ \A b \in Commands \ {c} : CommandOK(b)'
  <2>1. \A b \in Commands \ {c} : lock = {b} => lock' = {b}
    BY <1>1, Zenon
  <2> QED BY <1>1, <2>1, OthersStay, Zenon
<1>3. CommandOK(c)' /\ ~Adding(c)'
  BY <1>2 DEF CommandOK, Holding, Adding, Idle
<1>4. AddsDistinct'
  <2>1. \A b \in Commands : Adding(b)' => b # c /\ Adding(b) /\ cmd'[b] = cmd[b]
    BY <1>2, <1>3, Zenon DEF Adding
  <2> QED BY <2>1, Zenon DEF DeviceInv, CommandInv, AddsDistinct
<1>5. cmd' \in [Commands -> {Idle} \cup AddCmd \cup RevokeCmd \cup SaveCmd]
  BY <1>1, Zenon DEF DeviceInv, Types
<1> QED BY <1>2, <1>3, <1>4, <1>5, Zenon DEF CommandInv

LEMMA AddStep ==
    ASSUME DeviceInv, NEW c \in Commands, add(c)
    PROVE  DeviceInv'
<1>1. PICK d \in DeviceIds \ minted :
          /\ minted' = minted \cup {d}
          /\ cmd' = [cmd EXCEPT ![c] = [pc |-> "flock", op |-> "add", id |-> d]]
  BY Zenon DEF add
<1> DEFINE v == [pc |-> "flock", op |-> "add", id |-> d]
<1>2. v \in AddCmd /\ v.pc = "flock" /\ v.op = "add" /\ v.id = d
  BY Zenon DEF AddCmd
<1>3. cmd' = [cmd EXCEPT ![c] = v]
  BY <1>1, Zenon
<1> HIDE DEF v
<1>4. UNCHANGED <<file, lock, gate, request, added, revoked, tried>>
  BY Zenon DEF add
<1>5. /\ cmd'[c] = v /\ \A b \in Commands \ {c} : cmd'[b] = cmd[b]
      /\ \A b \in Commands \ {c} : CommandOK(b)'
  BY <1>1, <1>3, <1>4, OthersStay, Zenon
<1>6. Types'
  <2>1. cmd' \in [Commands -> {Idle} \cup AddCmd \cup RevokeCmd \cup SaveCmd]
    BY <1>2, <1>3, Zenon DEF DeviceInv, Types
  <2> QED BY <1>1, <1>4, <2>1, Zenon DEF DeviceInv, Types
<1>7. RegistryInv'
  BY <1>1, <1>4, Zenon DEF DeviceInv, RegistryInv
<1>8. CommandOK(c)'
  <2>1. d \in minted' \ DOMAIN file'
    BY <1>1, <1>4, Zenon DEF DeviceInv, RegistryInv
  <2> QED BY <1>2, <1>5, <2>1, Zenon DEF CommandOK, Holding, Adding
<1>9. AddsDistinct'
  <2>1. \A b \in Commands : b # c /\ Adding(b)' =>
            Adding(b) /\ cmd'[b] = cmd[b] /\ cmd[b].id \in minted
    BY <1>5, Zenon DEF Adding, DeviceInv, CommandInv, CommandOK
  <2>2. cmd'[c].id \notin minted
    BY <1>1, <1>2, <1>5, Zenon
  <2> QED BY <2>1, <2>2, Zenon DEF DeviceInv, CommandInv, AddsDistinct
<1>10. RequestInv' /\ Honoured'
  BY <1>4, RequestStays, Zenon
<1> QED BY <1>5, <1>6, <1>7, <1>8, <1>9, <1>10, Zenon DEF DeviceInv, CommandInv

LEMMA RevokeStep ==
    ASSUME DeviceInv, NEW c \in Commands, revoke(c)
    PROVE  DeviceInv'
<1>1. PICK p \in Given :
          cmd' = [cmd EXCEPT ![c] = [pc |-> "flock", op |-> "revoke", prefix |-> p]]
  BY Zenon DEF revoke
<1> DEFINE v == [pc |-> "flock", op |-> "revoke", prefix |-> p]
<1>2. v \in RevokeCmd /\ v.pc = "flock" /\ v.op = "revoke"
  BY Zenon DEF RevokeCmd
<1>3. cmd' = [cmd EXCEPT ![c] = v]
  BY <1>1, Zenon
<1> HIDE DEF v
<1>4. UNCHANGED <<file, lock, minted, gate, request, added, revoked, tried>>
  BY Zenon DEF revoke
<1>5. /\ cmd'[c] = v /\ \A b \in Commands \ {c} : cmd'[b] = cmd[b]
      /\ \A b \in Commands \ {c} : CommandOK(b)'
  BY <1>3, <1>4, OthersStay, Zenon
<1>6. Types'
  <2>1. cmd' \in [Commands -> {Idle} \cup AddCmd \cup RevokeCmd \cup SaveCmd]
    BY <1>2, <1>3, Zenon DEF DeviceInv, Types
  <2> QED BY <1>4, <2>1, Zenon DEF DeviceInv, Types
<1>7. RegistryInv'
  BY <1>4, Zenon DEF DeviceInv, RegistryInv
<1>8. CommandOK(c)' /\ ~Adding(c)'
  BY <1>2, <1>5, Zenon DEF CommandOK, Holding, Adding
<1>9. AddsDistinct'
  <2>1. \A b \in Commands : Adding(b)' => Adding(b) /\ cmd'[b] = cmd[b]
    BY <1>5, <1>8, Zenon DEF Adding
  <2> QED BY <2>1, Zenon DEF DeviceInv, CommandInv, AddsDistinct
<1>10. RequestInv' /\ Honoured'
  BY <1>4, RequestStays, Zenon
<1> QED BY <1>5, <1>6, <1>7, <1>8, <1>9, <1>10, Zenon DEF DeviceInv, CommandInv

\* The lock is taken only when nobody has it.
LEMMA UpdateStep ==
    ASSUME DeviceInv, NEW c \in Commands, update(c)
    PROVE  DeviceInv'
<1> DEFINE v == [cmd[c] EXCEPT !.pc = "load"]
<1>1. /\ cmd[c].pc = "flock" /\ lock = {} /\ lock' = {c}
      /\ UNCHANGED <<file, minted, gate, request, added, revoked, tried>>
  BY Zenon DEF update
<1>2. cmd' = [cmd EXCEPT ![c] = v]
  BY Zenon DEF update
<1>3. /\ v \in AddCmd \cup RevokeCmd /\ v.pc = "load" /\ v.op = cmd[c].op
      /\ v.op = "add" => v.id = cmd[c].id
  <2>1. cmd[c] \in AddCmd \cup RevokeCmd
    BY <1>1, CommandParts, Zenon DEF DeviceInv
  <2>2. CASE cmd[c] \in AddCmd
    BY <2>2, Zenon DEF AddCmd
  <2>3. CASE cmd[c] \in RevokeCmd
    BY <2>3, Zenon DEF RevokeCmd
  <2> QED BY <2>1, <2>2, <2>3, Zenon
<1> HIDE DEF v
<1>4. /\ cmd'[c] = v /\ \A b \in Commands \ {c} : cmd'[b] = cmd[b]
      /\ \A b \in Commands \ {c} : CommandOK(b)'
  BY <1>1, <1>2, OthersStay, Zenon
<1>5. Types'
  <2>1. cmd' \in [Commands -> {Idle} \cup AddCmd \cup RevokeCmd \cup SaveCmd]
    BY <1>2, <1>3, Zenon DEF DeviceInv, Types
  <2> QED BY <1>1, <2>1, Zenon DEF DeviceInv, Types
<1>6. RegistryInv'
  BY <1>1, Zenon DEF DeviceInv, RegistryInv
<1>7. Adding(c)' => Adding(c) /\ cmd'[c].id = cmd[c].id
  BY <1>1, <1>3, <1>4, Zenon DEF Adding
<1>8. CommandOK(c)'
  <2>1. CommandOK(c)
    BY Zenon DEF DeviceInv, CommandInv
  <2> QED BY <1>1, <1>3, <1>4, <1>7, <2>1, Zenon DEF CommandOK, Holding
<1>9. AddsDistinct'
  <2>1. \A b \in Commands : Adding(b)' => Adding(b) /\ cmd'[b].id = cmd[b].id
    BY <1>4, <1>7, Zenon DEF Adding
  <2> QED BY <2>1, Zenon DEF DeviceInv, CommandInv, AddsDistinct
<1>10. RequestInv' /\ Honoured'
  BY <1>1, RequestStays, Zenon
<1> QED BY <1>4, <1>5, <1>6, <1>8, <1>9, <1>10, Zenon DEF DeviceInv, CommandInv

\* The edit is of the registry that was just read; it is of a device that is
\* new (add) or known (revoke).
LEMMA LoadStep ==
    ASSUME DeviceInv, NEW c \in Commands, load(c)
    PROVE  DeviceInv'
<1> DEFINE op == cmd[c].op
           chosen == IF op = "add" THEN {cmd[c].id} ELSE Matches(file, cmd[c].prefix)
           d == CHOOSE x \in chosen : TRUE
           v == [pc |-> "save", op |-> op, id |-> d, reg |-> Edited(file, op, d)]
<1>1. /\ cmd[c].pc = "load" /\ UNCHANGED <<file, minted, gate, request, added, revoked>>
      /\ \/ /\ Cardinality(chosen) = 1 /\ cmd' = [cmd EXCEPT ![c] = v]
            /\ tried' = IF op = "revoke" THEN tried \cup {d} ELSE tried
            /\ UNCHANGED lock
         \/ Exit(c) /\ tried' = tried
  BY Zenon DEF load
<1>2. CommandOK(c) /\ cmd[c] \in AddCmd \cup RevokeCmd
  BY <1>1, CommandParts, Zenon DEF DeviceInv, CommandInv
<1>3. CASE Exit(c) /\ tried' = tried
  <2>1. CommandInv' /\ Types'
    BY <1>1, <1>3, ExitStep, Zenon DEF DeviceInv, Types
  <2>2. RegistryInv'
    BY <1>1, <1>3, Zenon DEF DeviceInv, RegistryInv
  <2>3. RequestInv' /\ Honoured'
    BY <1>1, <1>3, RequestStays, Zenon
  <2> QED BY <2>1, <2>2, <2>3, Zenon DEF DeviceInv
<1>4. CASE /\ Cardinality(chosen) = 1 /\ cmd' = [cmd EXCEPT ![c] = v]
           /\ tried' = IF op = "revoke" THEN tried \cup {d} ELSE tried
           /\ UNCHANGED lock
  <2>1. op \in {"add", "revoke"}
    BY <1>2, Zenon DEF AddCmd, RevokeCmd
  <2>2. d \in chosen
    <3>1. chosen # {}
      <4>1. CASE chosen = {}
        BY <1>4, <4>1, FS_EmptySet
      <4> QED BY <4>1, Zenon
    <3> HIDE DEF chosen
    <3> QED BY <3>1, Zenon
  <2>3. op = "add" => d = cmd[c].id /\ d \in minted \ DOMAIN file /\ d \in DeviceIds
    BY <1>1, <1>2, <2>2 DEF CommandOK, Adding, DeviceInv, Types
  <2>4. op = "revoke" => d \in DOMAIN file /\ d \in DeviceIds
    <3>1. file \in Registry
      BY Zenon DEF DeviceInv, Types
    <3> QED BY <2>2, <3>1, RegistryParts DEF Matches
  <2>5. Edited(file, op, d) \in Registry
    <3>1. file \in Registry
      BY Zenon DEF DeviceInv, Types
    <3>2. CASE op = "add"
      BY <2>3, <3>1, <3>2, EditedAdd, Zenon
    <3>3. CASE op = "revoke"
      BY <2>4, <3>1, <3>3, EditedRevoke, Zenon
    <3> HIDE DEF op, d
    <3> QED BY <2>1, <3>2, <3>3, Zenon
  <2> HIDE DEF op, chosen, d
  <2>6. /\ v \in SaveCmd /\ v.pc = "save" /\ v.op = op /\ v.id = d
        /\ v.reg = Edited(file, op, d)
    BY <2>1, <2>3, <2>4, <2>5, Zenon DEF SaveCmd
  <2> HIDE DEF v
  <2>7. tried \subseteq tried' /\ tried' \subseteq tried \cup {d} /\ (op = "add" => tried' = tried)
    BY <1>4, Zenon
  <2>8. /\ cmd'[c] = v /\ \A b \in Commands \ {c} : cmd'[b] = cmd[b]
        /\ \A b \in Commands \ {c} : CommandOK(b)'
    BY <1>1, <1>4, <2>7, OthersStay, Zenon
  <2>9. Types'
    <3>1. cmd' \in [Commands -> {Idle} \cup AddCmd \cup RevokeCmd \cup SaveCmd]
      BY <1>4, <2>6, Zenon DEF DeviceInv, Types
    <3> QED BY <1>1, <3>1, Zenon DEF DeviceInv, Types
  <2>10. RegistryInv'
    <3>1. tried' \subseteq DOMAIN file
      BY <2>1, <2>4, <2>7, Zenon DEF DeviceInv, RegistryInv
    <3> QED BY <1>1, <2>7, <3>1, Zenon DEF DeviceInv, RegistryInv
  <2>11. Adding(c)' => Adding(c) /\ cmd'[c].id = cmd[c].id
    BY <1>1, <2>3, <2>6, <2>8, Zenon DEF Adding, op
  <2>12. CommandOK(c)'
    <3>1. lock' = {c}
      BY <1>1, <1>2, <1>4, Zenon DEF CommandOK, Holding
    <3>2. op = "revoke" => d \in tried'
      BY <1>4, Zenon
    <3> QED BY <1>1, <2>3, <2>6, <2>8, <3>1, <3>2, Zenon DEF CommandOK, Holding, Adding
  <2>13. AddsDistinct'
    <3>1. \A b \in Commands : Adding(b)' => Adding(b) /\ cmd'[b].id = cmd[b].id
      BY <2>8, <2>11, Zenon DEF Adding
    <3> QED BY <3>1, Zenon DEF DeviceInv, CommandInv, AddsDistinct
  <2>14. RequestInv' /\ Honoured'
    BY <1>1, <2>7, RequestStays, Zenon
  <2> QED BY <2>8, <2>9, <2>10, <2>12, <2>13, <2>14, Zenon DEF DeviceInv, CommandInv
<1> QED BY <1>1, <1>3, <1>4, Zenon

\* What is renamed over the registry is the registry with this one edit, since
\* nobody else could change it since it was read.
LEMMA SaveStep ==
    ASSUME DeviceInv, NEW c \in Commands, save(c)
    PROVE  DeviceInv'
<1>1. /\ cmd[c].pc = "save"
      /\ UNCHANGED <<minted, gate, request, added, revoked, tried>>
      /\ \/ /\ file' = cmd[c].reg /\ cmd' = [cmd EXCEPT ![c] = [cmd[c] EXCEPT !.pc = "saved"]]
            /\ UNCHANGED lock
         \/ Exit(c) /\ file' = file
  BY Zenon DEF save
<1>2. CASE Exit(c) /\ file' = file
  <2>1. CommandInv' /\ Types'
    BY <1>1, <1>2, ExitStep, Zenon DEF DeviceInv, Types
  <2>2. RegistryInv'
    BY <1>1, <1>2, Zenon DEF DeviceInv, RegistryInv
  <2>3. RequestInv' /\ Honoured'
    BY <1>1, <1>2, RequestStays, Zenon
  <2> QED BY <2>1, <2>2, <2>3, Zenon DEF DeviceInv
<1>3. CASE /\ file' = cmd[c].reg /\ cmd' = [cmd EXCEPT ![c] = [cmd[c] EXCEPT !.pc = "saved"]]
           /\ UNCHANGED lock
  <2> DEFINE v == [cmd[c] EXCEPT !.pc = "saved"]
             op == cmd[c].op
             d == cmd[c].id
  <2>1. CommandOK(c) /\ cmd[c] \in SaveCmd
    BY <1>1, CommandParts, Zenon DEF DeviceInv, CommandInv
  <2>2. v \in SaveCmd /\ v.pc = "saved" /\ v.op = op /\ v.id = d
    BY <2>1, Zenon DEF SaveCmd
  <2>3. op \in {"add", "revoke"} /\ d \in DeviceIds
    BY <2>1, Zenon DEF SaveCmd
  <2>4. /\ cmd'[c] = v /\ \A b \in Commands \ {c} : cmd'[b] = cmd[b]
        /\ cmd' \in [Commands -> {Idle} \cup AddCmd \cup RevokeCmd \cup SaveCmd]
    BY <1>3, <2>2, Zenon DEF DeviceInv, Types
  <2> HIDE DEF v
  <2>5. /\ file' = Edited(file, op, d) /\ lock' = {c} /\ lock = {c}
        /\ op = "add" => d \in minted \ DOMAIN file
        /\ op = "revoke" => d \in tried
    BY <1>1, <1>3, <2>1, Zenon DEF CommandOK, Holding, Adding
  <2>6. /\ file \in Registry /\ tried \subseteq DOMAIN file
        /\ \A x \in DOMAIN file : file[x].token_hash = token_hash(x)
    BY Zenon DEF DeviceInv, Types, RegistryInv
  <2> HIDE DEF op, d
  <2>7. /\ file' \in Registry /\ DOMAIN file' = DOMAIN file \cup {d}
        /\ file'[d].token_hash = token_hash(d)
        /\ \A x \in DOMAIN file \ {d} : file'[x] = file[x]
        /\ op = "add" => file'[d].enabled /\ d \notin DOMAIN file
        /\ op = "revoke" => ~file'[d].enabled
    <3>1. CASE op = "add"
      BY <2>3, <2>5, <2>6, <3>1, EditedAdd, Zenon
    <3>2. CASE op = "revoke"
      <4>1. d \in DOMAIN file
        BY <2>5, <2>6, <3>2, Zenon
      <4> QED BY <2>5, <2>6, <3>2, <4>1, EditedRevoke, Zenon
    <3> QED BY <2>3, <3>1, <3>2, Zenon
  <2>8. Types'
    BY <1>1, <2>4, <2>7, Zenon DEF DeviceInv, Types
  <2>9. RegistryInv'
    <3>1. DOMAIN file' \subseteq minted'
      BY <1>1, <2>3, <2>5, <2>6, <2>7, Zenon DEF DeviceInv, RegistryInv
    <3>2. \A x \in DOMAIN file' : file'[x].token_hash = token_hash(x)
      BY <2>6, <2>7, Zenon
    <3>3. added' \cup tried' \subseteq DOMAIN file' /\ revoked' \subseteq tried'
      BY <1>1, <2>7, Zenon DEF DeviceInv, RegistryInv
    <3>4. ASSUME NEW x \in revoked' PROVE ~file'[x].enabled
      <4>1. x \in DOMAIN file /\ ~file[x].enabled
        BY <1>1, <3>4, Zenon DEF DeviceInv, RegistryInv
      <4> QED BY <2>3, <2>7, <4>1, Zenon
    <3>5. ASSUME NEW x \in DOMAIN file' \ tried' PROVE file'[x].enabled
      <4>1. x \in DOMAIN file => file[x].enabled
        BY <1>1, <3>5, Zenon DEF DeviceInv, RegistryInv
      <4> QED BY <1>1, <2>3, <2>5, <2>7, <3>5, <4>1, Zenon
    <3> QED BY <3>1, <3>2, <3>3, <3>4, <3>5, Zenon DEF RegistryInv
  <2>10. CommandOK(c)'
    <3>1. d \in DOMAIN file' /\ (op = "revoke" => d \in tried' /\ ~file'[d].enabled)
      BY <1>1, <2>5, <2>7, Zenon
    <3> QED BY <2>2, <2>4, <2>5, <3>1, Zenon DEF CommandOK, Holding, Adding
  <2>11. ASSUME NEW b \in Commands \ {c} PROVE CommandOK(b)'
    <3>1. CommandOK(b) /\ cmd'[b] = cmd[b] /\ ~Holding(b)
      BY <2>4, <2>5, Zenon DEF DeviceInv, CommandInv, CommandOK
    <3>2. Adding(b) => cmd[b].id \notin DOMAIN file'
      <4> SUFFICES ASSUME Adding(b), cmd[b].id = d PROVE FALSE
        BY <2>7, <3>1, Zenon DEF CommandOK
      <4>1. cmd[b].id \notin DOMAIN file
        BY <3>1, Zenon DEF CommandOK
      <4>2. CASE op = "add"
        <5>1. Adding(c) /\ cmd[c].id = d
          BY <1>1, <4>2, Zenon DEF Adding, op, d
        <5> QED BY <5>1, Zenon DEF DeviceInv, CommandInv, AddsDistinct
      <4>3. CASE op = "revoke"
        BY <2>5, <2>6, <4>1, <4>3, Zenon
      <4> QED BY <2>3, <4>2, <4>3, Zenon
    <3> QED BY <1>1, <3>1, <3>2, Zenon DEF CommandOK, Holding, Adding
  <2>12. AddsDistinct'
    <3>1. \A b \in Commands : Adding(b)' => Adding(b) /\ cmd'[b] = cmd[b]
      BY <2>2, <2>4, Zenon DEF Adding
    <3> QED BY <3>1, Zenon DEF DeviceInv, CommandInv, AddsDistinct
  <2>13. RequestInv' /\ Honoured'
    BY <1>1, RequestStays, Zenon
  <2> QED BY <2>8, <2>9, <2>10, <2>11, <2>12, <2>13, Zenon DEF DeviceInv, CommandInv
<1> QED BY <1>1, <1>2, <1>3, Zenon

\* What is reported is what the registry has.
LEMMA CliStep ==
    ASSUME DeviceInv, NEW c \in Commands, cli(c)
    PROVE  DeviceInv'
<1>1. /\ cmd[c].pc = "saved" /\ Exit(c) /\ UNCHANGED <<file, minted, gate, request, tried>>
      /\ added' = IF cmd[c].op = "add" THEN added \cup {cmd[c].id} ELSE added
      /\ revoked' = IF cmd[c].op = "revoke" THEN revoked \cup {cmd[c].id} ELSE revoked
  BY Zenon DEF cli
<1>2. CommandInv' /\ Types'
  BY <1>1, ExitStep, Zenon DEF DeviceInv, Types
<1>3. CommandOK(c)
  BY Zenon DEF DeviceInv, CommandInv
<1>4. RegistryInv'
  BY <1>1, <1>3, Zenon DEF DeviceInv, RegistryInv, CommandOK
<1>5. RequestInv' /\ Honoured'
  BY <1>1, RequestStays, Zenon
<1> QED BY <1>2, <1>4, <1>5, Zenon DEF DeviceInv

LEMMA KillStep ==
    ASSUME DeviceInv, NEW c \in Commands, Kill(c)
    PROVE  DeviceInv'
<1>1. Exit(c) /\ UNCHANGED <<file, minted, gate, request, added, revoked, tried>>
  BY Zenon DEF Kill
<1>2. CommandInv' /\ Types'
  BY <1>1, ExitStep, Zenon DEF DeviceInv, Types
<1>3. RegistryInv'
  BY <1>1, Zenon DEF DeviceInv, RegistryInv
<1>4. RequestInv' /\ Honoured'
  BY <1>1, RequestStays, Zenon
<1> QED BY <1>2, <1>3, <1>4, Zenon DEF DeviceInv

-----------------------------------------------------------------------------
(* Devices: the steps of the gateway.                                      *)

\* The devices a token stands for: at most the one it was made for.
LEMMA AuthenticateOne ==
    ASSUME DeviceInv, NEW t \in DeviceIds \cup {Master, Unknown}
    PROVE  /\ authenticate(file, t) \subseteq {t} \cap DOMAIN file
           /\ \A d \in authenticate(file, t) : file[d].enabled
           /\ t \in DOMAIN file /\ file[t].enabled => t \in authenticate(file, t)
<1>1. file \in Registry /\ \A d \in DOMAIN file : file[d].token_hash = token_hash(d)
  BY Zenon DEF DeviceInv, Types, RegistryInv
<1>2. DOMAIN file \subseteq DeviceIds
  BY <1>1, RegistryParts, Zenon
<1>3. ASSUME NEW d \in authenticate(file, t)
      PROVE  d = t /\ d \in DOMAIN file /\ file[d].enabled
  <2>1. /\ d \in DOMAIN file /\ file[d].enabled
        /\ file[d].token_hash = token_hash(t)
    BY Zenon DEF authenticate
  <2>2. token_hash(d) = token_hash(t) /\ d \in DeviceIds
    BY <1>1, <1>2, <2>1, Zenon
  <2> QED BY <2>1, <2>2, OneToken, Zenon
<1>4. t \in DOMAIN file /\ file[t].enabled => t \in authenticate(file, t)
  BY <1>1, Zenon DEF authenticate
<1> QED BY <1>3, <1>4, Zenon

\* Whom require_auth passes on.
LEMMA CallerIs ==
    ASSUME DeviceInv, NEW bearer \in Bearers, NEW caller \in Caller(bearer)
    PROVE  /\ \/ caller \in {Unauthorized, Unavailable, Admin, Local}
              \/ caller \in DOMAIN file /\ file[caller].enabled /\ bearer = {caller}
           /\ gate.devices_file =>
                 \A d \in DOMAIN file :
                     file[d].enabled /\ bearer = {d} => caller \in {d, Unavailable}
<1>0. gate.auth_token \in {{}, {Master}} /\ DOMAIN file \subseteq DeviceIds /\ Master \notin DeviceIds
  BY RegistryParts, DeviceAssumption, Zenon DEF DeviceInv, Types
<1>1. CASE bearer = {}
  <2>1. caller \in {Local, Unauthorized}
    BY <1>1, Zenon DEF Caller
  <2> QED BY <1>1, <2>1, Zenon
<1>2. CASE bearer # {}
  <2>1. PICK t \in DeviceIds \cup {Master, Unknown} : bearer = {t}
    BY <1>2, Zenon DEF Bearers
  <2>2. (CHOOSE x \in bearer : TRUE) = t
    BY <2>1, Zenon
  <2>3. CASE bearer = gate.auth_token
    <3>1. caller = Admin
      BY <1>2, <2>3, Zenon DEF Caller
    <3>2. bearer = {Master}
      BY <1>0, <1>2, <2>3, Zenon
    <3> QED BY <1>0, <3>1, <3>2, Zenon
  <2>4. CASE bearer # gate.auth_token /\ ~(gate.auth_token # {} \/ gate.devices_file)
    <3>1. caller \in {Local, Unauthorized}
      BY <1>2, <2>4, Zenon DEF Caller
    <3> QED BY <2>4, <3>1, Zenon
  <2>5. CASE bearer # gate.auth_token /\ (gate.auth_token # {} \/ gate.devices_file)
    <3>1. caller \in device_caller(t)
      BY <1>2, <2>2, <2>5, Zenon DEF Caller
    <3>2. /\ caller \in {Unauthorized, Unavailable} \/ caller \in authenticate(file, t)
          /\ gate.devices_file /\ authenticate(file, t) # {} =>
                caller = Unavailable \/ caller \in authenticate(file, t)
      BY <3>1, Zenon DEF device_caller
    <3>3. /\ authenticate(file, t) \subseteq {t} \cap DOMAIN file
          /\ \A d \in authenticate(file, t) : file[d].enabled
          /\ t \in DOMAIN file /\ file[t].enabled => t \in authenticate(file, t)
      BY AuthenticateOne, Zenon
    <3> QED BY <2>1, <3>2, <3>3, Zenon
  <2> QED BY <2>3, <2>4, <2>5, Zenon
<1> QED BY <1>1, <1>2, Zenon

LEMMA SameRegistry ==
    ASSUME DeviceInv, UNCHANGED <<file, lock, cmd, minted, gate, added, revoked, tried>>
    PROVE  Types' /\ RegistryInv' /\ CommandInv'
BY Zenon DEF DeviceInv, Types, RegistryInv, CommandInv, CommandOK, AddsDistinct, Holding, Adding

LEMMA ArriveStep ==
    ASSUME DeviceInv, Arrive
    PROVE  DeviceInv'
<1>1. PICK b \in Bearers :
          request' = [pc |-> "auth", bearer |-> b, added |-> added, revoked |-> revoked]
  BY Zenon DEF Arrive
<1>2. Types' /\ RegistryInv' /\ CommandInv'
  BY SameRegistry, Zenon DEF Arrive
<1>3. /\ request'.pc = "auth" /\ request'.bearer = b
      /\ request'.added = added /\ request'.revoked = revoked
  BY <1>1, Zenon
<1>4. RequestInv' /\ Honoured'
  BY <1>3, Zenon DEF RequestInv, Honoured, Arrive, Bearers
<1> QED BY <1>2, <1>4, Zenon DEF DeviceInv

LEMMA AuthStep ==
    ASSUME DeviceInv, require_auth
    PROVE  DeviceInv'
<1>1. PICK caller \in Caller(request.bearer) :
          request' = [pc |-> "answered", bearer |-> request.bearer, added |-> request.added,
                      revoked |-> request.revoked, caller |-> caller,
                      device |-> IF caller \in {Unauthorized, Unavailable} THEN {}
                                 ELSE {device_id(caller)}]
  BY Zenon DEF require_auth
<1>2. Types' /\ RegistryInv' /\ CommandInv'
  BY SameRegistry, Zenon DEF require_auth
<1>3. /\ request'.pc = "answered" /\ request'.bearer = request.bearer
      /\ request'.added = request.added /\ request'.revoked = request.revoked
      /\ request'.caller = caller
      /\ request'.device = IF caller \in {Unauthorized, Unavailable} THEN {}
                           ELSE {device_id(caller)}
  BY <1>1, Zenon
<1>4. /\ request.bearer \in Bearers /\ request.added \subseteq added
      /\ request.revoked \subseteq revoked
      /\ UNCHANGED <<file, gate, added, revoked, tried>>
  BY Zenon DEF require_auth, DeviceInv, RequestInv
<1>5. RequestInv'
  BY <1>3, <1>4, Zenon DEF RequestInv, Bearers
<1>6. /\ \/ caller \in {Unauthorized, Unavailable, Admin, Local}
         \/ caller \in DOMAIN file /\ file[caller].enabled /\ request.bearer = {caller}
      /\ gate.devices_file =>
            \A d \in DOMAIN file :
                file[d].enabled /\ request.bearer = {d} => caller \in {d, Unavailable}
  BY <1>4, CallerIs, Zenon
<1>7. /\ DOMAIN file \subseteq DeviceIds /\ LocalDevice \notin DeviceIds
      /\ \A d \in DOMAIN file : d \notin {Unauthorized, Unavailable, Admin, Local}
  BY DeviceAssumption, Zenon DEF DeviceInv, Types, RegistryInv
<1>8. \/ request'.device \subseteq {LocalDevice}
      \/ /\ request'.device = {caller} /\ caller \in DOMAIN file
         /\ file[caller].enabled /\ request.bearer = {caller}
  BY <1>3, <1>6, <1>7, Zenon DEF device_id
<1>9. Honoured'
  <2>1. request'.device \subseteq DeviceIds \cup {LocalDevice}
    BY <1>7, <1>8
  <2>2. ASSUME NEW d \in request'.device \cap DeviceIds
        PROVE  request'.bearer = {d} /\ d \notin request'.revoked
    <3>1. d = caller /\ file[caller].enabled /\ request.bearer = {caller}
      BY <1>7, <1>8, <2>2
    <3>2. d \notin revoked
      BY <3>1, Zenon DEF DeviceInv, RegistryInv
    <3> QED BY <1>3, <1>4, <3>1, <3>2, Zenon
  <2>3. ASSUME gate.devices_file, NEW d \in request'.added \ tried', request'.bearer = {d}
        PROVE  request'.caller \in {d, Unavailable}
    <3>1. d \in DOMAIN file \ tried
      BY <1>3, <1>4, <2>3, Zenon DEF DeviceInv, RegistryInv
    <3>2. file[d].enabled
      BY <3>1, Zenon DEF DeviceInv, RegistryInv
    <3> QED BY <1>3, <1>6, <2>3, <3>1, <3>2, Zenon
  <2> QED BY <1>4, <2>1, <2>2, <2>3, Zenon DEF Honoured
<1> QED BY <1>2, <1>5, <1>9, Zenon DEF DeviceInv

-----------------------------------------------------------------------------
(* Devices: the theorems.                                                  *)

LEMMA DeviceStep == DeviceInv /\ [DevicesNext]_devicesVars => DeviceInv'
<1> SUFFICES ASSUME DeviceInv, [DevicesNext]_devicesVars PROVE DeviceInv'
  BY Zenon
<1>1. ASSUME NEW c \in Commands, add(c) \/ revoke(c) \/ update(c) \/ load(c)
      PROVE  DeviceInv'
  BY <1>1, AddStep, RevokeStep, UpdateStep, LoadStep, Zenon
<1>2. ASSUME NEW c \in Commands, save(c) \/ cli(c) \/ Kill(c)
      PROVE  DeviceInv'
  BY <1>2, SaveStep, CliStep, KillStep, Zenon
<1>3. CASE Arrive
  BY <1>3, ArriveStep, Zenon
<1>4. CASE require_auth
  BY <1>4, AuthStep, Zenon
<1>5. CASE UNCHANGED devicesVars
  <2>1. RequestInv' /\ Honoured'
    BY <1>5, RequestStays, Zenon DEF devicesVars
  <2> QED BY <1>5, <2>1, SameRegistry, Zenon DEF DeviceInv, devicesVars
<1> QED BY <1>1, <1>2, <1>3, <1>4, <1>5, Zenon DEF DevicesNext

LEMMA DeviceAlways == DevicesSpec => []DeviceInv
BY DeviceInit, DeviceStep, PTL DEF DevicesSpec

\* "concurrent `device add`/`revoke` invocations can't lose each other's writes"
\* (update): whatever number of commands run at once, whichever are killed and
\* whichever fail, what one has reported stays in the registry. And require_auth
\* serves a request as the device whose token came with it, never as one whose
\* revocation was reported before the request came, and refuses no device that
\* was reported and that nobody has begun to revoke.
THEOREM DevicesServed == DevicesSpec => []DevicesHonoured
<1>1. DeviceInv => RegistryKept
  BY Zenon DEF DeviceInv, RegistryInv, RegistryKept
<1>2. DeviceInv => DevicesHonoured
  BY <1>1, Zenon DEF DeviceInv, DevicesHonoured
<1> QED BY <1>2, DeviceAlways, PTL

-----------------------------------------------------------------------------
(* The gateway's files: the inductive invariant.                           *)

CallerIds == Sessions \cup Specs \cup RunIds
Profiles == {"", "p"}
Entries == [id : CallerIds, profile : Profiles]
Single(l) == \A m, n \in 1..Len(l) : l[m].id = l[n].id => m = n
Lists == {l \in Seq(Entries) : Len(l) <= MAX_INDEX_ENTRIES /\ Single(l)}
Indexes == [Kinds -> Lists]

\* Nothing of v is lost in w.
Grown(v, w) ==
    \A k \in Kinds : IdsIn(v[k]) \subseteq IdsIn(w[k]) /\ Len(v[k]) <= Len(w[k])

\* The entry is in v, or its list is full.
Noted(v, x) == x[2] \in IdsIn(v[x[1]]) \/ Len(v[x[1]]) = MAX_INDEX_ENTRIES

Reported(entries) == {<<k, entries[k].id>> : k \in DOMAIN entries}
AllNoted(v, entries) == \A x \in Reported(entries) : Noted(v, x)

Ours(entries) ==
    DOMAIN entries \subseteq Kinds /\ \A k \in DOMAIN entries : entries[k] \in Entries

\* What a request carries.
Carries(r) ==
    /\ r.pc \in {"remember", "hydrate", "write"} => Ours(r.entries)
    /\ r.pc = "hydrate" => r.spec \in Specs

Writing(h) == handler[h].pc = "write"

IndexTypes ==
    /\ index \in Indexes /\ disk \in Indexes \cup {Torn}
    /\ DOMAIN handler = Handlers
    /\ \A h \in Handlers : Carries(handler[h])
    /\ \A x \in acked : x[1] \in Kinds

\* The lock is held while a request writes, and what it writes is the index.
HolderInv ==
    /\ \A h \in Handlers : Writing(h) => holder = {h} /\ handler[h].image = index
    /\ \A h \in holder : h \in Handlers /\ Writing(h)
    /\ up = "down" => \A h \in Handlers : handler[h] = NoRequest

\* The file is the index, or what it was before the writer at work changed it.
DiskInv ==
    ~cut => /\ disk \in Indexes
            /\ up # "down" => IF holder = {} THEN disk = index ELSE Grown(disk, index)
            /\ \A x \in acked : Noted(disk, x)
            /\ \A h \in Handlers : Writing(h) /\ handler[h].done =>
                AllNoted(index, handler[h].entries)

IndexInv == IndexTypes /\ HolderInv /\ DiskInv

\* Unless writing it failed, what was used is in the file.
IdInv ==
    /\ kills \in Nat /\ \A i, j \in id_file : i = j
    /\ up = "minting" => local_id = kills + 1 /\ id_file \subseteq {TornId}
    /\ ~id_cut => used \subseteq id_file \ {TornId}

\* As many other files as the bound are no older than p.
NoOlder(p) == {q \in 1..staged \ {p} : mtime[q] >= mtime[p]}
Outlived(p) == p \in 1..staged /\ Cardinality(NoOlder(p)) >= MAX_PROPOSALS

Listing == \E h \in Handlers : handler[h].pc = "list"
Leaving(p) == \E h \in Handlers : handler[h].pc = "remove" /\ p \in handler[h].files
Staying == {p \in documents : ~Leaving(p)}

\* What is removed, or about to be, is outlived; and unless a writer did not
\* prune or has yet to, what stays is within the bound.
ProposalInv ==
    /\ staged \in Nat /\ clock \in Nat /\ mtime \in Seq(Nat) /\ Len(mtime) = staged
    /\ documents \subseteq 1..staged
    /\ DOMAIN handler = Handlers
    /\ \A p : p \in removed \/ Leaving(p) => Outlived(p)
    /\ ~owed /\ ~Listing => Cardinality(Staying) <= MAX_PROPOSALS

FilesInv == IndexInv /\ IdInv /\ ProposalInv

-----------------------------------------------------------------------------
\* The lists of the index.
LEMMA PushKeeps ==
    ASSUME NEW l \in Lists, NEW e \in Entries
    PROVE  /\ index_push(l, e) \in Lists
           /\ IdsIn(l) \subseteq IdsIn(index_push(l, e)) /\ Len(l) <= Len(index_push(l, e))
           /\ e.id \in IdsIn(index_push(l, e)) \/ Len(index_push(l, e)) = MAX_INDEX_ENTRIES
<1>1. l \in Seq(Entries) /\ Len(l) \in Nat /\ Len(l) <= MAX_INDEX_ENTRIES /\ Single(l) /\ DOMAIN l = 1..Len(l)
  BY DEF Lists
<1>2. CASE e.id \in IdsIn(l) \/ Len(l) >= MAX_INDEX_ENTRIES
  <2>1. index_push(l, e) = l
    BY <1>2, Zenon DEF index_push
  <2>2. e.id \in IdsIn(l) \/ Len(l) = MAX_INDEX_ENTRIES
    <3>1. MAX_INDEX_ENTRIES \in Nat
      BY FilesAssumption, Zenon
    <3>2. Len(l) >= MAX_INDEX_ENTRIES => Len(l) = MAX_INDEX_ENTRIES
      <4>1. Len(l) \in Nat /\ Len(l) <= MAX_INDEX_ENTRIES
        BY <1>1, Zenon
      <4> QED BY <3>1, <4>1
    <3> QED BY <1>2, <3>2, Zenon
  <2>3. Len(l) <= Len(l)
    BY <1>1
  <2> QED BY <2>1, <2>2, <2>3, Zenon
<1>3. CASE ~(e.id \in IdsIn(l) \/ Len(l) >= MAX_INDEX_ENTRIES)
  <2> DEFINE m == Append(l, e)
  <2>1. index_push(l, e) = m
    BY <1>3, Zenon DEF index_push
  <2>2. /\ m \in Seq(Entries) /\ Len(m) = Len(l) + 1 /\ DOMAIN m = 1..Len(m)
        /\ m[Len(l) + 1] = e /\ \A n \in 1..Len(l) : m[n] = l[n]
    BY <1>1, AppendProperties
  <2> HIDE DEF m
  <2>3. \A n \in 1..Len(l) : l[n].id # e.id
    BY <1>1, <1>3 DEF IdsIn
  <2>4. Single(m)
    <3> SUFFICES ASSUME NEW a \in 1..Len(m), NEW b \in 1..Len(m), m[a].id = m[b].id PROVE a = b
      BY Zenon DEF Single
    <3>1. (a \in 1..Len(l) \/ a = Len(l) + 1) /\ (b \in 1..Len(l) \/ b = Len(l) + 1)
      BY <1>1, <2>2
    <3> QED BY <1>1, <2>2, <2>3, <3>1 DEF Single
  <2>5. m \in Lists
    BY <1>1, <1>3, <2>2, <2>4, FilesAssumption DEF Lists
  <2>6. IdsIn(l) \subseteq IdsIn(m) /\ e.id \in IdsIn(m)
    <3>1. \A n \in DOMAIN l : n \in DOMAIN m /\ m[n] = l[n]
      BY <1>1, <2>2
    <3>2. Len(l) + 1 \in DOMAIN m
      BY <1>1, <2>2
    <3> QED BY <2>2, <3>1, <3>2, Zenon DEF IdsIn
  <2> QED BY <1>1, <2>1, <2>2, <2>5, <2>6
<1> QED BY <1>2, <1>3, Zenon

LEMMA PushedKeeps ==
    ASSUME NEW v \in Indexes, NEW entries, Ours(entries)
    PROVE  Pushed(v, entries) \in Indexes /\ Grown(v, Pushed(v, entries)) /\ AllNoted(Pushed(v, entries), entries)
<1> DEFINE w == Pushed(v, entries)
<1>1. \A k \in Kinds : v[k] \in Lists /\ Len(v[k]) \in Nat
  BY DEF Indexes, Lists
<1>2. \A k \in Kinds : w[k] = IF k \in DOMAIN entries THEN index_push(v[k], entries[k]) ELSE v[k]
  BY Zenon DEF Pushed
<1>3. \A k \in DOMAIN entries : k \in Kinds /\ entries[k] \in Entries
  BY Zenon DEF Ours
<1>4. ASSUME NEW k \in Kinds
      PROVE  /\ w[k] \in Lists /\ IdsIn(v[k]) \subseteq IdsIn(w[k]) /\ Len(v[k]) <= Len(w[k])
             /\ k \in DOMAIN entries =>
                  entries[k].id \in IdsIn(w[k]) \/ Len(w[k]) = MAX_INDEX_ENTRIES
  <2>1. CASE k \in DOMAIN entries
    BY <1>1, <1>2, <1>3, <2>1, PushKeeps, Zenon
  <2>2. CASE k \notin DOMAIN entries
    <3>1. w[k] = v[k]
      BY <1>2, <2>2, Zenon
    <3>2. Len(v[k]) <= Len(v[k])
      BY <1>1
    <3> QED BY <1>1, <2>2, <3>1, <3>2, Zenon
  <2> QED BY <2>1, <2>2, Zenon
<1>5. w \in Indexes
  <2>1. w = [k \in Kinds |-> w[k]]
    BY Zenon DEF Pushed
  <2> HIDE DEF w
  <2> QED BY <1>4, <2>1 DEF Indexes
<1> HIDE DEF w
<1>6. ASSUME NEW k \in DOMAIN entries PROVE Noted(w, <<k, entries[k].id>>)
  <2>1. <<k, entries[k].id>>[1] = k /\ <<k, entries[k].id>>[2] = entries[k].id
    OBVIOUS
  <2> QED BY <1>3, <1>4, <2>1, Zenon DEF Noted
<1>7. Grown(v, w) /\ AllNoted(w, entries)
  BY <1>4, <1>6, Zenon DEF Grown, AllNoted, Reported
<1> QED BY <1>5, <1>7, Zenon DEF w

LEMMA HydratedKeeps ==
    ASSUME NEW v \in Indexes, NEW i \in Specs
    PROVE  Hydrated(v, i) \in Indexes /\ Grown(v, Hydrated(v, i))
<1> DEFINE l == v["specs"]
           new == [n \in DOMAIN l |-> IF l[n].id = i THEN Entry(i, "p") ELSE l[n]]
           w == Hydrated(v, i)
<1>1. /\ l \in Lists /\ \A k \in Kinds : v[k] \in Lists /\ Len(v[k]) \in Nat
  <2>1. "specs" \in Kinds
    BY DEF Kinds
  <2>2. \A k \in Kinds : v[k] \in Lists
    BY DEF Indexes
  <2>3. \A x \in Lists : Len(x) \in Nat
    BY DEF Lists
  <2> QED BY <2>1, <2>2, <2>3, Zenon
<1>2. l \in Seq(Entries) /\ Len(l) \in Nat /\ Len(l) <= MAX_INDEX_ENTRIES /\ Single(l) /\ DOMAIN l = 1..Len(l)
  BY <1>1 DEF Lists
<1>3. Entry(i, "p") \in Entries /\ Entry(i, "p").id = i
  BY DEF Entry, Entries, CallerIds, Profiles
<1>4. \A n \in 1..Len(l) : new[n] \in Entries /\ new[n].id = l[n].id
  BY <1>2, <1>3
<1>5. new \in Seq(Entries) /\ Len(new) = Len(l) /\ DOMAIN new = DOMAIN l
  <2>1. DOMAIN new = 1..Len(l)
    BY <1>2
  <2>2. new \in [1..Len(l) -> Entries]
    BY <1>4, <2>1
  <2> QED BY <1>2, <2>2
<1>6. w = [v EXCEPT !["specs"] = new]
  BY DEF Hydrated
<1> HIDE DEF new, l, w
<1>7. IdsIn(new) = IdsIn(l) /\ Single(new)
  <2>1. IdsIn(new) = IdsIn(l)
    <3>1. \A n \in DOMAIN l : n \in DOMAIN new /\ new[n].id = l[n].id
      BY <1>2, <1>4, <1>5, Zenon
    <3> QED BY <1>5, <3>1 DEF IdsIn
  <2>2. Single(new)
    BY <1>2, <1>4, <1>5, Zenon DEF Single
  <2> QED BY <2>1, <2>2
<1>8. new \in Lists
  BY <1>2, <1>5, <1>7, Zenon DEF Lists
<1>9. \A k \in Kinds : w[k] = IF k = "specs" THEN new ELSE v[k]
  BY <1>6 DEF Indexes
<1>10. w \in Indexes
  BY <1>6, <1>8 DEF Indexes
<1>11. ASSUME NEW k \in Kinds PROVE IdsIn(v[k]) \subseteq IdsIn(w[k]) /\ Len(v[k]) <= Len(w[k])
  <2>1. Len(v[k]) <= Len(v[k])
    BY <1>1
  <2> QED BY <1>5, <1>7, <1>9, <2>1, Zenon DEF l
<1> QED BY <1>10, <1>11, Zenon DEF Grown, w

\* What was noted stays so in an index that has grown.
LEMMA NotedGrown ==
    ASSUME NEW v \in Indexes, NEW w \in Indexes, Grown(v, w), NEW x, x[1] \in Kinds, Noted(v, x)
    PROVE  Noted(w, x)
<1>1. Len(w[x[1]]) \in Nat /\ Len(w[x[1]]) <= MAX_INDEX_ENTRIES
  BY DEF Indexes, Lists
<1>2. MAX_INDEX_ENTRIES \in Nat
  BY FilesAssumption, Zenon
<1>3. IdsIn(v[x[1]]) \subseteq IdsIn(w[x[1]]) /\ Len(v[x[1]]) <= Len(w[x[1]])
  BY Zenon DEF Grown
<1>4. Len(v[x[1]]) = MAX_INDEX_ENTRIES => Len(w[x[1]]) = MAX_INDEX_ENTRIES
  BY <1>1, <1>2, <1>3
<1> QED BY <1>3, <1>4, Zenon DEF Noted

\* A cut file is no index, and no index is a cut file.
LEMMA EmptyTorn == Empty \in Indexes /\ Torn \notin Indexes
<1>1. <<>> \in Lists
  <2>1. <<>> \in Seq(Entries) /\ Len(<<>>) = 0
    OBVIOUS
  <2> QED BY <2>1, FilesAssumption DEF Lists, Single
<1>2. Empty \in Indexes
  BY <1>1 DEF Empty, Indexes
<1>3. ASSUME Torn \in Indexes PROVE FALSE
  <2>1. Torn["specs"] \in Seq(Entries)
    BY <1>3 DEF Indexes, Lists, Kinds
  <2>2. Torn["specs"] = <<Entry(0, "torn")>>
    BY DEF Torn, Kinds
  <2>3. Entry(0, "torn") \in Entries
    BY <2>1, <2>2
  <2> QED BY <2>3 DEF Entry, Entries, Profiles
<1> QED BY <1>2, <1>3

-----------------------------------------------------------------------------
\* One request moves to r, and the others stay as they are.
Moves(h, r) == DOMAIN handler' = Handlers /\ handler'[h] = r /\ \A g \in Handlers \ {h} : handler'[g] = handler[g]

LEMMA MoveRequest ==
    ASSUME DOMAIN handler = Handlers, NEW h \in Handlers, NEW r, handler' = [handler EXCEPT ![h] = r]
    PROVE  Moves(h, r)
BY DEF Moves

\* A step that leaves the index alone, of a request that does not write it.
LEMMA IndexUntouched ==
    ASSUME IndexInv, NEW h \in Handlers, NEW r, Moves(h, r), Carries(r), r.pc # "write",
           ~Writing(h), up # "down", UNCHANGED <<up, index_vars>>
    PROVE  IndexInv'
<1>1. UNCHANGED <<up, index, disk, holder, acked, cut>>
  BY Zenon DEF index_vars
<1>2. IndexTypes'
  BY <1>1, Zenon DEF IndexInv, IndexTypes, Moves
<1>3. \A g \in Handlers : Writing(g)' => g # h /\ Writing(g) /\ handler'[g] = handler[g]
  BY Zenon DEF Moves, Writing
<1>4. \A g \in Handlers : Writing(g) => Writing(g)'
  BY Zenon DEF Moves, Writing
<1>5. HolderInv'
  BY <1>1, <1>3, <1>4, Zenon DEF IndexInv, HolderInv
<1>6. DiskInv'
  BY <1>1, <1>3, Zenon DEF IndexInv, DiskInv, Noted, AllNoted
<1> QED BY <1>2, <1>5, <1>6, Zenon DEF IndexInv

\* A step that changes neither the index nor a request.
LEMMA IndexQuiet ==
    ASSUME IndexInv, UNCHANGED <<handler, index_vars>>, up # "down", up' # "down"
    PROVE  IndexInv'
<1>1. UNCHANGED <<handler, index, disk, holder, acked, cut>>
  BY Zenon DEF index_vars
<1>2. IndexTypes' /\ HolderInv' /\ DiskInv'
  BY <1>1, Zenon DEF IndexInv, IndexTypes, HolderInv, DiskInv, Writing
<1> QED BY <1>2, Zenon DEF IndexInv

\* A request at work is of a gateway that is up.
LEMMA AtWork ==
    ASSUME IndexInv, NEW h \in Handlers, handler[h].pc # "idle"
    PROVE  up # "down" /\ Carries(handler[h]) /\ DOMAIN handler = Handlers
<1>1. NoRequest.pc = "idle"
  BY DEF NoRequest
<1> QED BY <1>1, Zenon DEF IndexInv, IndexTypes, HolderInv

LEMMA IndexStart == ASSUME IndexInv, Start PROVE IndexInv'
<1>1. /\ up = "down" /\ up' # "down" /\ index' = load_index
      /\ UNCHANGED <<handler, disk, holder, acked, cut>>
  BY DEF Start
<1>2. \A h \in Handlers : ~Writing(h)
  BY <1>1 DEF IndexInv, HolderInv, Writing, NoRequest
<1>3. holder = {}
  BY <1>2, Zenon DEF IndexInv, HolderInv
<1>4. index' \in Indexes /\ (disk \in Indexes => index' = disk)
  BY <1>1, EmptyTorn, Zenon DEF load_index, IndexInv, IndexTypes
<1>5. IndexTypes'
  BY <1>1, <1>4, Zenon DEF IndexInv, IndexTypes
<1>6. HolderInv' /\ DiskInv'
  BY <1>1, <1>2, <1>3, <1>4, Zenon DEF IndexInv, HolderInv, DiskInv, Writing, Noted
<1> QED BY <1>5, <1>6, Zenon DEF IndexInv

LEMMA IndexKill == ASSUME IndexInv, KillGateway PROVE IndexInv'
<1>1. /\ handler' = [h \in Handlers |-> NoRequest] /\ holder' = {} /\ index' = Empty /\ up' = "down"
      /\ disk' \in IF holder = {} THEN {disk} ELSE {disk, Torn, index}
      /\ cut' = (cut \/ holder # {}) /\ UNCHANGED acked
  BY Zenon DEF KillGateway
<1>2. NoRequest.pc = "idle"
  BY DEF NoRequest
<1>3. DOMAIN handler' = Handlers /\ \A h \in Handlers : handler'[h] = NoRequest
  BY <1>1, Zenon
<1>4. Carries(NoRequest)
  BY <1>2 DEF Carries
<1>5. IndexTypes'
  BY <1>1, <1>3, <1>4, EmptyTorn, Zenon DEF IndexInv, IndexTypes
<1>6. \A h \in Handlers : ~Writing(h)'
  BY <1>2, <1>3 DEF Writing
<1>7. HolderInv' /\ DiskInv'
  BY <1>1, <1>3, <1>6, Zenon DEF IndexInv, HolderInv, DiskInv, Noted
<1> QED BY <1>5, <1>7, Zenon DEF IndexInv

\* The entries of a request are of a kind that the index has.
LEMMA EntriesOurs ==
    ASSUME NEW e \in Entries
    PROVE  Ours([sessions |-> e]) /\ Ours([specs |-> e]) /\ Ours([tasks |-> e, runs |-> e])
<1>1. DOMAIN [sessions |-> e] = {"sessions"} /\ [sessions |-> e]["sessions"] = e
  OBVIOUS
<1>2. DOMAIN [specs |-> e] = {"specs"} /\ [specs |-> e]["specs"] = e
  OBVIOUS
<1>3. /\ DOMAIN [tasks |-> e, runs |-> e] = {"tasks", "runs"}
      /\ [tasks |-> e, runs |-> e]["tasks"] = e /\ [tasks |-> e, runs |-> e]["runs"] = e
  OBVIOUS
<1>4. {"sessions"} \subseteq Kinds /\ {"specs"} \subseteq Kinds /\ {"tasks", "runs"} \subseteq Kinds
  BY DEF Kinds
<1>5. Ours([sessions |-> e])
  BY <1>1, <1>4, Zenon DEF Ours
<1>6. Ours([specs |-> e])
  BY <1>2, <1>4, Zenon DEF Ours
<1>7. Ours([tasks |-> e, runs |-> e])
  BY <1>3, <1>4, Zenon DEF Ours
<1> QED BY <1>5, <1>6, <1>7, Zenon

LEMMA IndexRequest ==
    ASSUME IndexInv, NEW h \in Handlers, api_create_session(h) \/ api_put_spec(h) \/ api_create_run(h)
    PROVE  /\ IndexInv'
           /\ \E r : Moves(h, r) /\ r.pc \in {"remember", "hydrate"}
           /\ handler[h] = NoRequest /\ UNCHANGED <<up, kills, id_vars, proposal_vars>>
<1>1. /\ up = "serving" /\ handler[h] = NoRequest /\ UNCHANGED <<up, kills, index_vars, id_vars, proposal_vars>>
  BY Zenon DEF api_create_session, api_put_spec, api_create_run
<1>2. \A i \in CallerIds, p \in Profiles : Entry(i, p) \in Entries
  BY DEF Entry, Entries
<1>3. PICK r : handler' = [handler EXCEPT ![h] = r] /\ Carries(r) /\ r.pc \in {"remember", "hydrate"}
  <2>1. ASSUME NEW i \in Sessions PROVE Carries(submit([sessions |-> Entry(i, "")]))
    <3>1. Entry(i, "") \in Entries
      BY <1>2 DEF CallerIds, Profiles
    <3>2. Ours([sessions |-> Entry(i, "")])
      BY <3>1, EntriesOurs, Zenon
    <3> QED BY <3>2 DEF Carries, submit
  <2>2. ASSUME NEW i \in Specs, NEW p \in {"", "p"} PROVE Carries(submit([specs |-> Entry(i, p)]))
    <3>1. Entry(i, p) \in Entries
      BY <1>2 DEF CallerIds, Profiles
    <3>2. Ours([specs |-> Entry(i, p)])
      BY <3>1, EntriesOurs, Zenon
    <3> QED BY <3>2 DEF Carries, submit
  <2>3. ASSUME NEW i \in RunIds
        PROVE  /\ Carries(submit([tasks |-> Entry(i, ""), runs |-> Entry(i, "")]))
               /\ \A spec \in Specs :
                    Carries([pc |-> "hydrate", spec |-> spec,
                             entries |-> [tasks |-> Entry(i, ""), runs |-> Entry(i, "")]])
    <3>1. Entry(i, "") \in Entries
      BY <1>2 DEF CallerIds, Profiles
    <3> DEFINE run == [tasks |-> Entry(i, ""), runs |-> Entry(i, "")]
    <3>2. Ours(run)
      BY <3>1, EntriesOurs, Zenon
    <3> HIDE DEF run
    <3>3. Carries(submit(run))
      BY <3>2 DEF Carries, submit
    <3>4. \A spec \in Specs : Carries([pc |-> "hydrate", spec |-> spec, entries |-> run])
      BY <3>2 DEF Carries
    <3> QED BY <3>3, <3>4, Zenon DEF run
  <2>4. \A e : submit(e).pc = "remember"
    BY DEF submit
  <2>5. \A spec, e : [pc |-> "hydrate", spec |-> spec, entries |-> e].pc = "hydrate"
    OBVIOUS
  <2>6. CASE api_create_session(h)
    BY <2>1, <2>4, <2>6, Zenon DEF api_create_session
  <2>7. CASE api_put_spec(h)
    BY <2>2, <2>4, <2>7, Zenon DEF api_put_spec
  <2>8. CASE api_create_run(h)
    <3>1. PICK i \in RunIds :
            LET run == [tasks |-> Entry(i, ""), runs |-> Entry(i, "")]
            IN  \/ handler' = [handler EXCEPT ![h] = submit(run)]
                \/ \E spec \in Specs :
                    handler' = [handler EXCEPT ![h] =
                                 [pc |-> "hydrate", spec |-> spec, entries |-> run]]
      BY <2>8, Zenon DEF api_create_run
    <3>2. CASE handler' = [handler EXCEPT ![h] = submit([tasks |-> Entry(i, ""), runs |-> Entry(i, "")])]
      BY <2>3, <2>4, <3>2, Zenon
    <3>3. ASSUME NEW spec \in Specs,
                 handler' = [handler EXCEPT ![h] =
                   [pc |-> "hydrate", spec |-> spec,
                    entries |-> [tasks |-> Entry(i, ""), runs |-> Entry(i, "")]]]
          PROVE  \E r : handler' = [handler EXCEPT ![h] = r] /\ Carries(r) /\ r.pc = "hydrate"
      BY <2>3, <2>5, <3>3, Zenon
    <3> QED BY <3>1, <3>2, <3>3, Zenon
  <2> QED BY <2>6, <2>7, <2>8, Zenon
<1>4. Moves(h, r)
  BY <1>3, MoveRequest, Zenon DEF IndexInv, IndexTypes
<1>5. r.pc # "write" /\ ~Writing(h) /\ up # "down"
  BY <1>1, <1>3 DEF Writing, NoRequest
<1>6. IndexInv'
  BY <1>1, <1>3, <1>4, <1>5, IndexUntouched, Zenon
<1> QED BY <1>1, <1>3, <1>4, <1>6, Zenon

LEMMA IndexRemember == ASSUME IndexInv, NEW h \in Handlers, remember(h) PROVE IndexInv'
<1> DEFINE r == handler[h]
           image == index'
           done == (r.pc = "remember")
           next == [pc |-> "write", image |-> image, entries |-> r.entries, done |-> done]
<1>1. /\ r.pc \in {"remember", "hydrate"} /\ holder = {} /\ holder' = {h}
      /\ index' = IF r.pc = "hydrate" THEN Hydrated(index, r.spec) ELSE Pushed(index, r.entries)
      /\ handler' = [handler EXCEPT ![h] = next]
      /\ UNCHANGED <<up, disk, acked, cut>>
  BY DEF remember
<1>2. up # "down" /\ Carries(r) /\ DOMAIN handler = Handlers
  BY <1>1, AtWork
<1>3. Ours(r.entries) /\ (r.pc = "hydrate" => r.spec \in Specs)
  BY <1>1, <1>2 DEF Carries
<1>4. /\ next.pc = "write" /\ next.image = index' /\ next.entries = r.entries
      /\ next.done = (r.pc = "remember")
  OBVIOUS
<1> HIDE DEF next
<1>5. Moves(h, next)
  BY <1>1, <1>2, MoveRequest, Zenon
<1>6. /\ index' \in Indexes /\ Grown(index, index')
      /\ r.pc = "remember" => AllNoted(index', r.entries)
  <2>1. index \in Indexes
    BY Zenon DEF IndexInv, IndexTypes
  <2>2. CASE r.pc = "hydrate"
    BY <1>1, <1>3, <2>1, <2>2, HydratedKeeps
  <2>3. CASE r.pc # "hydrate"
    BY <1>1, <1>3, <2>1, <2>3, PushedKeeps, Zenon
  <2> QED BY <2>2, <2>3, Zenon
<1>7. Carries(next)
  BY <1>3, <1>4 DEF Carries
<1>8. IndexTypes'
  BY <1>1, <1>5, <1>6, <1>7, Zenon DEF IndexInv, IndexTypes, Moves
<1>9. \A g \in Handlers : Writing(g)' <=> g = h
  BY <1>1, <1>4, <1>5, Zenon DEF IndexInv, HolderInv, Moves, Writing
<1>10. HolderInv'
  BY <1>1, <1>2, <1>4, <1>5, <1>9, Zenon DEF HolderInv, Moves
<1>11. DiskInv'
  <2>1. ~cut => disk = index /\ disk \in Indexes /\ \A x \in acked : Noted(disk, x)
    BY <1>1, <1>2, Zenon DEF IndexInv, DiskInv
  <2>2. holder' # {}
    BY <1>1, Zenon
  <2>3. handler'[h].entries = r.entries /\ handler'[h].done = (r.pc = "remember")
    BY <1>4, <1>5, Zenon DEF Moves
  <2> QED BY <1>1, <1>6, <1>9, <2>1, <2>2, <2>3, Zenon DEF DiskInv, Noted, AllNoted
<1> QED BY <1>8, <1>10, <1>11, Zenon DEF IndexInv

LEMMA IndexPersist ==
    ASSUME IndexInv, NEW h \in Handlers, persist(h)
    PROVE  /\ IndexInv'
           /\ \E r : Moves(h, r) /\ r.pc \in {"idle", "remember"}
<1> DEFINE entries == handler[h].entries
<1>1. /\ Writing(h) /\ holder' = {} /\ UNCHANGED <<up, index>>
      /\ \/ disk' = handler[h].image /\ UNCHANGED cut
         \/ disk' \in {disk, Torn} /\ cut' = TRUE
      /\ \/ /\ handler[h].done /\ acked' = acked \cup Reported(entries)
            /\ handler' = [handler EXCEPT ![h] = NoRequest]
         \/ /\ ~handler[h].done /\ UNCHANGED acked
            /\ \E r \in {submit(entries), NoRequest} : handler' = [handler EXCEPT ![h] = r]
  BY Zenon DEF persist, Writing, Reported
<1>2. up # "down" /\ Carries(handler[h]) /\ DOMAIN handler = Handlers
  BY <1>1, AtWork DEF Writing
<1>3. Ours(entries)
  BY <1>1, <1>2 DEF Carries, Writing
<1>4. holder = {h} /\ handler[h].image = index
  BY <1>1, Zenon DEF IndexInv, HolderInv
<1>5. PICK r \in {submit(entries), NoRequest} : handler' = [handler EXCEPT ![h] = r]
  BY <1>1, Zenon
<1>6. r.pc \in {"idle", "remember"} /\ Carries(r)
  BY <1>3, <1>5 DEF Carries, submit, NoRequest
<1>7. Moves(h, r)
  BY <1>2, <1>5, MoveRequest, Zenon
<1>8. \A g \in Handlers : ~Writing(g)'
  <2>1. r.pc # "write"
    BY <1>6
  <2>2. \A g \in Handlers \ {h} : ~Writing(g)
    BY <1>4, Zenon DEF IndexInv, HolderInv
  <2> QED BY <1>7, <2>1, <2>2, Zenon DEF Moves, Writing
<1>9. \A x \in Reported(entries) : x[1] \in Kinds
  BY <1>3 DEF Ours, Reported
<1>10. IndexTypes'
  BY <1>1, <1>4, <1>6, <1>7, <1>9, Zenon DEF IndexInv, IndexTypes, Moves
<1>11. HolderInv'
  BY <1>1, <1>2, <1>8, Zenon DEF HolderInv
<1>12. DiskInv'
  <2> SUFFICES ASSUME ~cut' PROVE /\ disk' \in Indexes /\ disk' = index' /\ \A x \in acked' : Noted(disk', x)
    BY <1>1, <1>8, Zenon DEF DiskInv, Noted
  <2>1. ~cut /\ disk' = index /\ index' = index /\ index \in Indexes
    <3>1. disk' = handler[h].image /\ cut' = cut
      BY <1>1
    <3> QED BY <1>1, <1>4, <3>1 DEF IndexInv, IndexTypes
  <2>2. disk \in Indexes /\ Grown(disk, index) /\ \A x \in acked : x[1] \in Kinds /\ Noted(disk, x)
    BY <1>2, <1>4, <2>1, Zenon DEF IndexInv, IndexTypes, DiskInv
  <2>3. \A x \in acked : Noted(index, x)
    BY <2>1, <2>2, NotedGrown, Zenon
  <2>4. handler[h].done => \A x \in Reported(entries) : Noted(index, x)
    BY <1>1, <2>1, Zenon DEF IndexInv, DiskInv, AllNoted
  <2> QED BY <1>1, <2>1, <2>3, <2>4, Zenon
<1> QED BY <1>6, <1>7, <1>10, <1>11, <1>12, Zenon DEF IndexInv

-----------------------------------------------------------------------------
\* The device id.
LEMMA IdStart == ASSUME IdInv, Start PROVE IdInv'
<1> DEFINE saved == id_file \ {TornId}
<1>1. /\ up' = (IF saved = {} THEN "minting" ELSE "serving")
      /\ local_id' = (IF saved = {} THEN kills + 1 ELSE CHOOSE i \in saved : TRUE)
      /\ used' = used \cup saved /\ UNCHANGED <<kills, id_file, id_cut>>
  BY DEF Start
<1>2. up' = "minting" => local_id' = kills + 1 /\ saved = {}
  BY <1>1
<1> QED BY <1>1, <1>2, Zenon DEF IdInv

LEMMA IdMint == ASSUME IdInv, local_device_id PROVE IdInv'
<1>1. /\ up = "minting" /\ up' = "serving" /\ used' = used \cup {local_id} /\ UNCHANGED kills
      /\ \/ id_file' = {local_id} /\ UNCHANGED id_cut
         \/ id_file' \in {id_file, {TornId}} /\ id_cut' = TRUE
  BY Zenon DEF local_device_id
<1>2. local_id = kills + 1 /\ kills \in Nat /\ id_file \subseteq {TornId} /\ (~id_cut => used = {})
  BY <1>1, Zenon DEF IdInv
<1>3. local_id # TornId
  BY <1>2 DEF TornId
<1>4. up' # "minting"
  BY <1>1
<1> QED BY <1>1, <1>2, <1>3, <1>4, Zenon DEF IdInv

LEMMA IdKill == ASSUME IdInv, KillGateway PROVE IdInv'
<1>1. /\ up' = "down" /\ kills' = kills + 1 /\ UNCHANGED <<local_id, used, id_cut>>
      /\ id_file' \in IF up = "minting" THEN {id_file, {TornId}, {local_id}} ELSE {id_file}
  BY Zenon DEF KillGateway
<1>2. kills' \in Nat
  BY <1>1 DEF IdInv
<1>3. up' # "minting"
  BY <1>1
<1>4. up = "minting" => (~id_cut => used = {})
  BY Zenon DEF IdInv
<1> QED BY <1>1, <1>2, <1>3, <1>4, Zenon DEF IdInv

-----------------------------------------------------------------------------
\* The proposals.
LEMMA FiniteStaged ==
    ASSUME NEW n \in Nat, NEW S, S \subseteq 1..n
    PROVE  IsFiniteSet(S) /\ Cardinality(S) \in Nat
<1>1. IsFiniteSet(1..n)
  BY FS_Interval
<1>2. IsFiniteSet(S)
  BY <1>1, FS_Subset, Zenon
<1> QED BY <1>2, FS_CardinalityType, Zenon

\* A smaller set of files has no more of them.
LEMMA FewerFiles ==
    ASSUME NEW n \in Nat, NEW T, T \subseteq 1..n, NEW S, S \subseteq T
    PROVE  /\ Cardinality(S) \in Nat /\ Cardinality(T) \in Nat /\ Cardinality(S) <= Cardinality(T)
<1>1. S \subseteq 1..n /\ S \in SUBSET T
  BY Zenon
<1>2. IsFiniteSet(T) /\ Cardinality(T) \in Nat /\ Cardinality(S) \in Nat
  BY <1>1, FiniteStaged, Zenon
<1> QED BY <1>1, <1>2, FS_Subset, Zenon

\* A step that leaves the proposals alone, of a request that stages none.
LEMMA ProposalUntouched ==
    ASSUME ProposalInv, NEW h \in Handlers, NEW r, Moves(h, r), UNCHANGED proposal_vars,
           r.pc \notin {"list", "remove"}, handler[h].pc \notin {"list", "remove"}
    PROVE  ProposalInv'
<1>1. UNCHANGED <<documents, staged, clock, mtime, removed, owed>>
  BY Zenon DEF proposal_vars
<1>2. DOMAIN handler' = Handlers /\ (Listing' <=> Listing)
  BY Zenon DEF Moves, Listing
<1>3. \A p : Leaving(p)' <=> Leaving(p)
  BY Zenon DEF Moves, Leaving
<1>4. Staying' = Staying
  BY <1>1, <1>3, Zenon DEF Staying
<1> QED BY <1>1, <1>2, <1>3, <1>4, Zenon DEF ProposalInv, Outlived, NoOlder

LEMMA ProposalQuiet ==
    ASSUME ProposalInv, UNCHANGED <<handler, documents, staged, mtime, removed, owed>>, clock' \in Nat
    PROVE  ProposalInv'
<1>1. (Listing' <=> Listing) /\ Staying' = Staying
  BY Zenon DEF Listing, Staying, Leaving
<1> QED BY <1>1, Zenon DEF ProposalInv, Outlived, NoOlder, Leaving

LEMMA ProposalKill == ASSUME ProposalInv, KillGateway PROVE ProposalInv'
<1>1. /\ handler' = [h \in Handlers |-> NoRequest]
      /\ owed' = (owed \/ \E h \in Handlers : handler[h].pc \in {"list", "remove"})
      /\ UNCHANGED <<documents, staged, clock, mtime, removed>>
  BY Zenon DEF KillGateway
<1>2. \A h \in Handlers : handler'[h].pc \notin {"list", "remove"}
  BY <1>1 DEF NoRequest
<1>3. ~Listing' /\ \A p : ~Leaving(p)'
  BY <1>2 DEF Listing, Leaving
<1>4. DOMAIN handler' = Handlers
  BY <1>1, Zenon
<1>5. ~owed' => ~owed /\ ~Listing /\ Staying' = Staying
  BY <1>1, <1>3 DEF Listing, Staying, Leaving
<1> QED BY <1>1, <1>3, <1>4, <1>5, Zenon DEF ProposalInv, Outlived, NoOlder

LEMMA ProposalCreate ==
    ASSUME ProposalInv, NEW h \in Handlers, api_proposals_create(h)
    PROVE  ProposalInv'
<1>1. /\ staged \in Nat /\ clock \in Nat /\ mtime \in Seq(Nat) /\ Len(mtime) = staged
      /\ documents \subseteq 1..staged /\ DOMAIN handler = Handlers
  BY Zenon DEF ProposalInv
<1>2. /\ handler[h] = NoRequest /\ staged' = staged + 1 /\ mtime' = Append(mtime, clock)
      /\ UNCHANGED <<clock, removed>> /\ documents' \subseteq documents \cup {staged + 1}
      /\ \/ handler' = [handler EXCEPT ![h] = [pc |-> "list"]]
         \/ owed' = TRUE /\ UNCHANGED handler
  BY DEF api_proposals_create
<1>3. /\ staged' \in Nat /\ mtime' \in Seq(Nat) /\ Len(mtime') = staged'
      /\ \A q \in 1..staged : q \in 1..staged' /\ mtime'[q] = mtime[q]
  BY <1>1, <1>2, AppendProperties
<1>4. documents' \subseteq 1..staged'
  BY <1>1, <1>2
<1>5. ASSUME NEW p, Outlived(p) PROVE Outlived(p)'
  <2>1. p \in 1..staged /\ p \in 1..staged'
    BY <1>3, <1>5, Zenon DEF Outlived
  <2>2. NoOlder(p) \subseteq NoOlder(p)' /\ NoOlder(p)' \subseteq 1..staged'
    BY <1>3, <2>1, Zenon DEF NoOlder
  <2>3. /\ Cardinality(NoOlder(p)) \in Nat /\ Cardinality(NoOlder(p)') \in Nat
        /\ Cardinality(NoOlder(p)) <= Cardinality(NoOlder(p)')
    BY <1>3, <2>2, FewerFiles, Zenon
  <2>4. Cardinality(NoOlder(p)) >= MAX_PROPOSALS
    BY <1>5, Zenon DEF Outlived
  <2>5. Cardinality(NoOlder(p)') >= MAX_PROPOSALS
    BY <2>3, <2>4, FilesAssumption
  <2> QED BY <2>1, <2>5, Zenon DEF Outlived
<1>6. DOMAIN handler' = Handlers /\ (Listing' \/ owed') /\ \A p : Leaving(p)' => Leaving(p)
  <2>1. CASE handler' = [handler EXCEPT ![h] = [pc |-> "list"]]
    <3>1. Moves(h, [pc |-> "list"])
      BY <1>1, <2>1, MoveRequest, Zenon
    <3>2. [pc |-> "list"].pc = "list" /\ [pc |-> "list"].pc # "remove"
      OBVIOUS
    <3> QED BY <3>1, <3>2, Zenon DEF Moves, Listing, Leaving
  <2>2. CASE owed' = TRUE /\ UNCHANGED handler
    BY <1>1, <2>2, Zenon DEF Leaving
  <2> QED BY <1>2, <2>1, <2>2, Zenon
<1>7. clock' \in Nat /\ removed' = removed
  BY <1>1, <1>2, Zenon
<1>8. \A p : p \in removed' \/ Leaving(p)' => Outlived(p)'
  BY <1>5, <1>6, <1>7, Zenon DEF ProposalInv
<1> QED BY <1>3, <1>4, <1>6, <1>7, <1>8, Zenon DEF ProposalInv

\* The oldest files past the bound: the others are within it, and outlive them.
LEMMA OldestOutlived ==
    ASSUME staged \in Nat, documents \subseteq 1..staged, NEW s \in Oldest(documents, Excess(documents))
    PROVE  Cardinality(documents \ s) <= MAX_PROPOSALS /\ \A p \in s : Outlived(p)
<1>1. /\ s \subseteq documents /\ Cardinality(s) = Excess(documents)
      /\ \A p \in s, q \in documents \ s : mtime[p] <= mtime[q]
  BY Zenon DEF Oldest
<1>2. IsFiniteSet(documents) /\ Cardinality(documents) \in Nat
  BY FiniteStaged, Zenon
<1>3. documents \cap s = s
  BY <1>1, Zenon
<1>4. /\ Cardinality(documents \ s) = Cardinality(documents) - Cardinality(s)
  BY <1>2, <1>3, FS_Difference
<1>5. MAX_PROPOSALS \in Nat
  BY FilesAssumption, Zenon
<1>6. Cardinality(documents \ s) <= MAX_PROPOSALS
  BY <1>1, <1>2, <1>4, <1>5 DEF Excess
<1>7. ASSUME NEW p \in s PROVE Outlived(p)
  <2>1. Cardinality(s) # 0
    <3>1. IsFiniteSet(s)
      BY <1>1, <1>2, FS_Subset, Zenon
    <3> QED BY <1>7, <3>1, FS_EmptySet, Zenon
  <2>2. Cardinality(documents \ s) = MAX_PROPOSALS
    BY <1>1, <1>2, <1>4, <1>5, <2>1 DEF Excess
  <2>3. p \in 1..staged /\ NoOlder(p) \subseteq 1..staged
    BY <1>1, <1>7, Zenon DEF NoOlder
  <2>4. \A q \in documents \ s : mtime[q] >= mtime[p]
    BY <1>1, <1>7
  <2>5. documents \ s \subseteq NoOlder(p)
    BY <1>7, <2>4, Zenon DEF NoOlder
  <2>6. Cardinality(NoOlder(p)) \in Nat /\ Cardinality(documents \ s) <= Cardinality(NoOlder(p))
    BY <2>3, <2>5, FewerFiles, Zenon
  <2>7. Cardinality(NoOlder(p)) >= MAX_PROPOSALS
    BY <1>5, <2>2, <2>6
  <2> QED BY <2>3, <2>7, Zenon DEF Outlived
<1> QED BY <1>6, <1>7, Zenon

LEMMA ProposalPrune ==
    ASSUME ProposalInv, NEW h \in Handlers, prune_proposals(h)
    PROVE  ProposalInv' /\ \E r : Moves(h, r) /\ r.pc \in {"remove", "idle"}
<1>1. /\ staged \in Nat /\ documents \subseteq 1..staged /\ DOMAIN handler = Handlers
  BY Zenon DEF ProposalInv
<1>2. handler[h].pc = "list" /\ UNCHANGED <<documents, staged, clock, mtime, removed>>
  BY Zenon DEF prune_proposals
<1>3. ASSUME NEW s \in Oldest(documents, Excess(documents)),
             handler' = [handler EXCEPT ![h] = [pc |-> "remove", files |-> s]], owed' = FALSE
      PROVE  ProposalInv' /\ \E r : Moves(h, r) /\ r.pc \in {"remove", "idle"}
  <2> DEFINE r == [pc |-> "remove", files |-> s]
  <2>1. r.pc = "remove" /\ r.files = s /\ r.pc \in {"remove", "idle"}
    OBVIOUS
  <2> HIDE DEF r
  <2>2. Moves(h, r)
    BY <1>1, <1>3, MoveRequest, Zenon DEF r
  <2>3. \A p : Leaving(p)' => Leaving(p) \/ p \in s
    BY <2>1, <2>2, Zenon DEF Moves, Leaving
  <2>4. \A p \in s : Leaving(p)'
    BY <2>1, <2>2, Zenon DEF Moves, Leaving
  <2>5. Cardinality(documents \ s) <= MAX_PROPOSALS /\ \A p \in s : Outlived(p)
    BY <1>1, <1>3, OldestOutlived, Zenon
  <2>6. Staying' \subseteq documents \ s /\ documents \ s \subseteq 1..staged
    BY <1>1, <1>2, <2>4, Zenon DEF Staying
  <2>7. /\ Cardinality(Staying') \in Nat /\ Cardinality(documents \ s) \in Nat
        /\ Cardinality(Staying') <= Cardinality(documents \ s)
    BY <1>1, <2>6, FewerFiles, Zenon
  <2>8. Cardinality(Staying') <= MAX_PROPOSALS
    BY <2>5, <2>7, FilesAssumption
  <2>9. DOMAIN handler' = Handlers
    BY <2>2, Zenon DEF Moves
  <2>10. ProposalInv'
    BY <1>2, <2>3, <2>5, <2>8, <2>9, Zenon DEF ProposalInv, Outlived, NoOlder
  <2> QED BY <2>1, <2>2, <2>10, Zenon
<1>4. CASE handler' = [handler EXCEPT ![h] = NoRequest] /\ owed' = TRUE
  <2>1. NoRequest.pc \in {"remove", "idle"} /\ NoRequest.pc # "remove"
    BY DEF NoRequest
  <2>2. Moves(h, NoRequest)
    BY <1>1, <1>4, MoveRequest, Zenon
  <2>3. \A p : Leaving(p)' => Leaving(p)
    BY <2>1, <2>2, Zenon DEF Moves, Leaving
  <2>4. DOMAIN handler' = Handlers
    BY <2>2, Zenon DEF Moves
  <2>5. ProposalInv'
    BY <1>2, <1>4, <2>3, <2>4, Zenon DEF ProposalInv, Outlived, NoOlder
  <2> QED BY <2>1, <2>2, <2>5, Zenon
<1> QED BY <1>3, <1>4, Zenon DEF prune_proposals

LEMMA ProposalRemove ==
    ASSUME ProposalInv, NEW h \in Handlers, remove_file(h)
    PROVE  ProposalInv' /\ \E r : Moves(h, r) /\ r.pc \in {"remove", "idle"}
<1>1. /\ staged \in Nat /\ documents \subseteq 1..staged /\ DOMAIN handler = Handlers
  BY Zenon DEF ProposalInv
<1>2. handler[h].pc = "remove" /\ UNCHANGED <<staged, clock, mtime>>
  BY Zenon DEF remove_file
<1>3. ASSUME NEW p \in handler[h].files, handler' = [handler EXCEPT ![h].files = @ \ {p}],
             \/ /\ documents' = documents \ {p} /\ removed' = removed \cup {p} /\ UNCHANGED owed
             \/ owed' = TRUE /\ UNCHANGED <<documents, removed>>
      PROVE  ProposalInv' /\ \E r : Moves(h, r) /\ r.pc \in {"remove", "idle"}
  <2> DEFINE r == [handler[h] EXCEPT !.files = @ \ {p}]
  <2>1. handler' = [handler EXCEPT ![h] = r]
    BY <1>3
  <2>2. r.pc = "remove" /\ r.pc \in {"remove", "idle"} /\ r.files = handler[h].files \ {p}
    BY <1>2, <1>3
  <2> HIDE DEF r
  <2>3. Moves(h, r)
    BY <1>1, <2>1, MoveRequest, Zenon
  <2>4. (\A q : Leaving(q)' => Leaving(q)) /\ \A q : q # p /\ Leaving(q) => Leaving(q)'
    BY <1>2, <2>2, <2>3, Zenon DEF Moves, Leaving
  <2>5. Leaving(p)
    BY <1>2, <1>3, Zenon DEF Leaving
  <2>6. "remove" # "list"
    OBVIOUS
  <2>7. DOMAIN handler' = Handlers /\ (Listing => Listing')
    BY <1>2, <2>3, <2>6, Zenon DEF Moves, Listing
  <2>8. documents' \subseteq documents /\ \A q \in removed' : q \in removed \/ q = p
    BY <1>3, Zenon
  <2>9. ~owed' => ~owed /\ documents' = documents \ {p}
    BY <1>3
  <2>10. ASSUME ~owed', ~Listing' PROVE Cardinality(Staying') <= MAX_PROPOSALS
    <3>1. Staying' \subseteq Staying /\ Staying \subseteq 1..staged
      BY <1>1, <2>4, <2>9, <2>10, Zenon DEF Staying
    <3>2. /\ Cardinality(Staying') \in Nat /\ Cardinality(Staying) \in Nat
          /\ Cardinality(Staying') <= Cardinality(Staying)
      BY <1>1, <3>1, FewerFiles, Zenon
    <3>3. Cardinality(Staying) <= MAX_PROPOSALS
      BY <2>7, <2>9, <2>10, Zenon DEF ProposalInv
    <3> QED BY <3>2, <3>3, FilesAssumption
  <2>11. ProposalInv'
    BY <1>2, <2>4, <2>5, <2>7, <2>8, <2>10, Zenon DEF ProposalInv, Outlived, NoOlder
  <2> QED BY <2>2, <2>3, <2>11, Zenon
<1>4. CASE /\ handler[h].files = {} /\ handler' = [handler EXCEPT ![h] = NoRequest]
           /\ UNCHANGED <<documents, removed, owed>>
  <2>1. NoRequest.pc \in {"remove", "idle"} /\ NoRequest.pc # "remove" /\ NoRequest.pc # "list"
        /\ handler[h].pc # "list"
    BY <1>2 DEF NoRequest
  <2>2. Moves(h, NoRequest)
    BY <1>1, <1>4, MoveRequest, Zenon
  <2>3. \A p : Leaving(p)' <=> Leaving(p)
    BY <1>4, <2>1, <2>2, Zenon DEF Moves, Leaving
  <2>4. DOMAIN handler' = Handlers /\ (Listing' <=> Listing)
    BY <2>1, <2>2, Zenon DEF Moves, Listing
  <2>5. Staying' = Staying
    BY <1>4, <2>3, Zenon DEF Staying
  <2>6. ProposalInv'
    BY <1>2, <1>4, <2>3, <2>4, <2>5, Zenon DEF ProposalInv, Outlived, NoOlder
  <2> QED BY <2>1, <2>2, <2>6, Zenon
<1> QED BY <1>3, <1>4, Zenon DEF remove_file

-----------------------------------------------------------------------------
\* The three files together.
LEMMA FilesInvInit == FilesInit => FilesInv
<1> SUFFICES ASSUME FilesInit PROVE FilesInv
  OBVIOUS
<1>1. NoRequest.pc = "idle"
  BY DEF NoRequest
<1>2. DOMAIN handler = Handlers /\ \A h \in Handlers : handler[h] = NoRequest
  BY DEF FilesInit
<1>3. Carries(NoRequest)
  BY <1>1 DEF Carries
<1>4. disk \in Indexes
  <2>1. ASSUME NEW i \in Specs PROVE [Empty EXCEPT !["specs"] = <<Entry(i, "")>>] \in Indexes
    <3>1. Entry(i, "") \in Entries
      BY DEF Entry, Entries, CallerIds, Profiles
    <3>2. \A e \in Entries : <<e>> \in Seq(Entries) /\ Len(<<e>>) = 1
      OBVIOUS
    <3>3. 1 <= MAX_INDEX_ENTRIES /\ \A m, n \in 1..1 : m = n
      BY FilesAssumption
    <3>4. <<Entry(i, "")>> \in Lists
      BY <3>1, <3>2, <3>3, Zenon DEF Lists, Single
    <3> QED BY <3>4, EmptyTorn DEF Indexes
  <2> QED BY <2>1, EmptyTorn, Zenon DEF FilesInit
<1>5. IndexTypes
  BY <1>2, <1>3, <1>4, EmptyTorn DEF FilesInit, IndexTypes
<1>6. \A h \in Handlers : ~Writing(h)
  BY <1>1, <1>2 DEF Writing
<1>7. HolderInv
  BY <1>2, <1>6, Zenon DEF FilesInit, HolderInv
<1>8. DiskInv
  BY <1>4, <1>6 DEF FilesInit, DiskInv
<1>9. IdInv
  BY FilesAssumption DEF FilesInit, IdInv
<1>10. ProposalInv
  <2>1. ~Listing /\ \A p : ~Leaving(p)
    BY <1>1, <1>2 DEF Listing, Leaving
  <2>2. Staying = {}
    BY Zenon DEF Staying, FilesInit
  <2>3. Cardinality(Staying) <= MAX_PROPOSALS
    BY <2>2, FS_EmptySet, FilesAssumption
  <2>4. mtime \in Seq(Nat) /\ Len(mtime) = staged /\ staged \in Nat /\ clock \in Nat
    <3>1. mtime = <<>> /\ staged = 0 /\ clock = 0
      BY Zenon DEF FilesInit
    <3> QED BY <3>1
  <2>5. removed = {} /\ documents = {}
    BY Zenon DEF FilesInit
  <2> QED BY <1>2, <2>1, <2>3, <2>4, <2>5, Zenon DEF ProposalInv
<1> QED BY <1>5, <1>7, <1>8, <1>9, <1>10, Zenon DEF FilesInv, IndexInv

LEMMA IdQuiet ==
    ASSUME IdInv, UNCHANGED <<up, kills, id_vars>>
    PROVE  IdInv'
BY Zenon DEF IdInv, id_vars

LEMMA IndexStep == ASSUME FilesInv, IndexNext PROVE FilesInv'
<1>1. CASE Start
  <2>1. UNCHANGED <<handler, proposal_vars>>
    BY <1>1, Zenon DEF Start
  <2>2. ProposalInv'
    BY <2>1, ProposalQuiet, Zenon DEF proposal_vars, FilesInv, ProposalInv
  <2> QED BY <1>1, <2>2, IndexStart, IdStart, Zenon DEF FilesInv
<1>2. CASE KillGateway
  BY <1>2, IndexKill, IdKill, ProposalKill, Zenon DEF FilesInv
<1>3. ASSUME NEW h \in Handlers, api_create_session(h) \/ api_put_spec(h) \/ api_create_run(h)
      PROVE  FilesInv'
  <2>1. PICK r : Moves(h, r) /\ r.pc \in {"remember", "hydrate"}
    BY <1>3, IndexRequest, Zenon DEF FilesInv
  <2>2. IndexInv' /\ handler[h] = NoRequest /\ UNCHANGED <<up, kills, id_vars, proposal_vars>>
    BY <1>3, IndexRequest, Zenon DEF FilesInv
  <2>3. r.pc \notin {"list", "remove"} /\ handler[h].pc \notin {"list", "remove"}
    BY <2>1, <2>2 DEF NoRequest
  <2>4. ProposalInv'
    BY <2>1, <2>2, <2>3, ProposalUntouched, Zenon DEF FilesInv
  <2> QED BY <2>2, <2>4, IdQuiet, Zenon DEF FilesInv
<1>4. ASSUME NEW h \in Handlers, remember(h) PROVE FilesInv'
  <2> DEFINE next == [pc |-> "write", image |-> index', entries |-> handler[h].entries,
                      done |-> handler[h].pc = "remember"]
  <2>1. /\ handler[h].pc \in {"remember", "hydrate"} /\ handler' = [handler EXCEPT ![h] = next]
        /\ UNCHANGED <<up, kills, id_vars, proposal_vars>>
    BY <1>4 DEF remember
  <2>2. next.pc \notin {"list", "remove"} /\ handler[h].pc \notin {"list", "remove"}
    BY <2>1
  <2> HIDE DEF next
  <2>3. Moves(h, next)
    BY <2>1, MoveRequest, Zenon DEF FilesInv, ProposalInv
  <2>4. ProposalInv'
    BY <2>1, <2>2, <2>3, ProposalUntouched, Zenon DEF FilesInv
  <2> QED BY <1>4, <2>1, <2>4, IndexRemember, IdQuiet, Zenon DEF FilesInv
<1>5. ASSUME NEW h \in Handlers, persist(h) PROVE FilesInv'
  <2>1. handler[h].pc = "write" /\ UNCHANGED <<up, kills, id_vars, proposal_vars>>
    BY <1>5, Zenon DEF persist
  <2>2. PICK r : Moves(h, r) /\ r.pc \in {"idle", "remember"}
    BY <1>5, IndexPersist, Zenon DEF FilesInv
  <2>3. r.pc \notin {"list", "remove"} /\ handler[h].pc \notin {"list", "remove"}
    BY <2>1, <2>2
  <2>4. ProposalInv'
    BY <2>1, <2>2, <2>3, ProposalUntouched, Zenon DEF FilesInv
  <2> QED BY <1>5, <2>1, <2>4, IndexPersist, IdQuiet, Zenon DEF FilesInv
<1> QED BY <1>1, <1>2, <1>3, <1>4, <1>5, Zenon DEF IndexNext

LEMMA ProposalStep == ASSUME FilesInv, ProposalNext PROVE FilesInv'
<1>1. CASE Start \/ KillGateway
  BY <1>1, IndexStep, Zenon DEF IndexNext
<1>2. CASE local_device_id
  <2>1. /\ up = "minting" /\ up' = "serving" /\ UNCHANGED <<handler, index_vars, proposal_vars>>
    BY <1>2, Zenon DEF local_device_id
  <2>2. up # "down" /\ up' # "down"
    BY <2>1
  <2>3. ProposalInv'
    BY <2>1, ProposalQuiet, Zenon DEF proposal_vars, FilesInv, ProposalInv
  <2> QED BY <1>2, <2>1, <2>2, <2>3, IndexQuiet, IdMint, Zenon DEF FilesInv
<1>3. CASE Tick
  <2>1. clock' \in Nat
    BY <1>3 DEF Tick, FilesInv, ProposalInv
  <2>2. UNCHANGED <<up, handler, kills, index_vars, id_vars, documents, staged, mtime, removed, owed>>
    BY <1>3, Zenon DEF Tick
  <2>3. ProposalInv'
    BY <2>1, <2>2, ProposalQuiet, Zenon DEF FilesInv
  <2>4. IndexInv'
    BY <2>2, Zenon DEF FilesInv, IndexInv, index_vars, IndexTypes, HolderInv, DiskInv, Writing
  <2> QED BY <2>2, <2>3, <2>4, IdQuiet, Zenon DEF FilesInv
<1>4. ASSUME NEW h \in Handlers, api_proposals_create(h) PROVE FilesInv'
  <2>1. /\ up = "serving" /\ handler[h] = NoRequest /\ UNCHANGED <<up, kills, index_vars, id_vars>>
        /\ handler' = [handler EXCEPT ![h] = [pc |-> "list"]] \/ UNCHANGED handler
    BY <1>4, Zenon DEF api_proposals_create
  <2>2. up # "down" /\ ~Writing(h)
    BY <2>1 DEF Writing, NoRequest
  <2>3. IndexInv'
    <3>1. CASE UNCHANGED handler
      BY <2>1, <2>2, <3>1, IndexQuiet, Zenon DEF FilesInv
    <3>2. CASE handler' = [handler EXCEPT ![h] = [pc |-> "list"]]
      <4>1. [pc |-> "list"].pc # "write" /\ Carries([pc |-> "list"])
        BY DEF Carries
      <4>2. Moves(h, [pc |-> "list"])
        BY <3>2, MoveRequest, Zenon DEF FilesInv, ProposalInv
      <4> QED BY <2>1, <2>2, <4>1, <4>2, IndexUntouched, Zenon DEF FilesInv
    <3> QED BY <2>1, <3>1, <3>2, Zenon
  <2> QED BY <1>4, <2>1, <2>3, ProposalCreate, IdQuiet, Zenon DEF FilesInv
<1>5. ASSUME NEW h \in Handlers, prune_proposals(h) \/ remove_file(h) PROVE FilesInv'
  <2>1. /\ handler[h].pc \in {"list", "remove"} /\ UNCHANGED <<up, kills, index_vars, id_vars>>
    BY <1>5 DEF prune_proposals, remove_file
  <2>2. PICK r : Moves(h, r) /\ r.pc \in {"remove", "idle"}
    BY <1>5, ProposalPrune, ProposalRemove, Zenon DEF FilesInv
  <2>3. /\ ~Writing(h) /\ handler[h].pc # "idle" /\ r.pc # "write" /\ Carries(r)
    BY <2>1, <2>2 DEF Writing, Carries
  <2>4. up # "down"
    BY <2>3, AtWork, Zenon DEF FilesInv
  <2>5. IndexInv'
    BY <2>1, <2>2, <2>3, <2>4, IndexUntouched, Zenon DEF FilesInv
  <2> QED BY <1>5, <2>1, <2>5, ProposalPrune, ProposalRemove, IdQuiet, Zenon DEF FilesInv
<1> QED BY <1>1, <1>2, <1>3, <1>4, <1>5, Zenon DEF ProposalNext

LEMMA FilesStep == ASSUME FilesInv, [IndexNext \/ ProposalNext]_filesVars PROVE FilesInv'
<1>1. CASE UNCHANGED filesVars
  <2>1. UNCHANGED <<up, handler, kills, index_vars, id_vars, proposal_vars>>
    BY <1>1, Zenon DEF filesVars
  <2>2. IndexInv'
    BY <2>1, Zenon DEF FilesInv, IndexInv, index_vars, IndexTypes, HolderInv, DiskInv, Writing
  <2>3. ProposalInv'
    BY <2>1, ProposalQuiet, Zenon DEF proposal_vars, FilesInv, ProposalInv
  <2> QED BY <2>1, <2>2, <2>3, IdQuiet, Zenon DEF FilesInv
<1> QED BY <1>1, IndexStep, ProposalStep, Zenon

LEMMA FilesInvKept == FilesInv => GatewayFilesKept
<1> SUFFICES ASSUME FilesInv PROVE GatewayFilesKept
  OBVIOUS
<1>1. IndexKept
  <2>1. \A k \in Kinds : index[k] \in Lists
    BY DEF FilesInv, IndexInv, IndexTypes, Indexes
  <2>2. \A l \in Lists : DOMAIN l = 1..Len(l) /\ Len(l) <= MAX_INDEX_ENTRIES /\ Single(l)
    BY DEF Lists
  <2>3. \A l \in Lists : \A m, n \in DOMAIN l : l[m].id = l[n].id => m = n
    BY <2>2, Zenon DEF Single
  <2> QED BY <2>1, <2>2, <2>3, Zenon DEF IndexKept, FilesInv, IndexInv, DiskInv, Noted
<1>2. IdentityStable
  BY Zenon DEF IdentityStable, FilesInv, IdInv
<1>3. ProposalsBounded
  <2>1. \A p \in removed : Cardinality({q \in 1..staged \ {p} : mtime[q] >= mtime[p]}) >= MAX_PROPOSALS
    BY Zenon DEF FilesInv, ProposalInv, Outlived, NoOlder
  <2>2. ASSUME ~owed, \A h \in Handlers : handler[h] = NoRequest
        PROVE  Cardinality(documents) <= MAX_PROPOSALS
    <3>1. ~Listing /\ \A p : ~Leaving(p)
      BY <2>2 DEF Listing, Leaving, NoRequest
    <3>2. Staying = documents
      BY <3>1, Zenon DEF Staying
    <3> QED BY <2>2, <3>1, <3>2, Zenon DEF FilesInv, ProposalInv
  <2> QED BY <2>1, <2>2, Zenon DEF ProposalsBounded
<1> QED BY <1>1, <1>2, <1>3, Zenon DEF GatewayFilesKept

\* For any number of requests at once and any bounds, wherever the gateway is
\* killed: unless a write failed, the index file is the index and holds what was
\* reported while there is room, one device id is used, and once every request
\* has pruned no more than MAX_PROPOSALS documents are left, the oldest gone.
THEOREM FilesAreKept == FilesSpec => []GatewayFilesKept
BY FilesInvInit, FilesStep, FilesInvKept, PTL DEF FilesSpec
=============================================================================
