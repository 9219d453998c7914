------------------------- MODULE ConfigGenerations -------------------------
(***************************************************************************)
(* Configuration generations: the propose, test, activate and roll back    *)
(* commands (config-engine/src/commands.rs, generations.rs, activate.rs)   *)
(* and what a booting daemon does with its --config file                   *)
(* (agentd/src/bootstrap.rs).  Digests are unique, so a generation is its  *)
(* document.  A handler that returns an error is rolled back, so a         *)
(* document that does not parse leaves no row and a failed smoke test      *)
(* leaves the row untested: the two outcomes are not steps.  Each command  *)
(* is one transaction; the daemon may crash between any two.  Boot runs    *)
(* before the API serves, and the fence shuts older instances out, so that *)
(* no client command runs during a boot.                                   *)
(***************************************************************************)
EXTENDS Naturals, Sequences, FiniteSets, Optional

CONSTANTS
    Docs,           \* documents that parse
    Services,       \* the services section of each
    Needs,          \* the registered adapters its profiles bind
    NoServices,     \* what runs when no document is given
    Adapters,
    Operators,      \* clients that activate and roll back
    MaxRevision,    \* bound: activations
    MaxBoots        \* bound: boots

ASSUME ConfigAssumption ==
    None \notin Docs /\ MaxRevision \in Nat /\ MaxBoots \in Nat

VARIABLES
    gens,        \* test_state of the (validated) generation of each document
    registered,  \* adapter registrations, never deleted
    active,      \* active_config_generation.generation_id
    revision,    \* and its revision, 0 with no row
    stream,      \* activations staged on config/global
    journaled,   \* how many of them the journal has
    proposals,   \* idempotency records of boot proposals: document, revision
    pc,          \* the daemon
    doc,         \* the document it booted with
    running,     \* running_services
    expected,    \* the revision boot read
    rollback,    \* is_rollback
    seen,        \* revision and generation each operator last read
    boots

store == <<gens, registered, active, revision, stream, journaled, proposals>>
boot == <<doc, running, expected, rollback, boots>>
configVars == <<store, pc, boot, seen>>

Event == [type : {"ConfigActivated", "ConfigRolledBack"}, gen : Docs,
          by : {"boot", "operator"}]

ConfigTypeOK ==
    /\ gens \in [Docs -> {"none", "untested", "passed"}]
    /\ registered \subseteq Adapters
    /\ active \in Docs \cup {None}
    /\ revision \in 0..MaxRevision
    /\ stream \in Seq(Event)
    /\ journaled \in 0..Len(stream)
    /\ proposals \subseteq Docs \X (0..MaxRevision)
    /\ pc \in {"down", "propose", "test", "activate", "up", "failed"}
    /\ doc \in Docs \cup {None}
    /\ running \in {Services[d] : d \in Docs} \cup {NoServices}
    /\ expected \in 0..MaxRevision
    /\ rollback \in BOOLEAN
    /\ seen \in [Operators -> [revision : 0..MaxRevision, gen : Docs \cup {None}]]
    /\ boots \in 0..MaxBoots

ConfigInit ==
    /\ gens = [d \in Docs |-> "none"]
    /\ registered = {}
    /\ active = None /\ revision = 0
    /\ stream = <<>> /\ journaled = 0
    /\ proposals = {}
    /\ pc = "down" /\ doc = None /\ running = NoServices
    /\ expected = 0 /\ rollback = FALSE
    /\ seen = [o \in Operators |-> [revision |-> 0, gen |-> None]]
    /\ boots = 0

-----------------------------------------------------------------------------
\* generations::smoke_test
smoke_test(d) ==
    /\ gens[d] # "none"
    /\ Needs[d] \subseteq registered

\* Mutant: the revision is not compared.
cas_active_Blind(d, rev) == revision' = revision + 1 /\ active' = d

\* ConfigRepo::cas_active
cas_active(d, rev) ==
    /\ revision = rev
    /\ revision' = rev + 1
    /\ active' = d

\* Mutant: services are not compared.
activate_AnyServices(d, rev, type, who) ==
    /\ gens[d] = "passed"
    /\ cas_active(d, rev)
    /\ stream' = Append(stream, [type |-> type, gen |-> d, by |-> who])

\* Mutant: a generation need not have passed.
activate_Untested(d, rev, type, who) ==
    /\ gens[d] # "none"
    /\ Services[d] = running
    /\ cas_active(d, rev)
    /\ stream' = Append(stream, [type |-> type, gen |-> d, by |-> who])

\* activate::activate and the event its handler stages; rollback is the
\* same call under the other event type.
activate(d, rev, type, who) ==
    /\ gens[d] = "passed"
    /\ Services[d] = running
    /\ cas_active(d, rev)
    /\ stream' = Append(stream, [type |-> type, gen |-> d, by |-> who])

-----------------------------------------------------------------------------
(* Commands of clients.                                                    *)

ProposeHandler(d) ==
    /\ pc = "up"
    /\ gens[d] = "none"
    /\ gens' = [gens EXCEPT ![d] = "untested"]
    /\ UNCHANGED <<registered, active, revision, stream, journaled, proposals,
                   pc, boot, seen>>

MarkTestedHandler(d) ==
    /\ pc = "up"
    /\ smoke_test(d)
    /\ gens' = [gens EXCEPT ![d] = "passed"]
    /\ UNCHANGED <<registered, active, revision, stream, journaled, proposals,
                   pc, boot, seen>>

\* The operator reads the pointer it will compare against.
ReadActive(o) ==
    /\ pc = "up"
    /\ seen' = [seen EXCEPT ![o] = [revision |-> revision, gen |-> active]]
    /\ UNCHANGED <<store, pc, boot>>

ActivateHandler(o, d) ==
    /\ pc = "up"
    /\ revision < MaxRevision
    /\ activate(d, seen[o].revision, "ConfigActivated", "operator")
    /\ UNCHANGED <<gens, registered, journaled, proposals, pc, boot, seen>>

RollbackHandler(o, d) ==
    /\ pc = "up"
    /\ revision < MaxRevision
    /\ activate(d, seen[o].revision, "ConfigRolledBack", "operator")
    /\ UNCHANGED <<gens, registered, journaled, proposals, pc, boot, seen>>

\* The dispatcher copies the next event to the journal.
Publish ==
    /\ pc = "up"
    /\ journaled < Len(stream)
    /\ journaled' = journaled + 1
    /\ UNCHANGED <<gens, registered, active, revision, stream, proposals,
                   pc, boot, seen>>

-----------------------------------------------------------------------------
(* Boot.                                                                   *)

\* Mutant: the outbox is not scanned.
generation_previously_active_JournalOnly(d) ==
    \E i \in 1..journaled : stream[i].gen = d

\* The journal is read first, then the rows it does not have yet.
generation_previously_active(d) ==
    \/ \E i \in 1..journaled : stream[i].gen = d
    \/ \E i \in journaled + 1 .. Len(stream) : stream[i].gen = d

\* Mutant: the document is always proposed anew.
Reactivate_Never(d) == FALSE

\* The document's generation is looked up only when some generation is
\* active.
Reactivate(d) == active # None /\ gens[d] # "none"

\* A boot registers the bundles it finds and, given a document that is not
\* the active generation, starts to adopt it.
Boot(d, bundles) ==
    /\ pc \in {"down", "failed"}
    /\ boots < MaxBoots
    /\ boots' = boots + 1
    /\ registered' = registered \cup bundles
    /\ doc' = d
    /\ running' = IF d = None THEN NoServices ELSE Services[d]
    /\ expected' = revision
    /\ rollback' = (d # None /\ Reactivate(d) /\ generation_previously_active(d))
    /\ pc' = IF d \in {None, active} THEN "up"
             ELSE IF Reactivate(d) THEN "test" ELSE "propose"
    /\ UNCHANGED <<gens, active, revision, stream, journaled, proposals, seen>>

\* A record of the same document and revision replays; a row somebody else
\* proposed is a conflict, which ends the boot.
BootPropose ==
    /\ pc = "propose"
    /\ \/ /\ <<doc, expected>> \in proposals
          /\ pc' = "test"
          /\ UNCHANGED <<gens, proposals>>
       \/ /\ <<doc, expected>> \notin proposals
          /\ gens[doc] = "none"
          /\ gens' = [gens EXCEPT ![doc] = "untested"]
          /\ proposals' = proposals \cup {<<doc, expected>>}
          /\ pc' = "test"
       \/ /\ <<doc, expected>> \notin proposals
          /\ gens[doc] # "none"
          /\ pc' = "failed"
          /\ UNCHANGED <<gens, proposals>>
    /\ UNCHANGED <<registered, active, revision, stream, journaled, boot, seen>>

BootTest ==
    /\ pc = "test"
    /\ \/ smoke_test(doc) /\ gens' = [gens EXCEPT ![doc] = "passed"] /\ pc' = "activate"
       \/ ~smoke_test(doc) /\ pc' = "failed" /\ UNCHANGED gens
    /\ UNCHANGED <<registered, active, revision, stream, journaled, proposals,
                   boot, seen>>

\* The revision in the idempotency key is the current one, which no earlier
\* activation has used: the command never replays.
BootActivate ==
    /\ pc = "activate"
    /\ revision < MaxRevision
    /\ activate(doc, expected,
                IF rollback THEN "ConfigRolledBack" ELSE "ConfigActivated", "boot")
    /\ pc' = "up"
    /\ UNCHANGED <<gens, registered, journaled, proposals, boot, seen>>

\* What the daemon had in memory is gone.
Crash ==
    /\ pc \notin {"down", "failed"}
    /\ pc' = "down" /\ doc' = None /\ running' = NoServices
    /\ expected' = 0 /\ rollback' = FALSE
    /\ UNCHANGED <<store, boots, seen>>

ConfigNext ==
    \/ \E d \in Docs : ProposeHandler(d)
    \/ \E d \in Docs : MarkTestedHandler(d)
    \/ \E o \in Operators : ReadActive(o)
    \/ \E o \in Operators, d \in Docs : ActivateHandler(o, d)
    \/ \E o \in Operators, d \in Docs : RollbackHandler(o, d)
    \/ Publish
    \/ \E d \in Docs \cup {None}, bundles \in SUBSET Adapters : Boot(d, bundles)
    \/ BootPropose
    \/ BootTest
    \/ BootActivate
    \/ Crash

ConfigSpec == ConfigInit /\ [][ConfigNext]_configVars

-----------------------------------------------------------------------------
(* The active generation has passed its smoke test, and every adapter it   *)
(* binds is registered, whoever activated it and whichever boot or crash   *)
(* came in between.                                                        *)
ActiveEligible ==
    active # None => gens[active] = "passed" /\ Needs[active] \subseteq registered

(* The services of a daemon booted with a document are those of the active *)
(* generation for as long as it runs: a generation that rebinds them is    *)
(* never activated live.                                                   *)
ServicesFrozen ==
    pc = "up" /\ doc # None => active # None /\ Services[active] = running

(* A boot reports a roll back exactly when the generation it activates has *)
(* held the pointer before, even when the event that says so had not       *)
(* reached the journal when an earlier instance died.                      *)
RollbackNamed ==
    \A i \in DOMAIN stream :
        stream[i].by = "boot" =>
            (stream[i].type = "ConfigRolledBack"
             <=> \E j \in 1..i-1 : stream[j].gen = stream[i].gen)

(* With a generation active, a boot fails on a document only because an    *)
(* adapter is missing: crashes between its commands, documents proposed by *)
(* clients and earlier boots of the same document never wedge it, and its  *)
(* activation is never refused.                                            *)
NeverWedged ==
    /\ pc = "failed" /\ active # None => ~(Needs[doc] \subseteq registered)
    /\ pc = "activate" => /\ gens[doc] = "passed"
                          /\ Services[doc] = running
                          /\ revision = expected

(* No activation overwrites one its operator has not seen: the pointer     *)
(* moves from the generation the operator read.                            *)
NoLostActivation ==
    \A o \in Operators, d \in Docs :
        ActivateHandler(o, d) \/ RollbackHandler(o, d) => active = seen[o].gen

(* A boot over an active generation is not wedged by what a crash left     *)
(* behind; the active generation is tested and its adapters registered,    *)
(* and keeps the services the daemon booted with; a boot's activation is   *)
(* named a roll back iff it is one; and no operator overwrites an          *)
(* activation it has not seen (bootstrap.rs, activate.rs).                 *)
BootRecovers ==
    [][/\ (NeverWedged /\ ActiveEligible /\ ServicesFrozen /\ RollbackNamed)'
       /\ NoLostActivation]_configVars
=============================================================================
