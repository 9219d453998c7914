------------------------------ MODULE LoopFeed ------------------------------
(***************************************************************************)
(* What a loop adapter is told at each turn: `drive` in                    *)
(* agentd/src/workers/runs.rs reads the run's settled effects and          *)
(* children, shrinks them to the profile's caps and issues the turn with   *)
(* them.  The run's states are those of RunKernel, reduced to when a turn  *)
(* is issued, fails or has its decision accepted.                          *)
(*                                                                         *)
(* Sizes are small numbers that keep the order of the code's: brackets,    *)
(* the fields of an entry, a child's task excerpt, the guard fields, and   *)
(* results, whose image part `compact` can replace.                        *)
(***************************************************************************)
EXTENDS Integers, Sequences, SequencesExt, FiniteSetsExt

CONSTANTS
    Results,    \* [len, image]: a result and how much of it is image data
    Caps,       \* max_fed_event_bytes
    MaxFed,     \* max_fed_events
    Excerpt,    \* CHILD_FEED_EXCERPT_BYTES
    MaxSteps, MaxEffects, MaxChildren       \* bounds

VARIABLES
    state,      \* the run's state
    step,       \* its step_sequence
    effects,    \* its effects: [step, done, result]
    children,   \* its children: [done, result]
    cap,        \* the cap its frozen configuration gives
    turn,       \* the turns in flight: at most one [settled, feed]
    told,       \* effect -> accepted turns whose feed carried its outcome
    decided,    \* the step of the last accepted decision
    missed      \* outcomes an accepted turn's feed should have carried

vars == <<state, step, effects, children, cap, turn, told, decided, missed>>

Brackets == 1
Fields == 1
TaskExcerpt == 1
Guards == 2

(***************************************************************************)
(* The feed: entries in order, with the guard marker in front or not; the  *)
(* empty payload carries not even the brackets.                            *)
(***************************************************************************)
Entry(kind, i, r) ==
    [kind |-> kind, i |-> i, len |-> r.len, image |-> r.image, whole |-> TRUE,
     guards |-> FALSE]

\* Plausible bug: every terminal effect of the run is fed.
settled_All(s, st) ==
    LET Kept(seq, kind, P(_)) ==
          LET at == SetToSortSeq({i \in DOMAIN seq : seq[i].done /\ P(seq[i])}, <)
          IN [n \in DOMAIN at |-> Entry(kind, at[n], seq[at[n]].result)]
        all == Kept(effects, "effect", LAMBDA e : TRUE)
                 \o Kept(children, "child", LAMBDA c : st = "WaitingChild")
    IN SubSeq(all, 1 + Max({0, Len(all) - MaxFed}), Len(all))

\* The terminal effects of the run's current step, then, on a WaitingChild
\* resume, every terminal child; the oldest go beyond max_fed_events.
settled(s, st) ==
    LET Kept(seq, kind, P(_)) ==
          LET at == SetToSortSeq({i \in DOMAIN seq : seq[i].done /\ P(seq[i])}, <)
          IN [n \in DOMAIN at |-> Entry(kind, at[n], seq[at[n]].result)]
        all == Kept(effects, "effect", LAMBDA e : e.step = s)
                 \o Kept(children, "child", LAMBDA c : st = "WaitingChild")
    IN SubSeq(all, 1 + Max({0, Len(all) - MaxFed}), Len(all))

SizeOf(e) ==
    Fields + (IF e.whole THEN e.len ELSE 0)
           + (IF e.kind = "child" /\ e.whole THEN TaskExcerpt ELSE 0)
           + (IF e.guards THEN Guards ELSE 0)

pack(entries, marker) == [entries |-> entries, marker |-> marker, empty |-> FALSE]
NoPayload == [entries |-> <<>>, marker |-> FALSE, empty |-> TRUE]

Bytes(feed) ==
    IF feed.empty THEN 0
    ELSE Brackets + (IF feed.marker THEN Fields + Guards ELSE 0)
         + FoldLeft(LAMBDA n, e : n + SizeOf(e), 0, feed.entries)

\* The marker only accompanies settled entries.
Marked(entries) == pack(entries, entries # <<>>)
Over(feed, limit) == Bytes(feed) > limit

Each(entries, Op(_)) == [i \in DOMAIN entries |-> Op(entries[i])]

\* A long child result is cut to an excerpt, which no longer parses as JSON
\* with image content.
bound_child_result_ref(e) ==
    IF e.kind = "child" /\ e.len > Excerpt
    THEN [e EXCEPT !.len = Excerpt, !.image = 0] ELSE e

\* Image data is replaced by a note.
compact_result_ref_for_loop(e) == [e EXCEPT !.len = @ - e.image, !.image = 0]

\* A child entry is rebuilt from its identity, state and hash only.
degrade(e) ==
    IF e.kind = "child" THEN [e EXCEPT !.whole = FALSE, !.guards = FALSE] ELSE e

\* The oldest entries go while the batch is over the cap and not the last one.
evict(entries, limit) ==
    LET From(k) == SubSeq(entries, k, Len(entries))
        fits == {k \in DOMAIN entries : ~Over(Marked(From(k)), limit)}
    IN IF entries = <<>> THEN entries
       ELSE From(Min(fits \cup {Len(entries)}))

\* The guard fields move from the marker onto the newest entry.
inline(entries) ==
    [i \in DOMAIN entries |->
       IF i = Len(entries) THEN [entries[i] EXCEPT !.guards = TRUE] ELSE entries[i]]

\* Only the marker if it fits, and nothing otherwise.
last_resort(feed, limit) ==
    IF ~Over(feed, limit) THEN feed
    ELSE IF ~Over(pack(<<>>, TRUE), limit) THEN pack(<<>>, TRUE) ELSE NoPayload

If(entries, limit, pass) == IF Over(Marked(entries), limit) THEN pass ELSE entries

\* Plausible bug: entries are evicted before child results are bounded.
shrink_EvictFirst(entries, limit) ==
    LET evicted == evict(entries, limit)
        bounded == If(evicted, limit, Each(evicted, bound_child_result_ref))
        compact == If(bounded, limit, Each(bounded, compact_result_ref_for_loop))
    IN If(compact, limit, Each(compact, degrade))

\* bound, evict, compact, degrade: each only while the feed is over the cap.
shrink(entries, limit) ==
    LET bounded == If(entries, limit, Each(entries, bound_child_result_ref))
        evicted == evict(bounded, limit)
        compact == If(evicted, limit, Each(evicted, compact_result_ref_for_loop))
    IN If(compact, limit, Each(compact, degrade))

\* Plausible bug: the guards are inlined before child entries are degraded.
events_InlineFirst(entries, limit) ==
    LET s == shrink(entries, limit)
        feed == IF Over(Marked(s), limit) /\ s # <<>>
                THEN pack(Each(inline(s), degrade), FALSE) ELSE Marked(s)
    IN last_resort(feed, limit)

events(entries, limit) ==
    LET s == shrink(entries, limit)
        feed == IF Over(Marked(s), limit) /\ s # <<>>
                THEN pack(inline(s), FALSE) ELSE Marked(s)
    IN last_resort(feed, limit)

(***************************************************************************)
(* Turns.                                                                  *)
(***************************************************************************)
Init ==
    /\ state = "Running" /\ step = 0
    /\ effects = <<>> /\ children = <<>>
    /\ cap \in Caps
    /\ turn = <<>>
    /\ told = <<>> /\ decided = 0 /\ missed = {}

Pending(seq) == \E i \in DOMAIN seq : ~seq[i].done

Fed(feed) == {feed.entries[n].i : n \in {m \in DOMAIN feed.entries :
                                           feed.entries[m].kind = "effect"}}

\* drive: the feed is read at the run's present step, and issue_turn then
\* commits the next step before the loop is called.
drive ==
    /\ turn = <<>> /\ step < MaxSteps
    /\ \/ state = "Running"
       \/ state = "WaitingTool" /\ ~Pending(effects)
       \/ state = "WaitingChild" /\ ~Pending(children)
    /\ LET s == settled(step, state) IN
       turn' = <<[settled |-> s, feed |-> events(s, cap)]>>
    /\ step' = step + 1
    /\ state' = "Running"
    /\ UNCHANGED <<effects, children, cap, told, decided, missed>>

\* The call times out, the process dies or its answer is rejected: the loop
\* is stopped, and the run stays as issue_turn left it.
TurnFails ==
    /\ turn # <<>>
    /\ turn' = <<>>
    /\ UNCHANGED <<state, step, effects, children, cap, told, decided, missed>>

\* accept: the decision of the turn takes effect.
accept(decision, r) ==
    /\ turn # <<>>
    /\ turn' = <<>>
    /\ LET fed == Fed(turn[1].feed) IN
       /\ told' = [i \in DOMAIN effects |-> told[i] + (IF i \in fed THEN 1 ELSE 0)]
                    \o (IF decision = "effect" THEN <<0>> ELSE <<>>)
       /\ missed' = {i \in DOMAIN effects : effects[i].done /\ effects[i].step = decided}
                      \ {e.i : e \in {x \in ToSet(turn[1].settled) : x.kind = "effect"}}
    /\ decided' = step
    /\ \/ /\ decision = "effect" /\ Len(effects) < MaxEffects
          /\ effects' = Append(effects, [step |-> step, done |-> FALSE, result |-> r])
          /\ state' = "WaitingTool" /\ UNCHANGED children
       \/ /\ decision = "child" /\ Len(children) < MaxChildren
          /\ children' = Append(children, [done |-> FALSE, result |-> r])
          /\ state' = "WaitingChild" /\ UNCHANGED effects
       \/ /\ decision \in {"WaitingTool", "WaitingHuman", "Completed"}
          /\ state' = decision /\ UNCHANGED <<effects, children>>
    /\ UNCHANGED <<step, cap>>

SettleEffect(i) ==
    /\ ~effects[i].done
    /\ effects' = [effects EXCEPT ![i].done = TRUE]
    /\ UNCHANGED <<state, step, children, cap, turn, told, decided, missed>>

SettleChild(i) ==
    /\ ~children[i].done
    /\ children' = [children EXCEPT ![i].done = TRUE]
    /\ UNCHANGED <<state, step, effects, cap, turn, told, decided, missed>>

\* The approval is granted.
step_waiting_human ==
    /\ state = "WaitingHuman"
    /\ state' = "Running"
    /\ UNCHANGED <<step, effects, children, cap, turn, told, decided, missed>>

Next ==
    \/ drive
    \/ TurnFails
    \/ \E d \in {"effect", "child", "WaitingTool", "WaitingHuman", "Completed"},
          r \in Results : accept(d, r)
    \/ \E i \in DOMAIN effects : SettleEffect(i)
    \/ \E i \in DOMAIN children : SettleChild(i)
    \/ step_waiting_human

Spec == Init /\ [][Next]_vars

(***************************************************************************)
(* Properties.                                                             *)
(***************************************************************************)

\* Every variable has its type.
TypeOK ==
    /\ state \in {"Running", "WaitingTool", "WaitingChild", "WaitingHuman", "Completed"}
    /\ step \in 0..MaxSteps /\ decided \in 0..step
    /\ Len(effects) <= MaxEffects /\ Len(children) <= MaxChildren
    /\ Len(turn) <= 1 /\ told \in [DOMAIN effects -> 0..MaxSteps]
    /\ missed \subseteq DOMAIN effects

Carries(feed) == feed.marker \/ \E n \in DOMAIN feed.entries : feed.entries[n].guards

\* However much settled, the feed keeps to the configured byte cap; and when
\* anything settled and the marker alone would fit, the guard fields that
\* spawn caps and duplicate checks read are in it, in the marker or inlined
\* on the newest entry.
GuardsSurvive ==
    \A n \in DOMAIN turn :
      LET t == turn[n] IN
      /\ Bytes(t.feed) <= cap
      /\ t.settled # <<>> /\ ~Over(pack(<<>>, TRUE), cap) => Carries(t.feed)

\* Shrinking never costs an outcome that an excerpt would have saved: if the
\* batch fits with its child results cut to excerpts, every outcome is in the
\* feed, in order; and a feed with any entry has the newest.
OutcomesKept ==
    \A n \in DOMAIN turn :
      LET s == turn[n].settled
          kept == turn[n].feed.entries
          Id(q) == [i \in DOMAIN q |-> <<q[i].kind, q[i].i>>]
      IN /\ ~Over(Marked(Each(s, bound_child_result_ref)), cap) => Id(kept) = Id(s)
         /\ IsSuffix(Id(kept), Id(s))

\* An effect's outcome is in the feed of at most one accepted turn: a wait or
\* approval resume cannot replay an old result.
EffectsFedOnce == \A i \in DOMAIN told : told[i] <= 1

\* The comment on `drive` says that the batch carries the effect outcomes
\* settled by the last accepted decision's step.
OutcomeDelivered == missed = {}
=============================================================================
