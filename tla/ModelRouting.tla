---------------------------- MODULE ModelRouting ----------------------------
(***************************************************************************)
(* Which model a delegated task runs on: the catalog (delegate.rs,         *)
(* providers.rs, native_overrides.rs), the router that is asked and what   *)
(* is made of its answer (router.rs), and the resolution of a name.        *)
(*                                                                         *)
(* A name is a sequence of words, compared without regard to case.         *)
(* Capability, cost, priority and the tradeoff t are fractions of Scale.   *)
(* An entry of a catalog has the fields name, model, family ("" for a      *)
(* registered one), capability, cost, priority, enabled, keyed, anthropic, *)
(* router.                                                                 *)
(***************************************************************************)
EXTENDS Integers, Sequences, FiniteSets, SequencesExt

Scale == 20
Margin == 20            \* PRIORITY_MARGIN of the main score, whose unit is 1/Scale^2
MidFloor == 10          \* the floor of a task the router has no answer for
NoModel == <<>>

-----------------------------------------------------------------------------
(* The catalog. *)

\* The values of a native family nobody has edited.
family_default_metrics(fam) ==
    [capability |-> CASE fam = "opus" -> 19 [] fam = "haiku" -> 12 [] OTHER -> 17,
     cost |-> CASE fam = "opus" -> 18 [] fam = "haiku" -> 6 [] OTHER -> 12,
     priority |-> 10, enabled |-> TRUE]

\* candidates_from(): the newest model of every family, models being newest first, with
\* the override of the family.
candidates_from(models, overrides) ==
    LET newest == SelectSeq(models, LAMBDA m :
                      \E i \in DOMAIN models :
                          models[i] = m /\ \A j \in 1..(i - 1) : models[j].family # m.family)
        Native(m) ==
            LET o == IF m.family \in DOMAIN overrides THEN overrides[m.family]
                     ELSE family_default_metrics(m.family)
            IN [name |-> m.id, model |-> m.id, family |-> m.family,
                capability |-> o.capability, cost |-> o.cost, priority |-> o.priority,
                enabled |-> o.enabled, keyed |-> FALSE, anthropic |-> TRUE, router |-> FALSE]
    IN [i \in DOMAIN newest |-> Native(newest[i])]

is_native(p) == p.family # ""

\* run_delegate(): the providers with a key, an openai one when the proxy is there, then
\* the native models.
all_candidates(registry, natives, proxy) ==
    SelectSeq(registry, LAMBDA p : p.keyed /\ (p.anthropic \/ proxy)) \o natives

\* Those the router may choose from, each at its place in the catalog.
candidates(all) == [i \in {j \in DOMAIN all : all[j].enabled} |-> all[i]]

\* A batch is refused when every model there is has been disabled.
Refused(all) == DOMAIN candidates(all) = {} /\ all # <<>>

\* The first of some places, 0 if there is none.
First(places) == IF places = {} THEN 0 ELSE Min(places)

\* router_provider(): the first eligible of those flagged; of none flagged the one the
\* environment names, if it is eligible.
router_provider(registry, off, named) ==
    LET Eligible(p) == p.enabled /\ p.anthropic /\ p.keyed
        flagged == \E i \in DOMAIN registry : registry[i].router
        Asked(p) == Eligible(p) /\ IF flagged THEN p.router ELSE named # NoModel /\ p.name = named
    IN IF off THEN 0 ELSE First({i \in DOMAIN registry : Asked(registry[i])})

-----------------------------------------------------------------------------
(* Names. *)

HasPart(s, part) ==
    \E i \in 1..(Len(s) - Len(part) + 1) : SubSeq(s, i, i + Len(part) - 1) = part

\* Provider::matches(): by name or model, in part.
matches(p, hint) ==
    /\ hint # NoModel
    /\ \/ p.name = hint \/ p.model = hint
       \/ p.name # NoModel /\ HasPart(hint, p.name)
       \/ p.model # NoModel /\ HasPart(p.model, hint)

\* resolve_candidate(): the first exact match, the first native one, the first at all.
resolve_candidate(cs, hint) ==
    LET exact == {i \in DOMAIN cs : hint # NoModel /\ hint \in {cs[i].name, cs[i].model}}
        part == {i \in DOMAIN cs : matches(cs[i], hint)}
        native == {i \in part : is_native(cs[i])}
    IN CASE exact # {} -> First(exact)
         [] exact = {} /\ native # {} -> First(native)
         [] OTHER -> First(part)

-----------------------------------------------------------------------------
(* The choice. *)

MainScore(p, t) == (Scale - t) * (Scale - p.cost) + t * p.capability

\* The order among near ties, the better one first.
Better(p, q, t) ==
    LET kp == <<p.priority, MainScore(p, t), -p.cost, p.capability, IF is_native(p) THEN 0 ELSE 1>>
        kq == <<q.priority, MainScore(q, t), -q.cost, q.capability, IF is_native(q) THEN 0 ELSE 1>>
    IN \E k \in 1..5 : kp[k] > kq[k] /\ \A j \in 1..(k - 1) : kp[j] = kq[j]

\* select_with_floor(): the place of the choice among cs, which is not empty.  max_by()
\* returns the last of equally capable candidates.
select_with_floor(floor, cs, t) ==
    LET top == CHOOSE i \in DOMAIN cs : \A j \in DOMAIN cs :
                   cs[j].capability <= cs[i].capability /\ (j > i => cs[j].capability < cs[i].capability)
        able == {i \in DOMAIN cs : cs[i].capability >= floor}
        pool == IF able = {} THEN {top} ELSE able
        band == {i \in pool : \A j \in pool : MainScore(cs[i], t) + Margin >= MainScore(cs[j], t)}
    IN CHOOSE i \in band : \A j \in band \ {i} :
           Better(cs[i], cs[j], t) \/ (~Better(cs[j], cs[i], t) /\ i < j)

\* parse_route_response(): of the entries [task, model] of the answer those about a task
\* that was asked, with a model of the catalog; a later one counts.
parse_route_response(reply, asked, cs) ==
    LET Good(e) == /\ e.task \in asked /\ e.model # NoModel
                   /\ \E i \in DOMAIN cs : matches(cs[i], e.model)
        Of(k) == {i \in DOMAIN reply : Good(reply[i]) /\ reply[i].task = k}
    IN [k \in {x \in asked : Of(x) # {}} |-> reply[Max(Of(k))].model]

\* A router whose pick is the choice.
PickAsIs(picks, cs, t) ==
    [k \in DOMAIN picks |-> cs[resolve_candidate(cs, picks[k])].model]

\* select_from_picks(): the pick sets the floor, the scorer chooses; the choice goes on by
\* the name of its model.
select_from_picks(picks, cs, t) ==
    [k \in DOMAIN picks |->
        cs[select_with_floor(cs[resolve_candidate(cs, picks[k])].capability, cs, t)].model]

\* The tasks that name no model.
Unpinned(tasks) == {k \in DOMAIN tasks : tasks[k] = NoModel}

\* route_batch() and route_via_native_claude(): no call without a decision to make; an
\* answer that never came is an empty one.
route_batch(tasks, cs, t, reply) ==
    CASE Unpinned(tasks) = {} \/ DOMAIN cs = {} -> <<>>
      [] Cardinality(DOMAIN cs) = 1 -> [k \in Unpinned(tasks) |-> cs[First(DOMAIN cs)].model]
      [] OTHER -> select_from_picks(parse_route_response(reply, Unpinned(tasks), cs), cs, t)

\* run_delegate(): what task k runs on, as an entry of the catalog, or <<>> for the
\* subscription, with the name the task gave if nothing has it, else its default model.
WorkerModel(tasks, k, all, t, reply) ==
    LET cs == candidates(all)
        picks == route_batch(tasks, cs, t, reply)
        Entry(s, hint) == LET i == resolve_candidate(s, hint) IN IF i = 0 THEN <<>> ELSE <<s[i]>>
    IN CASE tasks[k] # NoModel -> Entry(all, tasks[k])
         [] tasks[k] = NoModel /\ k \in DOMAIN picks -> Entry(cs, picks[k])
         [] tasks[k] = NoModel /\ k \notin DOMAIN picks /\ DOMAIN cs # {} ->
                Entry(cs, cs[select_with_floor(MidFloor, cs, t)].model)
         [] OTHER -> <<>>

\* The environment of the worker: none for a native model, the proxy for an openai
\* provider, the endpoint and the key of an anthropic one.
env_overlay(worker) ==
    CASE worker = <<>> \/ is_native(worker[1]) -> "subscription"
      [] worker # <<>> /\ ~is_native(worker[1]) /\ worker[1].anthropic -> "endpoint"
      [] OTHER -> "proxy"

-----------------------------------------------------------------------------
(* Properties. *)

\* What the scorer may choose among entries: one that is as able as asked for, if any is, and
\* near the best of those; else the ablest.
IsChoice(p, entries, floor, t) ==
    LET able == {q \in entries : q.capability >= floor}
    IN IF able # {} THEN p \in able /\ \A q \in able : MainScore(p, t) + Margin >= MainScore(q, t)
       ELSE \A q \in entries : p.capability >= q.capability

\* The floor of the one task that names no model: what the router's pick can do, or the middle
\* one when the router said nothing usable.
Floor(cs, reply) ==
    LET picks == parse_route_response(reply, {1}, cs)
    IN IF 1 \in DOMAIN picks THEN cs[resolve_candidate(cs, picks[1])].capability ELSE MidFloor

\* router.rs:195, delegate.rs:985: a task that names no model runs on a candidate the user has
\* left enabled, and on the scorer's choice or one that bears the name of its model: the choice
\* travels by that name, which several entries may have.
RoutedWorkerIsCapable(all, t, reply) ==
    LET cs == candidates(all)
        entries == {cs[i] : i \in DOMAIN cs}
        worker == WorkerModel(<<NoModel>>, 1, all, t, reply)
    IN DOMAIN cs # {} =>
        /\ worker # <<>> /\ worker[1] \in entries
        /\ \E p \in entries : /\ IsChoice(p, entries, Floor(cs, reply), t)
                              /\ p.model \in {worker[1].name, worker[1].model}

\* router.rs:198: the winner is among the candidates at least as capable as the router's pick.
RoutedWorkerIsAble(all, t, reply) ==
    LET cs == candidates(all)
        worker == WorkerModel(<<NoModel>>, 1, all, t, reply)
    IN (\E i \in DOMAIN cs : cs[i].capability >= Floor(cs, reply)) =>
           worker[1].capability >= Floor(cs, reply)
=============================================================================
