--------------------------- MODULE PluginManager ---------------------------
(***************************************************************************)
(* How the scan daemon orders its plugins and runs them                    *)
(* (crates/hardener-core/src/plugin_manager.rs, registry.rs): the registry *)
(* is drawn as a graph, refused where it cannot be ordered, walked from    *)
(* its roots by petgraph's Topo, and every plugin that the configuration   *)
(* and the selection leave is asked for one result.                        *)
(***************************************************************************)
EXTENDS Naturals, Sequences, FiniteSets

CONSTANTS Plugin,     \* the ids that are registered
          Unknown     \* an id that is not

OrderAssumption == IsFiniteSet(Plugin) /\ Unknown \notin Plugin

VARIABLES needs,      \* plugin -> the ids its dependencies() names
          asked,      \* the verb, the selection and the disabled plugins
          manager     \* the walk, and the results it has brought

vars == <<needs, asked, manager>>

Asked == [verb : {"scan", "apply"}, selection : SUBSET Plugin, disabled : SUBSET Plugin]

Init ==
    /\ needs \in [Plugin -> SUBSET (Plugin \cup {Unknown})]
    /\ asked = [verb |-> "scan", selection |-> {}, disabled |-> {}]
    /\ manager = [pc |-> "new", order |-> <<>>, at |-> 1, results |-> <<>>]

\* Seeded fault: only a plugin that names itself is a cycle.
CyclicIfSelf == \E p \in Plugin : p \in needs[p]

\* is_cyclic_directed: plugins that wait on one another for ever.
Cyclic ==
    \E S \in (SUBSET Plugin) \ {{}} : \A p \in S : needs[p] \cap S # {}

\* resolve_dependencies; its caller goes no further where it fails.
Resolve ==
    /\ manager.pc = "new"
    /\ manager' = [manager EXCEPT !.pc =
          IF (\E p \in Plugin : Unknown \in needs[p]) \/ Cyclic THEN "refused" ELSE "order"]
    /\ UNCHANGED <<needs, asked>>

Ordered == {manager.order[i] : i \in DOMAIN manager.order}

\* Topo: any plugin all of whose dependencies have been handed out.
Ready == {p \in Plugin \ Ordered : needs[p] \subseteq Ordered}

Walk ==
    /\ manager.pc = "order"
    /\ \E p \in Ready : manager' = [manager EXCEPT !.order = Append(@, p)]
    /\ UNCHANGED <<needs, asked>>

Wants(a, p) ==
    /\ a.selection = {} \/ p \in a.selection
    /\ a.verb = "scan" => p \notin a.disabled

\* execute_scan or execute_apply is called: the second takes the ids it is
\* given, whatever the configuration disables, and refuses to run none.
Call ==
    /\ manager.pc = "order" /\ Ready = {}
    /\ asked' \in Asked
    /\ LET none == asked'.verb = "apply" /\ \A p \in Ordered : ~Wants(asked', p)
       IN manager' = [manager EXCEPT !.pc = IF none THEN "refused" ELSE "execute"]
    /\ UNCHANGED needs

Due == manager.pc = "execute" /\ manager.at \in DOMAIN manager.order
Now == manager.order[manager.at]

\* A plugin that was not asked for is passed over, and nothing is filed of it.
Pass ==
    /\ Due /\ ~Wants(asked, Now)
    /\ manager' = [manager EXCEPT !.at = @ + 1]
    /\ UNCHANGED <<needs, asked>>

\* A plugin that errs has its result too, a failed one, and the next is run.
Execute ==
    /\ Due /\ Wants(asked, Now)
    /\ \E success \in BOOLEAN :
          manager' = [manager EXCEPT !.at = @ + 1,
             !.results = Append(@, [plugin |-> Now, success |-> success])]
    /\ UNCHANGED <<needs, asked>>

Next == Resolve \/ Walk \/ Call \/ Pass \/ Execute

-----------------------------------------------------------------------------
(* Properties.                                                             *)

TypeOK ==
    /\ manager.pc \in {"new", "refused", "order", "execute"}
    /\ Ordered \subseteq Plugin
    /\ asked \in Asked

\* An order of the plugins in which each follows all it depends on.
Orderable ==
    \E rank \in [Plugin -> 1..Cardinality(Plugin)] :
        \A p \in Plugin : \A q \in needs[p] : q \in Plugin /\ rank[q] < rank[p]

Wanted == {p \in Plugin : Wants(asked, p)}

\* A registry is refused only where it has no order, or nothing was to be
\* applied; and an execution that has come to its end brought one result from
\* every plugin asked for, none before one that it depends on.
OrderIsSound ==
    /\ manager.pc = "refused" => (~Orderable \/ (asked.verb = "apply" /\ Wanted = {}))
    /\ (manager.pc = "execute" /\ manager.at > Len(manager.order)) =>
          LET r == manager.results IN
          /\ Orderable
          /\ {r[i].plugin : i \in DOMAIN r} = Wanted
          /\ Len(r) = Cardinality(Wanted)
          /\ \A i, j \in DOMAIN r : r[j].plugin \in needs[r[i].plugin] => j < i
=============================================================================
