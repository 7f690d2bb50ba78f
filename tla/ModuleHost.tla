----------------------------- MODULE ModuleHost -----------------------------
(***************************************************************************)
(* The API process from import to exit: create_app loads the modules       *)
(* (host/loader.py) in an order built from their manifests, injecting into *)
(* each the providers of what it requires (host/registry.py), mounts their *)
(* routers, and the lifespan (main.py) starts and cancels their collectors.*)
(*                                                                         *)
(* A module is its manifest, whether its factory is missing or raises,     *)
(* whether its get_router raises and whether it has a collector.  Whether  *)
(* the import runs inside an event loop is the server's choice: main.py    *)
(* says it does not, and then the loader's own create_task fails, but      *)
(* uvicorn (docker-compose.yml:18) imports the application inside its loop.*)
(* UI routes and event subscriptions, which no module uses, are left out.  *)
(***************************************************************************)
EXTENDS Naturals, Sequences, FiniteSets, Functions

CONSTANTS
    Modules,
    Interfaces,  \* the Protocol types modules provide and require
    Systems,     \* the manifests a process may find: records as in SystemType
    NONE

SystemType == [provides : [Modules -> SUBSET Interfaces], requires : [Modules -> SUBSET Interfaces],
               raising : SUBSET Modules, broken : SUBSET Modules, collectors : SUBSET Modules,
               loopAtImport : BOOLEAN]

VARIABLES
    system,     \* the manifests; never changes
    phase,      \* down, loading, serving, closing, or crashed at import
    order,      \* the modules load() has yet to load
    registry,   \* the provider of each interface
    injected,   \* <<module, interface, provider>> handed to the factories
    mounted,    \* modules whose router is mounted
    tasks       \* collector tasks of each module

vars == <<system, phase, order, registry, injected, mounted, tasks>>

Init ==
    /\ system \in Systems
    /\ phase = "down"
    /\ order = <<>>
    /\ registry = [i \in Interfaces |-> NONE]
    /\ injected = {}
    /\ mounted = {}
    /\ tasks = [m \in Modules |-> 0]

\* A process that ends takes everything but the manifests with it.
Exit(how) ==
    /\ phase' = how
    /\ order' = <<>>
    /\ registry' = [i \in Interfaces |-> NONE]
    /\ injected' = {}
    /\ mounted' = {}
    /\ tasks' = [m \in Modules |-> 0]
    /\ UNCHANGED system

-----------------------------------------------------------------------------
(* build_load_order                                                        *)

Predecessors(m) == {p \in Modules : system.provides[p] \cap system.requires[m] # {}}

ProvidesConflict == \E m, n \in Modules : m # n /\ system.provides[m] \cap system.provides[n] # {}

Unsatisfied == \E m \in Modules : ~(system.requires[m] \subseteq UNION {system.provides[p] : p \in Modules})

\* static_order() yields batch after batch of the modules whose predecessors
\* are all done.
Done[n \in 0..Cardinality(Modules)] ==
    IF n = 0 THEN {} ELSE {m \in Modules : Predecessors(m) \subseteq Done[n - 1]}

Batch(m) == CHOOSE n \in 1..Cardinality(Modules) : m \in Done[n] \ Done[n - 1]

Cycle == Done[Cardinality(Modules)] # Modules

\* Defect: successors first.
ReversedOrders ==
    {o \in Injection(1..Cardinality(Modules), Modules) :
        \A i, j \in DOMAIN o : i < j => Batch(o[i]) >= Batch(o[j])}

LoadOrders ==
    {o \in Injection(1..Cardinality(Modules), Modules) :
        \A i, j \in DOMAIN o : i < j => Batch(o[i]) <= Batch(o[j])}

Import ==
    /\ phase = "down"
    /\ IF ProvidesConflict \/ Unsatisfied \/ Cycle
       THEN Exit("crashed")
       ELSE /\ phase' = "loading"
            /\ order' \in LoadOrders
            /\ UNCHANGED <<system, registry, injected, mounted, tasks>>

-----------------------------------------------------------------------------
(* load() and the lifespan                                                 *)

\* Defect: a capability that raises ends the loop.
LoadUntilBroken ==
    /\ phase = "loading" /\ order # <<>>
    /\ LET m == Head(order)
           provided == system.provides[m]
       IN  /\ order' = IF m \in system.broken THEN <<>> ELSE Tail(order)
           /\ injected' = injected \cup {<<m, i, registry[i]>> : i \in system.requires[m]}
           /\ registry' = [i \in Interfaces |-> IF i \in provided THEN m ELSE registry[i]]
           /\ mounted' = IF m \in system.broken THEN mounted ELSE mounted \cup {m}
    /\ UNCHANGED <<system, phase, tasks>>

\* One module: resolve, create, register and wire.  A capability that raises is
\* skipped; a requirement without a provider, a factory that is missing or raises,
\* and a second provider end the process.
LoadModule ==
    /\ phase = "loading" /\ order # <<>>
    /\ LET m == Head(order)
           provided == system.provides[m]
       IN  IF \/ m \in system.raising
              \/ \E i \in system.requires[m] : registry[i] = NONE
              \/ \E i \in provided : registry[i] # NONE
           THEN Exit("crashed")
           ELSE /\ order' = Tail(order)
                /\ injected' = injected \cup {<<m, i, registry[i]>> : i \in system.requires[m]}
                /\ registry' = [i \in Interfaces |-> IF i \in provided THEN m ELSE registry[i]]
                /\ mounted' = IF m \in system.broken THEN mounted ELSE mounted \cup {m}
                /\ tasks' = IF m \in system.collectors /\ system.loopAtImport
                            THEN [tasks EXCEPT ![m] = @ + 1] ELSE tasks
                /\ UNCHANGED <<system, phase>>

\* The lifespan starts every collector, whatever the loader managed to start.
Start ==
    /\ phase = "loading" /\ order = <<>>
    /\ phase' = "serving"
    /\ tasks' = [m \in Modules |-> IF m \in system.collectors THEN tasks[m] + 1 ELSE tasks[m]]
    /\ UNCHANGED <<system, order, registry, injected, mounted>>

\* Defect: a task is cancelled for every module.
ShutdownAll ==
    /\ phase = "serving"
    /\ phase' = "closing"
    /\ tasks' = [m \in Modules |-> tasks[m] - 1]
    /\ UNCHANGED <<system, order, registry, injected, mounted>>

\* It cancels those it started.
Shutdown ==
    /\ phase = "serving"
    /\ phase' = "closing"
    /\ tasks' = [m \in Modules |-> IF m \in system.collectors THEN tasks[m] - 1 ELSE tasks[m]]
    /\ UNCHANGED <<system, order, registry, injected, mounted>>

\* The process ends: after its shutdown, killed, or crashed before.
End == phase # "down" /\ Exit("down")

Next == Import \/ LoadModule \/ Start \/ Shutdown \/ End

Spec == Init /\ [][Next]_vars

-----------------------------------------------------------------------------
(* Properties.                                                             *)

\* The manifests are the chosen ones and the phases follow each other.
TypeOK ==
    /\ system \in Systems
    /\ phase \in {"down", "loading", "serving", "closing", "crashed"}
    /\ order \in UNION {[1..n -> Modules] : n \in 0..Cardinality(Modules)}
    /\ registry \in [Interfaces -> Modules \cup {NONE}]
    /\ injected \subseteq Modules \X Interfaces \X Modules
    /\ mounted \subseteq Modules
    /\ tasks \in [Modules -> 0..2]

\* The manifests can be loaded: each interface has at most one provider, and the
\* modules can be ranked so that each requirement is provided further down.
Loadable ==
    /\ \A i \in Interfaces : \A m, n \in Modules :
          i \in system.provides[m] /\ i \in system.provides[n] => m = n
    /\ \E rank \in [Modules -> 1..Cardinality(Modules)] :
          \A m \in Modules : \A i \in system.requires[m] :
             \E p \in Modules : i \in system.provides[p] /\ rank[p] < rank[m]

\* loader.py:45-47, 103-104: a dependency that is missing, provided twice or circular
\* crashes the start, and but for a factory that is missing or raises nothing else
\* does: no resolve() fails in an order build_load_order accepted, and no module
\* with a bad router keeps the others down.
CrashesIffUnloadable ==
    /\ phase = "crashed" => ~Loadable \/ system.raising # {}
    /\ phase = "loading" => Loadable
    /\ phase = "serving" => Loadable /\ system.raising = {}

\* A process that serves has every dependency injected from the module whose
\* manifest provides it, and every router but those that raised.
WiredAsDeclared ==
    phase = "serving" =>
        /\ injected = {t \in Modules \X Interfaces \X Modules :
                          t[2] \in system.requires[t[1]] /\ t[2] \in system.provides[t[3]]}
        /\ mounted = Modules \ system.broken

\* main.py:32-41, 57-61: the loader cannot start the collectors, since no event loop
\* runs at the import, and the lifespan does: while the process serves each one
\* runs once.
CollectorsRunOnce ==
    phase = "serving" =>
        tasks = [m \in Modules |-> IF m \in system.collectors THEN 1 ELSE 0]
=============================================================================
