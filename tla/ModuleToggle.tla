---------------------------- MODULE ModuleToggle ----------------------------
(***************************************************************************)
(* toggle_module (routes/modules.py): a request reads the module's state,  *)
(* when it would disable the module also that of each dependent, asks for  *)
(* confirmation if one of them is enabled, reads the row again and writes  *)
(* the negation of what it read first.  Requests interleave at each read;  *)
(* nothing locks the row, and module_id is unique.                         *)
(***************************************************************************)
EXTENDS Naturals

CONSTANTS
    Modules,
    Clients,     \* browsers, with one request in flight at most
    NONE

VARIABLES
    system,      \* the manifests set_manifests() was given
    config,      \* module_configs: absent, on or off
    toggle,      \* toggle_module in flight: its next step and what it has read
    moved        \* history: what other requests have changed since it began

vars == <<system, config, toggle, moved>>

Idle == [pc |-> "idle", module |-> NONE, confirm |-> FALSE, disable |-> FALSE,
         unread |-> {}, found |-> FALSE]

Init ==
    /\ config = [m \in Modules |-> "absent"]
    /\ toggle = [c \in Clients |-> Idle]
    /\ moved = [c \in Clients |-> {}]

\* No row means enabled (_enabled_state, is_module_enabled).
Enabled(m) == config[m] # "off"

DependentsOf(m) ==
    {d \in Modules \ {m} : system.provides[m] \cap system.requires[d] # {}}

-----------------------------------------------------------------------------

\* Defect: a module without a row is taken for disabled.
BeginByRow(c, m, confirm) ==
    /\ toggle[c].pc = "idle"
    /\ LET disable == config[m] = "on"
           unread == IF disable THEN DependentsOf(m) ELSE {}
       IN  toggle' = [toggle EXCEPT ![c] =
               [pc |-> IF unread = {} THEN "select" ELSE "dependents",
                module |-> m, confirm |-> confirm, disable |-> disable,
                unread |-> unread, found |-> FALSE]]
    /\ moved' = [moved EXCEPT ![c] = {}]
    /\ UNCHANGED <<system, config>>

\* The request arrives and reads the module's state.
Begin(c, m, confirm) ==
    /\ toggle[c].pc = "idle"
    /\ LET disable == Enabled(m)
           unread == IF disable THEN DependentsOf(m) ELSE {}
       IN  toggle' = [toggle EXCEPT ![c] =
               [pc |-> IF unread = {} THEN "select" ELSE "dependents",
                module |-> m, confirm |-> confirm, disable |-> disable,
                unread |-> unread, found |-> FALSE]]
    /\ moved' = [moved EXCEPT ![c] = {}]
    /\ UNCHANGED <<system, config>>

\* Defect: the last dependent decides.
LastDependentDecides(c) ==
    /\ toggle[c].pc = "dependents"
    /\ \E d \in toggle[c].unread :
          LET unread == toggle[c].unread \ {d}
          IN  toggle' = [toggle EXCEPT ![c] =
                  CASE unread # {} -> [@ EXCEPT !.unread = unread]
                    [] unread = {} /\ Enabled(d) /\ ~toggle[c].confirm -> Idle
                    [] OTHER -> [@ EXCEPT !.pc = "select", !.unread = {}]]
    /\ moved' = IF toggle'[c] = Idle THEN [moved EXCEPT ![c] = {}] ELSE moved
    /\ UNCHANGED <<system, config>>

ReadDependent(c) ==
    /\ toggle[c].pc = "dependents"
    /\ \E d \in toggle[c].unread :
          LET found == toggle[c].found \/ Enabled(d)
              unread == toggle[c].unread \ {d}
          IN  toggle' = [toggle EXCEPT ![c] =
                  CASE unread # {} -> [@ EXCEPT !.unread = unread, !.found = found]
                    [] unread = {} /\ found /\ ~toggle[c].confirm -> Idle
                    [] OTHER -> [@ EXCEPT !.pc = "select", !.unread = {}, !.found = FALSE]]
    /\ moved' = IF toggle'[c] = Idle THEN [moved EXCEPT ![c] = {}] ELSE moved
    /\ UNCHANGED <<system, config>>

\* The row is read afresh, since the session has dropped the one it read first.
\* It may have the value to be written by now, and then the ORM writes nothing.
SelectRow(c) ==
    /\ toggle[c].pc = "select"
    /\ LET t == toggle[c]
       IN  toggle' = [toggle EXCEPT ![c].pc =
               CASE config[t.module] = "absent" -> "insert"
                 [] Enabled(t.module) = ~t.disable -> "keep"
                 [] OTHER -> "update"]
    /\ UNCHANGED <<system, config, moved>>

\* A second INSERT for the module violates the unique constraint: a 500.
Commit(c) ==
    /\ toggle[c].pc \in {"insert", "update", "keep"}
    /\ LET t == toggle[c]
           written == \/ t.pc = "update"
                      \/ t.pc = "insert" /\ config[t.module] = "absent"
           to == IF t.disable THEN "off" ELSE "on"
       IN  /\ config' = IF written THEN [config EXCEPT ![t.module] = to] ELSE config
           /\ moved' = [b \in Clients |->
                 CASE b = c -> {}
                   [] b # c /\ written /\ toggle[b].pc # "idle" -> moved[b] \cup {t.module}
                   [] OTHER -> moved[b]]
    /\ toggle' = [toggle EXCEPT ![c] = Idle]
    /\ UNCHANGED system

Steps(c) == ReadDependent(c) \/ SelectRow(c) \/ Commit(c)

\* The process ends: what is not committed is lost.
Drop ==
    /\ toggle' = [c \in Clients |-> Idle]
    /\ moved' = [c \in Clients |-> {}]
    /\ UNCHANGED config

-----------------------------------------------------------------------------
(* Properties.                                                             *)

\* Rows and requests are well formed.
TypeOK ==
    /\ config \in [Modules -> {"absent", "on", "off"}]
    /\ toggle \in [Clients -> [pc : {"idle", "dependents", "select", "insert", "update", "keep"},
                               module : Modules \cup {NONE}, confirm : BOOLEAN, disable : BOOLEAN,
                               unread : SUBSET Modules, found : BOOLEAN]]
    /\ moved \in [Clients -> SUBSET Modules]

\* A toggle about to write negates the state the module has at that moment, and its
\* INSERT is about to succeed, unless another request has changed the module
\* since it was read (modules.py:101): only overlapping toggles of one
\* module get lost or fail.
OnlyOverlapLosesToggles ==
    \A c \in Clients :
        LET t == toggle[c]
        IN  t.pc \in {"select", "insert", "update", "keep"} /\ t.module \notin moved[c] =>
                /\ t.disable = Enabled(t.module)
                /\ t.pc # "keep"
                /\ (t.pc = "insert") => (config[t.module] = "absent")

\* The confirmation (modules.py:104-111) protects the dependents: whenever a module
\* is disabled, some request asked for it with confirm, or found every dependent
\* disabled that is enabled now: another request has enabled it meanwhile.
UnconfirmedBreaksNothing ==
    [][\A m \in Modules : Enabled(m) /\ ~Enabled(m)' =>
          \E c \in Clients :
             /\ toggle[c].module = m
             /\ \/ toggle[c].confirm
                \/ \A d \in Modules \ {m} :
                      system.provides[m] \cap system.requires[d] # {} /\ Enabled(d) => d \in moved[c]]_vars
=============================================================================
