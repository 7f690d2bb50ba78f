-------------------------- MODULE DashboardProofs --------------------------
(* Proofs about Dashboard, for any modules, manifests and browsers: how a  *)
(* process is wired and its collectors run, what overlapping toggles may   *)
(* do to each other and to the dependents of a module, and that the first  *)
(* password stays.                                                         *)
EXTENDS Dashboard, InductionLemmas

(* The modules the loader is through with, in a process that came up.      *)
Waiting == {order[i] : i \in 1..Len(order)}
Loaded == IF phase \in {"loading", "serving", "closing"} THEN Modules \ Waiting ELSE {}

(* Registry, injections, mounted routers and collectors are those of the   *)
(* loaded modules.                                                         *)
Wiring ==
    /\ \A i \in Interfaces :
          \/ registry[i] \in Loaded /\ i \in system.provides[registry[i]]
          \/ registry[i] = NONE /\ \A p \in Loaded : i \notin system.provides[p]
    /\ injected = {t \in Loaded \X Interfaces \X Modules :
                      t[2] \in system.requires[t[1]] /\ t[2] \in system.provides[t[3]]}
    /\ mounted = Loaded \ system.broken
    /\ tasks = [m \in Modules |->
                  IF m \in system.collectors
                  THEN (IF system.loopAtImport /\ m \in Loaded THEN 1 ELSE 0)
                          + (IF phase = "serving" THEN 1 ELSE 0)
                  ELSE 0]

HostInv ==
    /\ system \in Systems
    /\ phase \in {"down", "loading", "serving", "closing", "crashed"}
    /\ order \in Seq(Modules) /\ Len(order) <= Cardinality(Modules)
    /\ \A i, j \in 1..Len(order) : order[i] = order[j] => i = j
    /\ phase # "loading" => order = <<>>
    /\ phase \in {"loading", "serving", "closing"} => ~Host!ProvidesConflict
    /\ registry \in [Interfaces -> Modules \cup {NONE}]
    /\ Wiring

ToggleType ==
    [pc : {"idle", "dependents", "select", "insert", "update", "keep"}, module : Modules \cup {NONE},
     confirm : BOOLEAN, disable : BOOLEAN, unread : SUBSET Modules, found : BOOLEAN]

(* What a toggle has read is still so unless another one moved it since.   *)
Current ==
    \A c \in Clients :
        LET t == toggle[c]
        IN  t.pc # "idle" /\ t.module \notin moved[c] =>
                /\ t.disable = Toggle!Enabled(t.module)
                /\ t.pc # "keep"
                /\ t.pc = "insert" => config[t.module] = "absent"

Checked ==
    \A c \in Clients :
        LET t == toggle[c]
        IN  t.pc # "idle" /\ t.disable /\ ~t.confirm /\ ~t.found =>
                \A d \in Toggle!DependentsOf(t.module) \ t.unread : Toggle!Enabled(d) => d \in moved[c]

ToggleInv ==
    /\ Toggle!TypeOK
    /\ \A c \in Clients : /\ toggle[c].pc # "idle" => toggle[c].module \in Modules
                          /\ toggle[c].pc # "dependents" => toggle[c].unread = {} /\ ~toggle[c].found
    /\ Current
    /\ Checked

(* A transaction of a setup is open only while there is no password.       *)
AuthInv ==
    /\ Auth!TypeOK
    /\ \A c \in Clients : attempt[c].pc # "idle" => attempt[c].password \in Passwords
    /\ \A c \in Clients : attempt[c].pc = "commit" =>
          settings = NONE /\ \A b \in Clients \ {c} : attempt[b].pc # "commit"
    /\ SessionsKnowPassword

Inv == HostInv /\ ToggleInv /\ AuthInv

-----------------------------------------------------------------------------
(* The password.                                                           *)

LEMMA AuthStepInv ==
    ASSUME AuthInv, NEW c \in Clients,
           (\E p \in Passwords : Auth!BeginSetup(c, p) \/ Auth!Login(c, p)) \/ Auth!Logout(c) \/ Auth!Steps(c)
    PROVE  AuthInv' /\ (settings # NONE => settings' = settings)
<1>1. CASE \E p \in Passwords : Auth!BeginSetup(c, p)
  <2>1. PICK p \in Passwords :
          /\ settings = NONE /\ attempt' = [attempt EXCEPT ![c] = [pc |-> "insert", password |-> p]]
          /\ UNCHANGED <<settings, session>>
    BY <1>1 DEF Auth!BeginSetup
  <2> QED
    BY <2>1 DEF AuthInv, Auth!TypeOK, SessionsKnowPassword, Auth!SessionsKnowPassword
<1>2. CASE (\E p \in Passwords : Auth!Login(c, p)) \/ Auth!Logout(c)
  <2>1. /\ UNCHANGED <<settings, attempt>>
        /\ \E s \in {NONE, settings} : session' = [session EXCEPT ![c] = s]
    BY <1>2 DEF Auth!Login, Auth!Logout
  <2> QED
    BY <2>1 DEF AuthInv, Auth!TypeOK, SessionsKnowPassword, Auth!SessionsKnowPassword
<1>3. CASE Auth!InsertSettings(c)
  <2>1. /\ attempt[c].pc = "insert" /\ \A b \in Clients : attempt[b].pc # "commit"
        /\ UNCHANGED <<settings, session>>
    BY <1>3 DEF Auth!InsertSettings
  <2>2. CASE settings = NONE
    <3>1. attempt' = [attempt EXCEPT ![c] = [attempt[c] EXCEPT !.pc = "commit"]]
      BY <1>3, <2>2 DEF Auth!InsertSettings
    <3> QED
      BY <2>1, <2>2, <3>1 DEF AuthInv, Auth!TypeOK, SessionsKnowPassword, Auth!SessionsKnowPassword
  <2>3. CASE settings # NONE
    <3>1. attempt' = [attempt EXCEPT ![c] = Auth!NoAttempt]
      BY <1>3, <2>3 DEF Auth!InsertSettings
    <3> QED
      BY <2>1, <3>1 DEF AuthInv, Auth!TypeOK, Auth!NoAttempt, SessionsKnowPassword, Auth!SessionsKnowPassword
  <2> QED
    BY <2>2, <2>3
<1>4. CASE Auth!CommitSetup(c)
  <2>1. /\ attempt[c].pc = "commit" /\ settings' = attempt[c].password
        /\ attempt' = [attempt EXCEPT ![c] = Auth!NoAttempt] /\ UNCHANGED session
    BY <1>4 DEF Auth!CommitSetup
  <2>2. settings = NONE /\ \A b \in Clients \ {c} : attempt[b].pc # "commit"
    BY <2>1 DEF AuthInv
  <2>3. \A b \in Clients : session[b] = NONE
    BY <2>2 DEF AuthInv, SessionsKnowPassword, Auth!SessionsKnowPassword
  <2> QED
    BY <2>1, <2>2, <2>3 DEF AuthInv, Auth!TypeOK, Auth!NoAttempt, SessionsKnowPassword, Auth!SessionsKnowPassword
<1> QED
  BY <1>1, <1>2, <1>3, <1>4 DEF Auth!Steps

LEMMA AuthDropInv == ASSUME AuthInv, Auth!Drop PROVE AuthInv' /\ settings' = settings
BY DEF AuthInv, Auth!Drop, Auth!TypeOK, Auth!NoAttempt, SessionsKnowPassword, Auth!SessionsKnowPassword

-----------------------------------------------------------------------------
(* The toggles.                                                            *)

LEMMA IdleTyped == Toggle!Idle \in ToggleType
BY DEF Toggle!Idle, ToggleType

(* A step of one request that writes nothing concerns only that request.   *)
LEMMA OwnStep ==
    ASSUME ToggleInv, NEW c \in Clients, NEW t, toggle' = [toggle EXCEPT ![c] = t],
           UNCHANGED <<system, config>>, NEW new \in SUBSET Modules,
           moved' = [moved EXCEPT ![c] = new],
           t \in ToggleType,
           t.pc # "idle" => t.module \in Modules,
           t.pc # "dependents" => t.unread = {} /\ ~t.found,
           t.pc # "idle" /\ t.module \notin new =>
                /\ t.disable = Toggle!Enabled(t.module)
                /\ t.pc # "keep"
                /\ (t.pc = "insert" => config[t.module] = "absent"),
           t.pc # "idle" /\ t.disable /\ ~t.confirm /\ ~t.found =>
                \A d \in Toggle!DependentsOf(t.module) \ t.unread : Toggle!Enabled(d) => d \in new
    PROVE  ToggleInv'
<1>1. \A b \in Clients : /\ b # c => toggle'[b] = toggle[b] /\ moved'[b] = moved[b]
                         /\ b = c => toggle'[b] = t /\ moved'[b] = new
  BY DEF ToggleInv, Toggle!TypeOK
<1>2. Toggle!TypeOK'
  BY DEF ToggleInv, Toggle!TypeOK, ToggleType
<1>3. \A m : Toggle!Enabled(m)' = Toggle!Enabled(m) /\ Toggle!DependentsOf(m)' = Toggle!DependentsOf(m)
  BY DEF Toggle!Enabled, Toggle!DependentsOf
<1>4. Current'
  BY <1>1, <1>3 DEF ToggleInv, Current
<1>5. Checked'
  BY <1>1, <1>3 DEF ToggleInv, Checked
<1> QED
  BY <1>1, <1>2, <1>4, <1>5 DEF ToggleInv

LEMMA BeginInv ==
    ASSUME ToggleInv, NEW c \in Clients, NEW m \in Modules, NEW confirm \in BOOLEAN,
           Toggle!Begin(c, m, confirm)
    PROVE  ToggleInv'
<1> DEFINE disable == Toggle!Enabled(m)
           unread == IF disable THEN Toggle!DependentsOf(m) ELSE {}
           t == [pc |-> IF unread = {} THEN "select" ELSE "dependents",
                 module |-> m, confirm |-> confirm, disable |-> disable, unread |-> unread, found |-> FALSE]
           new == {}
<1>1. /\ toggle' = [toggle EXCEPT ![c] = t] /\ moved' = [moved EXCEPT ![c] = new]
      /\ UNCHANGED <<system, config>>
  BY DEF Toggle!Begin
<1>2. disable \in BOOLEAN /\ unread \in SUBSET Modules /\ (disable => unread = Toggle!DependentsOf(m))
  BY DEF Toggle!Enabled, Toggle!DependentsOf
<1>3. /\ t.module = m /\ t.disable = disable /\ t.unread = unread /\ t.found = FALSE
      /\ t.pc \in {"select", "dependents"} /\ (t.pc = "select" => t.unread = {})
      /\ t \in ToggleType
  <2> HIDE DEF disable, unread
  <2> QED
    BY <1>2 DEF ToggleType
<1>4. disable = Toggle!Enabled(m)
  OBVIOUS
<1>5. new \in SUBSET Modules
  OBVIOUS
<1> HIDE DEF disable, unread, t, new
<1>6. t.pc # "idle" /\ t.module \notin new =>
        /\ t.disable = Toggle!Enabled(t.module)
        /\ t.pc # "keep"
        /\ (t.pc = "insert" => config[t.module] = "absent")
  BY <1>3, <1>4
<1>7. t.pc # "idle" /\ t.disable /\ ~t.confirm /\ ~t.found =>
         \A d \in Toggle!DependentsOf(t.module) \ t.unread : Toggle!Enabled(d) => d \in new
  BY <1>2, <1>3
<1>8. (t.pc # "idle" => t.module \in Modules) /\ (t.pc # "dependents" => t.unread = {} /\ ~t.found)
  BY <1>3
<1> QED
  BY <1>1, <1>3, <1>5, <1>6, <1>7, <1>8, OwnStep

LEMMA ReadDependentInv == ASSUME ToggleInv, NEW c \in Clients, Toggle!ReadDependent(c) PROVE ToggleInv'
<1>1. PICK d \in toggle[c].unread :
        LET found == toggle[c].found \/ Toggle!Enabled(d)
            unread == toggle[c].unread \ {d}
        IN  toggle' = [toggle EXCEPT ![c] =
                CASE unread # {} -> [toggle[c] EXCEPT !.unread = unread, !.found = found]
                  [] unread = {} /\ found /\ ~toggle[c].confirm -> Toggle!Idle
                  [] OTHER -> [toggle[c] EXCEPT !.pc = "select", !.unread = {}, !.found = FALSE]]
  BY DEF Toggle!ReadDependent
<1> DEFINE s == toggle[c]
           found == s.found \/ Toggle!Enabled(d)
           unread == s.unread \ {d}
<1>2. /\ s.pc = "dependents" /\ UNCHANGED <<system, config>>
      /\ moved' = IF toggle'[c] = Toggle!Idle THEN [moved EXCEPT ![c] = {}] ELSE moved
  BY DEF Toggle!ReadDependent
<1>3. /\ s \in ToggleType
      /\ s.module \in Modules /\ moved \in [Clients -> SUBSET Modules]
      /\ toggle \in [Clients -> ToggleType]
  BY <1>2 DEF ToggleInv, Toggle!TypeOK, ToggleType
<1>4. /\ s.module \notin moved[c] => s.disable = Toggle!Enabled(s.module)
      /\ s.disable /\ ~s.confirm /\ ~s.found =>
            \A e \in Toggle!DependentsOf(s.module) \ s.unread : Toggle!Enabled(e) => e \in moved[c]
  BY <1>2 DEF ToggleInv, Current, Checked
<1>5. s.disable /\ ~s.confirm /\ ~found =>
         \A e \in Toggle!DependentsOf(s.module) \ unread : Toggle!Enabled(e) => e \in moved[c]
  BY <1>4
<1>6. found \in BOOLEAN /\ unread \in SUBSET Modules
  BY <1>3 DEF Toggle!Enabled, ToggleType
<1> DEFINE next == CASE unread # {} -> [s EXCEPT !.unread = unread, !.found = found]
                     [] unread = {} /\ found /\ ~s.confirm -> Toggle!Idle
                     [] OTHER -> [s EXCEPT !.pc = "select", !.unread = {}, !.found = FALSE]
<1>7. toggle' = [toggle EXCEPT ![c] = next] /\ toggle'[c] = next
  BY <1>1, <1>3
<1>8. CASE unread = {} /\ found /\ ~s.confirm
  <2>1. toggle' = [toggle EXCEPT ![c] = Toggle!Idle] /\ moved' = [moved EXCEPT ![c] = {}]
    BY <1>2, <1>7, <1>8
  <2>2. Toggle!Idle.pc = "idle" /\ Toggle!Idle.unread = {} /\ Toggle!Idle.found = FALSE
    BY DEF Toggle!Idle
  <2> QED
    BY <1>2, <2>1, <2>2, IdleTyped, OwnStep
<1>9. CASE ~(unread = {} /\ found /\ ~s.confirm)
  <2>1. next = IF unread # {} THEN [s EXCEPT !.unread = unread, !.found = found]
               ELSE [s EXCEPT !.pc = "select", !.unread = {}, !.found = FALSE]
    BY <1>9
  <2> HIDE DEF next, found, unread
  <2>2. /\ next.pc = (IF unread # {} THEN "dependents" ELSE "select")
        /\ next.unread = unread /\ next.found = (IF unread # {} THEN found ELSE FALSE)
        /\ next.module = s.module /\ next.disable = s.disable /\ next.confirm = s.confirm
        /\ next \in ToggleType
    BY <1>2, <1>3, <1>6, <2>1 DEF ToggleType
  <2>3. moved' = moved /\ moved' = [moved EXCEPT ![c] = moved[c]]
    <3>1. next # Toggle!Idle
      BY <2>2 DEF Toggle!Idle
    <3> QED
      BY <1>2, <1>3, <1>7, <3>1
  <2>4. next.disable /\ ~next.confirm /\ ~next.found =>
           \A e \in Toggle!DependentsOf(next.module) \ next.unread : Toggle!Enabled(e) => e \in moved[c]
    BY <1>5, <1>9, <2>2
  <2>5. (next.pc # "idle" => next.module \in Modules) /\ (next.pc # "dependents" => next.unread = {} /\ ~next.found)
    BY <1>3, <2>2
  <2>6. next.pc # "idle" /\ next.module \notin moved[c] =>
          /\ next.disable = Toggle!Enabled(next.module)
          /\ next.pc # "keep"
          /\ (next.pc = "insert" => config[next.module] = "absent")
    BY <1>4, <2>2
  <2>7. moved[c] \in SUBSET Modules
    BY <1>3
  <2> HIDE DEF s
  <2> QED
    BY <1>2, <1>7, <2>2, <2>3, <2>4, <2>5, <2>6, <2>7, OwnStep
<1> QED
  BY <1>8, <1>9

LEMMA SelectRowInv == ASSUME ToggleInv, NEW c \in Clients, Toggle!SelectRow(c) PROVE ToggleInv'
<1> DEFINE s == toggle[c]
           step == CASE config[s.module] = "absent" -> "insert"
                     [] Toggle!Enabled(s.module) = ~s.disable -> "keep"
                     [] OTHER -> "update"
           next == [s EXCEPT !.pc = step]
           new == moved[c]
<1>1. /\ s.pc = "select" /\ s \in ToggleType /\ s.module \in Modules /\ s.unread = {} /\ ~s.found
      /\ toggle \in [Clients -> ToggleType] /\ moved \in [Clients -> SUBSET Modules]
  BY DEF Toggle!SelectRow, ToggleInv, Toggle!TypeOK, ToggleType
<1>2. UNCHANGED <<system, config, moved>> /\ toggle' = [toggle EXCEPT ![c] = next]
  BY DEF Toggle!SelectRow
<1>3. /\ s.module \notin new => s.disable = Toggle!Enabled(s.module)
      /\ s.disable /\ ~s.confirm => \A d \in Toggle!DependentsOf(s.module) : Toggle!Enabled(d) => d \in new
  BY <1>1 DEF ToggleInv, Current, Checked
<1>4. /\ step \in {"insert", "keep", "update"} /\ (step = "insert" => config[s.module] = "absent")
      /\ s.module \notin new => step # "keep"
  BY <1>1, <1>3 DEF ToggleType
<1> HIDE DEF step
<1>5. /\ next.pc = step /\ next.module = s.module /\ next.disable = s.disable /\ next.confirm = s.confirm
      /\ next.unread = {} /\ ~next.found /\ next \in ToggleType
  BY <1>1, <1>4 DEF ToggleType
<1>6. moved' = [moved EXCEPT ![c] = new] /\ new \in SUBSET Modules
  BY <1>1, <1>2
<1>7. next.pc # "idle" /\ next.module \notin new =>
        /\ next.disable = Toggle!Enabled(next.module)
        /\ next.pc # "keep"
        /\ (next.pc = "insert" => config[next.module] = "absent")
  BY <1>3, <1>4, <1>5
<1>8. next.pc # "idle" /\ next.disable /\ ~next.confirm /\ ~next.found =>
         \A d \in Toggle!DependentsOf(next.module) \ next.unread : Toggle!Enabled(d) => d \in new
  BY <1>3, <1>5
<1>9. (next.pc # "idle" => next.module \in Modules) /\ (next.pc # "dependents" => next.unread = {} /\ ~next.found)
  BY <1>1, <1>5
<1> HIDE DEF s, next, new
<1> QED
  BY <1>2, <1>5, <1>6, <1>7, <1>8, <1>9, OwnStep

(* A toggle that writes is what the others in flight have to know about.   *)
LEMMA CommitInv ==
    ASSUME ToggleInv, NEW c \in Clients, Toggle!Commit(c)
    PROVE  /\ ToggleInv'
           /\ \A m \in Modules : Toggle!Enabled(m) /\ ~Toggle!Enabled(m)' =>
                 /\ toggle[c].module = m
                 /\ \/ toggle[c].confirm
                    \/ \A d \in Toggle!DependentsOf(m) : Toggle!Enabled(d) => d \in moved[c]
<1> DEFINE t == toggle[c]
           m == t.module
           written == t.pc = "update" \/ (t.pc = "insert" /\ config[m] = "absent")
           to == IF t.disable THEN "off" ELSE "on"
<1>1. /\ t.pc \in {"insert", "update", "keep"} /\ t \in ToggleType /\ m \in Modules
      /\ t.unread = {} /\ ~t.found
      /\ toggle \in [Clients -> ToggleType] /\ moved \in [Clients -> SUBSET Modules]
      /\ config \in [Modules -> {"absent", "on", "off"}]
  BY DEF Toggle!Commit, ToggleInv, Toggle!TypeOK, ToggleType
<1>2. /\ config' = IF written THEN [config EXCEPT ![m] = to] ELSE config
      /\ moved' = [b \in Clients |->
            CASE b = c -> {}
              [] b # c /\ written /\ toggle[b].pc # "idle" -> moved[b] \cup {m}
              [] OTHER -> moved[b]]
      /\ toggle' = [toggle EXCEPT ![c] = Toggle!Idle] /\ system' = system
  BY DEF Toggle!Commit
<1>3. written \in BOOLEAN
  OBVIOUS
<1> HIDE DEF written
<1>4. /\ \A n \in Modules : n # m \/ ~written => config'[n] = config[n]
      /\ config' \in [Modules -> {"absent", "on", "off"}]
      /\ config'[m] = "off" => config[m] = "off" \/ t.disable
  BY <1>1, <1>2
<1>5. \A b \in Clients : b # c =>
        /\ toggle'[b] = toggle[b]
        /\ moved[b] \subseteq moved'[b] /\ moved'[b] \in SUBSET Modules
        /\ toggle[b].pc # "idle" /\ written => m \in moved'[b]
  BY <1>1, <1>2, <1>3
<1>6. toggle'[c] = Toggle!Idle /\ moved'[c] = {}
  BY <1>1, <1>2
<1>7. Toggle!Idle.pc = "idle" /\ Toggle!Idle.unread = {} /\ Toggle!Idle.found = FALSE
  BY DEF Toggle!Idle
<1>8. Toggle!TypeOK'
  <2>1. moved' \in [Clients -> SUBSET Modules] /\ toggle' \in [Clients -> ToggleType]
    BY <1>1, <1>2, <1>5, <1>6, IdleTyped
  <2> QED
    BY <1>4, <2>1 DEF Toggle!TypeOK, ToggleType
<1>9. \A n \in Modules : n # m \/ ~written => (Toggle!Enabled(n)' <=> Toggle!Enabled(n))
  BY <1>4 DEF Toggle!Enabled
<1>10. \A n : Toggle!DependentsOf(n)' = Toggle!DependentsOf(n) /\ Toggle!DependentsOf(n) \subseteq Modules
  BY <1>2 DEF Toggle!DependentsOf
<1>11. Current'
  <2> SUFFICES ASSUME NEW b \in Clients, toggle'[b].pc # "idle", toggle'[b].module \notin moved'[b]
               PROVE  /\ toggle'[b].disable = (config'[toggle'[b].module] # "off")
                      /\ toggle'[b].pc # "keep"
                      /\ toggle'[b].pc = "insert" => config'[toggle'[b].module] = "absent"
    BY DEF Current, Toggle!Enabled
  <2>1. b # c /\ toggle'[b] = toggle[b] /\ toggle[b].module \in Modules /\ toggle[b].module \notin moved[b]
    BY <1>5, <1>6, <1>7 DEF ToggleInv
  <2>2. toggle[b].module # m \/ ~written
    BY <1>5, <2>1
  <2>3. /\ toggle[b].disable = (config[toggle[b].module] # "off") /\ toggle[b].pc # "keep"
        /\ toggle[b].pc = "insert" => config[toggle[b].module] = "absent"
    BY <2>1 DEF ToggleInv, Current, Toggle!Enabled
  <2>4. config'[toggle[b].module] = config[toggle[b].module]
    BY <1>4, <2>1, <2>2
  <2> QED
    BY <2>1, <2>3, <2>4
<1>12. Checked'
  <2>1. ASSUME NEW b \in Clients, toggle'[b].pc # "idle", toggle'[b].disable, ~toggle'[b].confirm,
               ~toggle'[b].found, NEW d \in Toggle!DependentsOf(toggle[b].module) \ toggle[b].unread,
               Toggle!Enabled(d)'
        PROVE  d \in moved'[b]
    <3>1. b # c /\ toggle'[b] = toggle[b] /\ d \in Modules
      BY <1>5, <1>6, <1>7, <1>10, <2>1
    <3>2. d # m \/ ~written => Toggle!Enabled(d)
      BY <1>9, <2>1, <3>1
    <3>3. Toggle!Enabled(d) => d \in moved[b]
      BY <2>1, <3>1 DEF ToggleInv, Checked
    <3> QED
      BY <1>5, <2>1, <3>1, <3>2, <3>3
  <2>2. \A b \in Clients : toggle'[b].pc # "idle" => toggle'[b] = toggle[b]
    BY <1>5, <1>6, <1>7
  <2> SUFFICES ASSUME NEW b \in Clients, toggle'[b].pc # "idle", toggle'[b].disable, ~toggle'[b].confirm,
                      ~toggle'[b].found,
                      NEW d \in Toggle!DependentsOf(toggle[b].module)' \ toggle'[b].unread, Toggle!Enabled(d)'
               PROVE  d \in moved'[b]
    BY DEF Checked
  <2>3. toggle'[b] = toggle[b]
    BY <2>2
  <2>4. d \in Toggle!DependentsOf(toggle[b].module) \ toggle[b].unread
    BY <1>2, <2>3 DEF Toggle!DependentsOf
  <2> QED
    BY <2>1, <2>4
<1>13. ToggleInv'
  <2> SUFFICES ASSUME NEW b \in Clients
               PROVE  /\ toggle'[b].pc # "idle" => toggle'[b].module \in Modules
                      /\ toggle'[b].pc # "dependents" => toggle'[b].unread = {} /\ ~toggle'[b].found
    BY <1>8, <1>11, <1>12 DEF ToggleInv
  <2> QED
    BY <1>5, <1>6, <1>7 DEF ToggleInv
<1>14. ASSUME NEW n \in Modules, Toggle!Enabled(n), ~Toggle!Enabled(n)'
       PROVE  m = n /\ (t.confirm \/ \A d \in Toggle!DependentsOf(n) : Toggle!Enabled(d) => d \in moved[c])
  <2>1. n = m
    BY <1>9, <1>14
  <2>2. t.disable
    BY <1>4, <1>14, <2>1 DEF Toggle!Enabled
  <2> QED
    BY <1>1, <2>1, <2>2 DEF ToggleInv, Checked
<1> QED
  BY <1>13, <1>14

LEMMA ToggleDropInv == ASSUME ToggleInv, Toggle!Drop, UNCHANGED system PROVE ToggleInv' /\ config' = config
<1>1. /\ toggle' = [c \in Clients |-> Toggle!Idle] /\ moved' = [c \in Clients |-> {}] /\ config' = config
  BY DEF Toggle!Drop
<1>2. Toggle!Idle.pc = "idle" /\ Toggle!Idle.unread = {} /\ Toggle!Idle.found = FALSE
  BY DEF Toggle!Idle
<1>3. Toggle!TypeOK'
  BY <1>1, IdleTyped DEF ToggleInv, Toggle!TypeOK, ToggleType
<1> QED
  BY <1>1, <1>2, <1>3 DEF ToggleInv, Current, Checked

-----------------------------------------------------------------------------
(* Load orders: permutations of the modules.                               *)

(* The host's instance has its own name for Cardinality.                   *)
LEMMA SameCardinality == Host!Cardinality(Modules) = Cardinality(Modules)
BY Zenon DEF Host!Cardinality, Cardinality

LEMMA OrderSurjective ==
    ASSUME NEW o \in Host!LoadOrders
    PROVE  /\ o \in Seq(Modules) /\ Len(o) = Cardinality(Modules)
           /\ \A i, j \in 1..Len(o) : o[i] = o[j] => i = j
           /\ {o[i] : i \in 1..Len(o)} = Modules
<1> DEFINE n == Cardinality(Modules)
<1>1. n \in Nat /\ IsFiniteSet(1..n) /\ Cardinality(1..n) = n
  BY ConstantsAssumption, FS_CardinalityType, FS_Interval, SMT
<1>2. o \in [1..n -> Modules] /\ \A i, j \in 1..n : o[i] = o[j] => i = j
  BY SameCardinality DEF Host!LoadOrders, Host!Injection, Host!IsInjective
<1>3. o \in Injection(1..n, Modules)
  BY <1>2 DEF Injection, IsInjective
<1>4. o \in Surjection(1..n, Modules)
  BY <1>1, <1>3, ConstantsAssumption, FS_Injection
<1>5. o \in Seq(Modules) /\ Len(o) = n
  BY <1>1, <1>2
<1> QED
  BY <1>1, <1>2, <1>4, <1>5 DEF Surjection

(* The batches of static_order(): there are at most as many as modules.    *)
N == Cardinality(Modules)

LEMMA NumberOfModules == N \in Nat /\ IsFiniteSet(Modules)
BY ConstantsAssumption, FS_CardinalityType DEF N

(* The recursion defines a function: up to 0, and one further each time.   *)
LEMMA DoneExists ==
    \E d : d = [n \in 0..N |-> IF n = 0 THEN {} ELSE {m \in Modules : Host!Predecessors(m) \subseteq d[n - 1]}]
<1> DEFINE Is(d, k) == d = [n \in 0..k |-> IF n = 0 THEN {}
                                           ELSE {m \in Modules : Host!Predecessors(m) \subseteq d[n - 1]}]
           X == {k \in Nat : \E d : Is(d, k)}
<1>1. 0 \in X
  <2> DEFINE d == [n \in 0..0 |-> {}]
  <2>1. d = [n \in 0..0 |-> IF n = 0 THEN {} ELSE {m \in Modules : Host!Predecessors(m) \subseteq d[n - 1]}]
    OBVIOUS
  <2>2. Is(d, 0)
    BY <2>1
  <2> HIDE DEF d, Is
  <2> QED BY <2>2
<1>2. ASSUME NEW k \in Nat, k \in X
      PROVE  k + 1 \in X
  <2>1. PICK d : Is(d, k)
    BY <1>2
  <2> DEFINE e == [n \in 0..(k + 1) |-> IF n = 0 THEN {}
                                        ELSE {m \in Modules : Host!Predecessors(m) \subseteq d[n - 1]}]
  <2>2. \A n \in 0..k : n \in 0..(k + 1) /\ e[n] = d[n]
    <3>1. \A n \in 0..k : d[n] = IF n = 0 THEN {} ELSE {m \in Modules : Host!Predecessors(m) \subseteq d[n - 1]}
      BY <2>1
    <3>2. \A n \in 0..k : n \in 0..(k + 1)
      OBVIOUS
    <3>3. \A n \in 0..k : e[n] = IF n = 0 THEN {} ELSE {m \in Modules : Host!Predecessors(m) \subseteq d[n - 1]}
      BY <3>2
    <3> HIDE DEF e
    <3> QED BY <3>1, <3>2, <3>3
  <2>3. \A n \in 0..(k + 1) : n # 0 => n - 1 \in 0..k
    OBVIOUS
  <2>4. e = [n \in 0..(k + 1) |-> IF n = 0 THEN {}
                                  ELSE {m \in Modules : Host!Predecessors(m) \subseteq e[n - 1]}]
    BY <2>2, <2>3
  <2>5. Is(e, k + 1)
    BY <2>4
  <2> HIDE DEF e, Is
  <2> QED BY <2>5
<1>3. \A k \in Nat : k \in X
  <2> HIDE DEF X
  <2> QED BY <1>1, <1>2, NatInduct
<1> QED BY <1>3, NumberOfModules

LEMMA DoneIs ==
    /\ Host!Done[0] = {}
    /\ \A n \in 1..N : Host!Done[n] = {m \in Modules : Host!Predecessors(m) \subseteq Host!Done[n - 1]}
<1> DEFINE D == Host!Done
<1>1. D = [n \in 0..N |-> IF n = 0 THEN {} ELSE {m \in Modules : Host!Predecessors(m) \subseteq D[n - 1]}]
  <2>1. D = CHOOSE d : d = [n \in 0..N |-> IF n = 0 THEN {} ELSE {m \in Modules : Host!Predecessors(m) \subseteq d[n - 1]}]
    BY SameCardinality DEF Host!Done, N
  <2> HIDE DEF D
  <2> QED BY <2>1, DoneExists
<1> HIDE DEF D
<1>2. D[0] = {}
  BY <1>1, NumberOfModules
<1>3. ASSUME NEW n \in 1..N
      PROVE  D[n] = {m \in Modules : Host!Predecessors(m) \subseteq D[n - 1]}
  <2>1. n \in 0..N /\ n # 0
    BY NumberOfModules
  <2> QED BY <1>1, <2>1
<1> QED BY <1>2, <1>3 DEF D

(* A batch keeps what was done before it.                                  *)
LEMMA DoneGrows ==
    \A i, j \in 0..N : i <= j => Host!Done[i] \subseteq Host!Done[j] /\ Host!Done[j] \subseteq Modules
<1> DEFINE D(n) == Host!Done[n]
           X == {n \in Nat : n + 1 <= N => D(n) \subseteq D(n + 1)}
<1>1. 0 \in X
  BY DoneIs
<1>2. ASSUME NEW n \in Nat, n \in X
      PROVE  n + 1 \in X
  <2> SUFFICES ASSUME n + 2 <= N PROVE D(n + 1) \subseteq D(n + 2)
    OBVIOUS
  <2>1. /\ D(n + 1) = {m \in Modules : Host!Predecessors(m) \subseteq D(n)}
        /\ D(n + 2) = {m \in Modules : Host!Predecessors(m) \subseteq D(n + 1)}
    <3>1. n + 1 \in 1..N /\ n + 2 \in 1..N /\ (n + 1) - 1 = n /\ (n + 2) - 1 = n + 1
      BY NumberOfModules
    <3> QED BY <3>1, DoneIs
  <2>2. D(n) \subseteq D(n + 1)
    BY <1>2, NumberOfModules
  <2> QED BY <2>1, <2>2
<1>3. \A n \in Nat : n \in X
  <2> HIDE DEF X
  <2> QED BY <1>1, <1>2, NatInduct
<1> DEFINE Y == {k \in Nat : \A i \in 0..N : i + k <= N => D(i) \subseteq D(i + k)}
<1>4. 0 \in Y
  OBVIOUS
<1>5. ASSUME NEW k \in Nat, k \in Y
      PROVE  k + 1 \in Y
  <2> SUFFICES ASSUME NEW i \in 0..N, i + (k + 1) <= N PROVE D(i) \subseteq D(i + (k + 1))
    OBVIOUS
  <2>1. i + k \in Nat /\ i + k <= N /\ (i + k) + 1 = i + (k + 1)
    BY NumberOfModules
  <2>2. D(i) \subseteq D(i + k)
    BY <1>5, <2>1
  <2>3. D(i + k) \subseteq D((i + k) + 1)
    <3>1. i + k \in X
      BY <1>3, <2>1
    <3> QED BY <2>1, <3>1
  <2> QED BY <2>1, <2>2, <2>3
<1>6. \A k \in Nat : k \in Y
  <2> HIDE DEF Y
  <2> QED BY <1>4, <1>5, NatInduct
<1>7. ASSUME NEW i \in 0..N, NEW j \in 0..N, i <= j
      PROVE  D(i) \subseteq D(j) /\ D(j) \subseteq Modules
  <2>1. j - i \in Nat /\ i + (j - i) = j
    BY <1>7
  <2>2. j - i \in Y
    BY <1>6, <2>1
  <2>3. D(i) \subseteq D(j)
    BY <2>1, <2>2
  <2>4. D(j) \subseteq Modules
    BY DoneIs, NumberOfModules
  <2> QED BY <2>3, <2>4
<1> QED BY <1>7

(* Without a cycle every module has a batch, after those of what it needs. *)
LEMMA Batches ==
    ASSUME ~Host!Cycle, NEW m \in Modules
    PROVE  /\ Host!Batch(m) \in 1..N
           /\ \A p \in Host!Predecessors(m) : p \in Modules /\ Host!Batch(p) < Host!Batch(m)
<1> DEFINE D(n) == Host!Done[n]
           b(k) == Host!Batch(k)
<1>1. D(N) = Modules
  BY SameCardinality DEF Host!Cycle, N
<1>2. ASSUME NEW k \in Modules
      PROVE  b(k) \in 1..N /\ k \in D(b(k)) /\ k \notin D(b(k) - 1)
  <2> DEFINE T == {n \in 0..N : k \in D(n)}
  <2>1. T \in SUBSET Nat /\ T # {}
    BY <1>1, NumberOfModules
  <2>2. PICK n \in T : \A j \in T : n <= j
    <3> HIDE DEF T
    <3> QED BY <2>1, NatMin
  <2>3. n # 0 /\ n \in 1..N
    BY <2>2, DoneIs, NumberOfModules
  <2>4. n - 1 \in 0..N /\ ~(n <= n - 1)
    BY <2>3, NumberOfModules
  <2>5. k \in D(n) \ D(n - 1)
    BY <2>2, <2>4
  <2>6. Host!Batch(k) = CHOOSE i \in 1..N : k \in D(i) \ D(i - 1)
    BY SameCardinality DEF Host!Batch, N
  <2> QED BY <2>3, <2>5, <2>6
<1>3. ASSUME NEW p \in Host!Predecessors(m)
      PROVE  p \in Modules /\ b(p) < b(m)
  <2>1. p \in Modules
    BY DEF Host!Predecessors
  <2>2. /\ b(m) \in 1..N /\ m \in D(b(m))
        /\ b(p) \in 1..N /\ p \notin D(b(p) - 1)
    BY <1>2, <2>1
  <2> HIDE DEF b
  <2>3. p \in D(b(m) - 1)
    BY <2>2, DoneIs
  <2>4. b(m) - 1 \in 0..N /\ b(p) - 1 \in 0..N
    BY <2>2, NumberOfModules
  <2>5. ~(b(m) - 1 <= b(p) - 1)
    BY <2>2, <2>3, <2>4, DoneGrows
  <2> QED BY <2>1, <2>2, <2>5
<1> QED BY <1>2, <1>3

-----------------------------------------------------------------------------
(* The process.                                                            *)

(* A process that is not up has nothing.                                   *)
LEMMA ExitInv == ASSUME HostInv, NEW how \in {"down", "crashed"}, Host!Exit(how) PROVE HostInv' /\ system' = system
<1>1. /\ phase' = how /\ order' = <<>> /\ registry' = [i \in Interfaces |-> NONE]
      /\ injected' = {} /\ mounted' = {} /\ tasks' = [m \in Modules |-> 0] /\ system' = system
  BY DEF Host!Exit
<1>2. Loaded' = {}
  BY <1>1 DEF Loaded
<1>3. Wiring'
  BY <1>1, <1>2 DEF Wiring
<1>4. Cardinality(Modules) \in Nat
  BY ConstantsAssumption, FS_CardinalityType
<1> QED
  BY <1>1, <1>3, <1>4 DEF HostInv

LEMMA ImportInv == ASSUME HostInv, Host!Import PROVE HostInv' /\ system' = system
<1>1. CASE Host!Exit("crashed")
  BY <1>1, ExitInv
<1>2. CASE ~Host!Exit("crashed")
  <2>1. /\ phase = "down" /\ ~Host!ProvidesConflict /\ phase' = "loading" /\ order' \in Host!LoadOrders
        /\ UNCHANGED <<system, registry, injected, mounted, tasks>>
    BY <1>2 DEF Host!Import
  <2>2. Loaded = {} /\ Loaded' = {}
    BY <2>1, OrderSurjective DEF Loaded, Waiting
  <2>3. Wiring'
    BY <2>1, <2>2 DEF HostInv, Wiring
  <2>4. /\ order' \in Seq(Modules) /\ Len(order') <= Cardinality(Modules)
        /\ \A i, j \in 1..Len(order') : order'[i] = order'[j] => i = j
    BY <2>1, OrderSurjective, ConstantsAssumption, FS_CardinalityType
  <2>5. ~Host!ProvidesConflict'
    BY <2>1 DEF Host!ProvidesConflict
  <2> QED
    BY <2>1, <2>3, <2>4, <2>5 DEF HostInv
<1> QED
  BY <1>1, <1>2

(* Taking the head off a list without duplicates takes it off its elements.*)
LEMMA TailWaits ==
    ASSUME NEW o \in Seq(Modules), o # <<>>, \A i, j \in 1..Len(o) : o[i] = o[j] => i = j
    PROVE  /\ Tail(o) \in Seq(Modules) /\ Len(Tail(o)) = Len(o) - 1 /\ Head(o) \in Modules
           /\ \A i, j \in 1..Len(Tail(o)) : Tail(o)[i] = Tail(o)[j] => i = j
           /\ {Tail(o)[i] : i \in 1..Len(Tail(o))} = {o[i] : i \in 1..Len(o)} \ {Head(o)}
           /\ Head(o) \in {o[i] : i \in 1..Len(o)}
<1>1. /\ Tail(o) \in Seq(Modules) /\ Len(Tail(o)) = Len(o) - 1 /\ Head(o) = o[1]
      /\ Len(o) \in Nat /\ Len(o) >= 1
      /\ \A i \in 1..Len(Tail(o)) : Tail(o)[i] = o[i + 1] /\ i + 1 \in 1..Len(o)
  OBVIOUS
<1>2. \A i \in 1..Len(o) : i # 1 => i - 1 \in 1..Len(Tail(o)) /\ Tail(o)[i - 1] = o[i]
  BY <1>1
<1>3. {Tail(o)[i] : i \in 1..Len(Tail(o))} \subseteq {o[i] : i \in 1..Len(o)} \ {Head(o)}
  BY <1>1
<1>4. {o[i] : i \in 1..Len(o)} \ {Head(o)} \subseteq {Tail(o)[i] : i \in 1..Len(Tail(o))}
  BY <1>1, <1>2
<1>5. \A i, j \in 1..Len(Tail(o)) : Tail(o)[i] = Tail(o)[j] => i = j
  BY <1>1
<1> QED
  BY <1>1, <1>3, <1>4, <1>5

LEMMA LoadModuleInv == ASSUME HostInv, Host!LoadModule PROVE HostInv' /\ system' = system
<1> DEFINE m == Head(order)
           provided == system.provides[m]
<1>1. CASE Host!Exit("crashed")
  BY <1>1, ExitInv
<1>2. CASE ~Host!Exit("crashed")
  <2>1. /\ phase = "loading" /\ order # <<>>
        /\ \A i \in system.requires[m] : registry[i] # NONE
        /\ \A i \in provided : registry[i] = NONE
        /\ order' = Tail(order)
        /\ injected' = injected \cup {<<m, i, registry[i]>> : i \in system.requires[m]}
        /\ registry' = [i \in Interfaces |-> IF i \in provided THEN m ELSE registry[i]]
        /\ mounted' = IF m \in system.broken THEN mounted ELSE mounted \cup {m}
        /\ tasks' = IF m \in system.collectors /\ system.loopAtImport
                    THEN [tasks EXCEPT ![m] = @ + 1] ELSE tasks
        /\ UNCHANGED <<system, phase>>
    BY <1>2 DEF Host!LoadModule
  <2>2. /\ order' \in Seq(Modules) /\ Len(order') <= Cardinality(Modules)
        /\ \A i, j \in 1..Len(order') : order'[i] = order'[j] => i = j
        /\ m \in Modules /\ m \notin Loaded /\ Loaded' = Loaded \cup {m} /\ Loaded \subseteq Modules
    <3>1. Cardinality(Modules) \in Nat /\ Len(order) \in Nat
      BY ConstantsAssumption, FS_CardinalityType DEF HostInv
    <3>2. /\ Tail(order) \in Seq(Modules) /\ Len(Tail(order)) = Len(order) - 1
          /\ \A i, j \in 1..Len(Tail(order)) : Tail(order)[i] = Tail(order)[j] => i = j
          /\ Waiting' = Waiting \ {m} /\ m \in Waiting /\ m \in Modules
      <4>1. /\ Waiting = {order[i] : i \in 1..Len(order)} /\ order \in Seq(Modules)
            /\ Waiting' = {Tail(order)[i] : i \in 1..Len(Tail(order))}
        BY <2>1 DEF HostInv, Waiting
      <4>2. \A i, j \in 1..Len(order) : order[i] = order[j] => i = j
        BY DEF HostInv
      <4>3. m = Head(order)
        OBVIOUS
      <4> HIDE DEF m
      <4> QED
        BY <2>1, <4>1, <4>2, <4>3, TailWaits
    <3>3. Loaded = Modules \ Waiting /\ Loaded' = Modules \ Waiting'
      BY <2>1 DEF Loaded
    <3> HIDE DEF m
    <3> QED
      BY <2>1, <3>1, <3>2, <3>3 DEF HostInv
  <2> HIDE DEF m
  <2>3. /\ system.provides \in [Modules -> SUBSET Interfaces] /\ system.requires \in [Modules -> SUBSET Interfaces]
    BY ConstantsAssumption DEF HostInv, Host!SystemType
  <2>4. \A p, q \in Modules, i \in Interfaces : i \in system.provides[p] /\ i \in system.provides[q] => p = q
    BY <2>1 DEF HostInv, Host!ProvidesConflict
  <2>5. \A i \in Interfaces :
          \/ registry'[i] \in Loaded' /\ i \in system'.provides[registry'[i]]
          \/ registry'[i] = NONE /\ \A p \in Loaded' : i \notin system'.provides[p]
    BY <2>1, <2>2, <2>3 DEF HostInv, Wiring
  <2>6. injected' = {t \in Loaded' \X Interfaces \X Modules :
                        t[2] \in system'.requires[t[1]] /\ t[2] \in system'.provides[t[3]]}
    <3>1. \A i \in system.requires[m] : i \in Interfaces /\ registry[i] \in Modules /\ i \in system.provides[registry[i]]
      BY <2>1, <2>2, <2>3 DEF HostInv, Wiring
    <3>2. \A i \in system.requires[m], p \in Modules : i \in system.provides[p] => p = registry[i]
      BY <2>4, <3>1
    <3>3. {<<m, i, registry[i]>> : i \in system.requires[m]}
            = {t \in {m} \X Interfaces \X Modules : t[2] \in system.requires[t[1]] /\ t[2] \in system.provides[t[3]]}
      BY <2>2, <2>3, <3>1, <3>2
    <3> QED
      BY <2>1, <2>2, <3>3 DEF HostInv, Wiring
  <2>7. mounted' = Loaded' \ system'.broken
    BY <2>1, <2>2 DEF HostInv, Wiring
  <2>8. tasks' = [k \in Modules |->
                    IF k \in system'.collectors
                    THEN (IF system'.loopAtImport /\ k \in Loaded' THEN 1 ELSE 0)
                            + (IF phase' = "serving" THEN 1 ELSE 0)
                    ELSE 0]
    <3>1. /\ m \in Modules /\ m \notin Loaded /\ \A k \in Modules : k \in Loaded' <=> k \in Loaded \/ k = m
          /\ phase = "loading" /\ UNCHANGED <<system, phase>>
      BY <2>1, <2>2
    <3>2. tasks = [k \in Modules |->
                     IF k \in system.collectors
                     THEN (IF system.loopAtImport /\ k \in Loaded THEN 1 ELSE 0)
                             + (IF phase = "serving" THEN 1 ELSE 0)
                     ELSE 0]
      BY DEF HostInv, Wiring
    <3>3. \A k \in Modules : tasks[k] = IF k \in system.collectors /\ system.loopAtImport /\ k \in Loaded THEN 1 ELSE 0
      BY <3>1, <3>2
    <3>4. tasks' = [k \in Modules |-> IF k \in system.collectors /\ system.loopAtImport /\ (k \in Loaded \/ k = m)
                                      THEN 1 ELSE 0]
      BY <2>1, <3>1, <3>2, <3>3
    <3> QED
      BY <3>1, <3>4
  <2>9. Wiring'
    BY <2>5, <2>6, <2>7, <2>8 DEF Wiring
  <2>10. registry' \in [Interfaces -> Modules \cup {NONE}] /\ ~Host!ProvidesConflict'
    BY <2>1, <2>2 DEF HostInv, Host!ProvidesConflict
  <2> QED
    BY <2>1, <2>2, <2>9, <2>10 DEF HostInv
<1> QED
  BY <1>1, <1>2

LEMMA LifespanInv == ASSUME HostInv, Host!Start \/ Host!Shutdown PROVE HostInv' /\ system' = system
<1>1. /\ order = <<>> /\ UNCHANGED <<system, order, registry, injected, mounted>>
      /\ phase \in {"loading", "serving"} /\ phase' \in {"serving", "closing"}
  BY DEF Host!Start, Host!Shutdown, HostInv
<1>2. Loaded = Modules /\ Loaded' = Modules
  BY <1>1 DEF Loaded, Waiting
<1>3. tasks' = [m \in Modules |->
                  IF m \in system.collectors
                  THEN (IF system.loopAtImport /\ m \in Modules THEN 1 ELSE 0)
                          + (IF phase' = "serving" THEN 1 ELSE 0)
                  ELSE 0]
  <2>1. CASE Host!Start
    BY <1>2, <2>1 DEF Host!Start, HostInv, Wiring
  <2>2. CASE Host!Shutdown
    BY <1>2, <2>2 DEF Host!Shutdown, HostInv, Wiring
  <2> QED
    BY <2>1, <2>2
<1>4. Wiring'
  BY <1>1, <1>2, <1>3 DEF HostInv, Wiring
<1>5. ~Host!ProvidesConflict'
  BY <1>1 DEF HostInv, Host!ProvidesConflict
<1> QED
  BY <1>1, <1>4, <1>5 DEF HostInv

-----------------------------------------------------------------------------
(* What loads, and why nothing else crashes.                               *)

(* A ranking by requirements is a batching without a cycle, and the        *)
(* batches are such a ranking.                                             *)
LEMMA LoadableIff ==
    ASSUME system \in Host!SystemType
    PROVE  Host!Loadable <=> ~(Host!ProvidesConflict \/ Host!Unsatisfied \/ Host!Cycle)
<1> DEFINE D(n) == Host!Done[n]
           Ranks(r) == \A m \in Modules : \A i \in system.requires[m] :
                          \E p \in Modules : i \in system.provides[p] /\ r[p] < r[m]
<1>1. system.provides \in [Modules -> SUBSET Interfaces] /\ system.requires \in [Modules -> SUBSET Interfaces]
  BY DEF Host!SystemType
<1>2. Host!ProvidesConflict <=>
        \E i \in Interfaces : \E m, n \in Modules : i \in system.provides[m] /\ i \in system.provides[n] /\ m # n
  BY <1>1 DEF Host!ProvidesConflict
<1>3. Host!Unsatisfied <=>
        \E m \in Modules : \E i \in system.requires[m] : \A p \in Modules : i \notin system.provides[p]
  BY DEF Host!Unsatisfied
<1>4. Host!Loadable <=> ~Host!ProvidesConflict /\ \E r \in [Modules -> 1..N] : Ranks(r)
  BY <1>2, SameCardinality DEF Host!Loadable, N
<1>5. ASSUME ~Host!ProvidesConflict, NEW r \in [Modules -> 1..N], Ranks(r)
      PROVE  ~Host!Cycle
  <2>1. ASSUME NEW m \in Modules, NEW p \in Host!Predecessors(m)
        PROVE  p \in Modules /\ r[p] < r[m]
    <3>1. PICK i \in Interfaces : i \in system.provides[p] /\ i \in system.requires[m] /\ p \in Modules
      BY <1>1, <2>1 DEF Host!Predecessors
    <3>2. PICK q \in Modules : i \in system.provides[q] /\ r[q] < r[m]
      BY <1>5, <3>1
    <3>3. p = q
      BY <1>2, <1>5, <3>1, <3>2
    <3> QED BY <3>1, <3>2, <3>3
  <2> DEFINE X == {n \in Nat : n <= N => \A m \in Modules : r[m] <= n => m \in D(n)}
  <2>2. 0 \in X
    BY NumberOfModules
  <2>3. ASSUME NEW n \in Nat, n \in X
        PROVE  n + 1 \in X
    <3> SUFFICES ASSUME n + 1 <= N, NEW m \in Modules, r[m] <= n + 1 PROVE m \in D(n + 1)
      OBVIOUS
    <3>1. n <= N /\ n + 1 \in 1..N /\ (n + 1) - 1 = n /\ r[m] \in Nat
      BY NumberOfModules
    <3>2. ASSUME NEW p \in Host!Predecessors(m)
          PROVE  p \in D(n)
      <4>1. p \in Modules /\ r[p] < r[m] /\ r[p] \in Nat
        BY <2>1, NumberOfModules
      <4>2. r[p] <= n
        BY <3>1, <4>1
      <4> QED BY <2>3, <3>1, <4>1, <4>2
    <3>3. D(n + 1) = {k \in Modules : Host!Predecessors(k) \subseteq D(n)}
      BY <3>1, DoneIs
    <3> QED BY <3>2, <3>3
  <2>4. N \in X
    <3> HIDE DEF X
    <3> QED BY <2>2, <2>3, NatInduct, NumberOfModules
  <2>5. \A m \in Modules : m \in D(N)
    BY <2>4, NumberOfModules
  <2>6. D(N) \subseteq Modules
    BY DoneGrows, NumberOfModules
  <2> QED BY <2>5, <2>6, SameCardinality DEF Host!Cycle, N
<1>6. ASSUME ~Host!ProvidesConflict, NEW r \in [Modules -> 1..N], Ranks(r)
      PROVE  ~Host!Unsatisfied
  BY <1>3, <1>6
<1>7. ASSUME ~Host!Unsatisfied, ~Host!Cycle
      PROVE  \E r \in [Modules -> 1..N] : Ranks(r)
  <2> DEFINE r == [m \in Modules |-> Host!Batch(m)]
  <2>1. r \in [Modules -> 1..N]
    BY <1>7, Batches
  <2>2. ASSUME NEW m \in Modules, NEW i \in system.requires[m]
        PROVE  \E p \in Modules : i \in system.provides[p] /\ r[p] < r[m]
    <3>1. PICK p \in Modules : i \in system.provides[p]
      BY <1>3, <1>7
    <3>2. p \in Host!Predecessors(m)
      BY <3>1 DEF Host!Predecessors
    <3>3. r[p] = Host!Batch(p) /\ r[m] = Host!Batch(m)
      OBVIOUS
    <3> HIDE DEF r
    <3> QED BY <1>7, <3>1, <3>2, <3>3, Batches
  <2> HIDE DEF r
  <2> QED BY <2>1, <2>2
<1> QED
  <2> HIDE DEF Ranks
  <2> QED BY <1>4, <1>5, <1>6, <1>7

(* Of the modules still to load each comes after those it requires; the    *)
(* loaded ones had a good factory.                                         *)
PredecessorsFirst ==
    \A j \in 1..Len(order) : \A p \in Host!Predecessors(order[j]) :
       p \in Loaded \/ \E i \in 1..Len(order) : i < j /\ order[i] = p

LoadInv ==
    /\ phase \in {"loading", "serving", "closing"} => Host!Loadable
    /\ phase = "crashed" => ~Host!Loadable \/ system.raising # {}
    /\ Loaded \cap system.raising = {}
    /\ phase = "loading" => PredecessorsFirst

LEMMA SystemTyped == ASSUME HostInv PROVE system \in Host!SystemType
BY ConstantsAssumption DEF HostInv

LEMMA LoadableStays ==
    ASSUME system' = system
    PROVE  Host!Loadable' <=> Host!Loadable
BY DEF Host!Loadable

LEMMA ImportLoads == ASSUME HostInv, Host!Import PROVE LoadInv'
<1>1. system' = system
  BY DEF Host!Import, Host!Exit
<1>2. Host!Loadable <=> ~(Host!ProvidesConflict \/ Host!Unsatisfied \/ Host!Cycle)
  BY LoadableIff, SystemTyped
<1>3. CASE Host!ProvidesConflict \/ Host!Unsatisfied \/ Host!Cycle
  <2>1. Host!Exit("crashed")
    BY <1>3 DEF Host!Import
  <2>2. Loaded' = {}
    BY <2>1 DEF Host!Exit, Loaded
  <2> QED
    BY <1>1, <1>2, <1>3, <2>1, <2>2, LoadableStays DEF Host!Exit, LoadInv
<1>4. CASE ~(Host!ProvidesConflict \/ Host!Unsatisfied \/ Host!Cycle)
  <2>1. phase' = "loading" /\ order' \in Host!LoadOrders
    BY <1>4 DEF Host!Import
  <2> DEFINE o == order'
  <2>2. /\ o \in Seq(Modules) /\ Len(o) = N
        /\ {o[i] : i \in 1..Len(o)} = Modules
    BY <2>1, OrderSurjective DEF N
  <2>3. \A i, j \in 1..N : i < j => Host!Batch(o[i]) <= Host!Batch(o[j])
    <3>1. DOMAIN o = 1..N /\ \A i, j \in DOMAIN o : i < j => Host!Batch(o[i]) <= Host!Batch(o[j])
      BY <2>1, <2>2 DEF Host!LoadOrders
    <3> HIDE DEF o
    <3> QED BY <3>1
  <2>4. ASSUME NEW j \in 1..Len(o), NEW p \in Host!Predecessors(o[j])
        PROVE  \E i \in 1..Len(o) : i < j /\ o[i] = p
    <3>1. o[j] \in Modules
      BY <2>2
    <3>2. /\ p \in Modules /\ Host!Batch(p) < Host!Batch(o[j])
          /\ Host!Batch(p) \in 1..N /\ Host!Batch(o[j]) \in 1..N
      BY <1>4, <3>1, Batches
    <3>3. PICK i \in 1..Len(o) : o[i] = p
      BY <2>2, <3>2
    <3>4. i # j
      BY <3>2, <3>3, NumberOfModules
    <3>5. ~(j < i)
      BY <2>2, <2>3, <3>2, <3>3, NumberOfModules
    <3>6. i < j
      BY <2>2, <3>4, <3>5, NumberOfModules
    <3> QED BY <3>3, <3>6
  <2>5. \A m : Host!Predecessors(m)' = Host!Predecessors(m)
    BY <1>1 DEF Host!Predecessors
  <2>6. PredecessorsFirst'
    BY <2>4, <2>5 DEF PredecessorsFirst
  <2> QED
    <3>1. Loaded' = {}
      BY <2>1, <2>2 DEF Loaded, Waiting
    <3> QED
      BY <1>1, <1>2, <1>4, <2>1, <2>6, <3>1, LoadableStays DEF LoadInv
<1> QED
  BY <1>3, <1>4

(* Nothing but a bad factory crashes the load.                             *)
LEMMA LoadModuleLoads == ASSUME HostInv, LoadInv, Host!LoadModule PROVE LoadInv'
<1> DEFINE m == Head(order)
<1>1. /\ phase = "loading" /\ order # <<>> /\ order \in Seq(Modules)
      /\ \A i, j \in 1..Len(order) : order[i] = order[j] => i = j
      /\ Loaded = Modules \ Waiting
      /\ m = order[1] /\ m \in Modules /\ 1 \in 1..Len(order) /\ Len(order) \in Nat
      /\ m \notin Loaded /\ Loaded \subseteq Modules
  <2>1. phase = "loading" /\ order # <<>> /\ order \in Seq(Modules)
    BY DEF Host!LoadModule, HostInv
  <2>2. m = order[1] /\ m \in Modules /\ 1 \in 1..Len(order) /\ Len(order) \in Nat
    BY <2>1
  <2>3. Loaded = Modules \ Waiting
    BY <2>1 DEF Loaded
  <2>4. m \in Waiting
    BY <2>2 DEF Waiting
  <2>5. \A i, j \in 1..Len(order) : order[i] = order[j] => i = j
    BY DEF HostInv
  <2> HIDE DEF m
  <2> QED BY <2>1, <2>2, <2>3, <2>4, <2>5
<1>2. /\ system.provides \in [Modules -> SUBSET Interfaces] /\ system.requires \in [Modules -> SUBSET Interfaces]
  BY SystemTyped DEF Host!SystemType
<1>3. Host!Loadable /\ ~Host!ProvidesConflict /\ ~Host!Unsatisfied
  BY <1>1, LoadableIff, SystemTyped DEF LoadInv
<1> HIDE DEF m
<1>4. \A i \in Interfaces : \A p, q \in Modules : i \in system.provides[p] /\ i \in system.provides[q] => p = q
  BY <1>3 DEF Host!ProvidesConflict
<1>5. \A p \in Host!Predecessors(m) : p \in Loaded
  <2>1. \A p \in Host!Predecessors(order[1]) :
           p \in Loaded \/ \E i \in 1..Len(order) : i < 1 /\ order[i] = p
    BY <1>1 DEF LoadInv, PredecessorsFirst
  <2> QED BY <1>1, <2>1
<1>6. \A i \in system.requires[m] : registry[i] # NONE
  <2> SUFFICES ASSUME NEW i \in system.requires[m] PROVE registry[i] # NONE
    OBVIOUS
  <2>1. i \in Interfaces
    BY <1>1, <1>2
  <2>2. PICK p \in Modules : i \in system.provides[p]
    BY <1>1, <1>3 DEF Host!Unsatisfied
  <2>3. p \in Host!Predecessors(m)
    BY <2>2 DEF Host!Predecessors
  <2>4. registry[i] \in Loaded
    BY <1>5, <2>1, <2>2, <2>3 DEF HostInv, Wiring
  <2> QED BY <1>1, <2>4, ConstantsAssumption
<1>7. \A i \in system.provides[m] : registry[i] = NONE
  <2> SUFFICES ASSUME NEW i \in system.provides[m], registry[i] # NONE PROVE FALSE
    OBVIOUS
  <2>1. i \in Interfaces
    BY <1>1, <1>2
  <2>2. registry[i] \in Loaded /\ i \in system.provides[registry[i]]
    BY <2>1 DEF HostInv, Wiring
  <2>3. registry[i] = m
    BY <1>1, <1>4, <2>1, <2>2
  <2> QED BY <1>1, <2>2, <2>3
<1>bad. CASE m \in system.raising
  <2>1. Host!Exit("crashed")
    BY <1>bad DEF Host!LoadModule, m
  <2>2. Loaded' = {} /\ phase' = "crashed" /\ system' = system
    BY <2>1 DEF Host!Exit, Loaded
  <2> QED BY <1>bad, <2>2 DEF LoadInv
<1> SUFFICES ASSUME m \notin system.raising PROVE LoadInv'
  BY <1>bad
<1>8. order' = Tail(order) /\ UNCHANGED <<system, phase>>
  BY <1>6, <1>7 DEF Host!LoadModule, m
<1>9. /\ Len(order') = Len(order) - 1
      /\ \A j \in 1..Len(order') : order'[j] = order[j + 1] /\ j + 1 \in 1..Len(order)
  BY <1>1, <1>8
<1>10. Loaded' = Loaded \cup {m}
  <2>1. Waiting' = Waiting \ {m}
    <3>1. {Tail(order)[i] : i \in 1..Len(Tail(order))} = {order[i] : i \in 1..Len(order)} \ {Head(order)}
      BY <1>1, TailWaits
    <3> QED BY <1>8, <3>1 DEF Waiting, m
  <2>2. Loaded' = Modules \ Waiting'
    BY <1>1, <1>8 DEF Loaded
  <2> QED BY <1>1, <2>1, <2>2
<1>11. \A k : Host!Predecessors(k)' = Host!Predecessors(k)
  BY <1>8 DEF Host!Predecessors
<1>12. PredecessorsFirst'
  <2> SUFFICES ASSUME NEW j \in 1..Len(order'), NEW p \in Host!Predecessors(order'[j])
               PROVE  p \in Loaded' \/ \E i \in 1..Len(order') : i < j /\ order'[i] = p
    BY <1>11 DEF PredecessorsFirst
  <2>1. j + 1 \in 1..Len(order) /\ order'[j] = order[j + 1]
    BY <1>9
  <2>2. p \in Loaded \/ \E i \in 1..Len(order) : i < j + 1 /\ order[i] = p
    BY <1>1, <2>1 DEF LoadInv, PredecessorsFirst
  <2>3. CASE p \in Loaded
    BY <1>10, <2>3
  <2>4. CASE \E i \in 1..Len(order) : i < j + 1 /\ order[i] = p
    <3>1. PICK i \in 1..Len(order) : i < j + 1 /\ order[i] = p
      BY <2>4
    <3>2. CASE i = 1
      BY <1>1, <1>10, <3>1, <3>2
    <3>3. CASE i # 1
      <4>1. i - 1 \in 1..Len(order') /\ i - 1 < j /\ (i - 1) + 1 = i
        BY <1>1, <1>9, <3>1, <3>3
      <4> QED BY <1>9, <3>1, <4>1
    <3> QED BY <3>2, <3>3
  <2> QED BY <2>2, <2>3, <2>4
<1> QED
  BY <1>1, <1>3, <1>8, <1>10, <1>12, LoadableStays DEF LoadInv

(* No other step of the process starts or ends a load.                     *)
LEMMA OthersLoad ==
    ASSUME HostInv, LoadInv, Host!Start \/ Host!Shutdown \/ Host!End \/ UNCHANGED host
    PROVE  LoadInv'
<1>1. system' = system
  BY DEF Host!Start, Host!Shutdown, Host!End, Host!Exit, host
<1>2. CASE Host!Start \/ Host!Shutdown \/ Host!End
  <2>1. \/ phase' = "down"
        \/ phase \in {"loading", "serving"} /\ phase' \in {"serving", "closing"}
    BY <1>2 DEF Host!Start, Host!Shutdown, Host!End, Host!Exit
  <2>2. Loaded' \subseteq Loaded
    BY <1>2 DEF Loaded, Waiting, Host!Start, Host!Shutdown, Host!End, Host!Exit
  <2> QED BY <1>1, <2>1, <2>2, LoadableStays DEF LoadInv
<1>3. CASE UNCHANGED host
  <2>1. UNCHANGED <<system, phase, order>>
    BY <1>3 DEF host
  <2>2. PredecessorsFirst' <=> PredecessorsFirst
    BY <2>1 DEF PredecessorsFirst, Loaded, Waiting, Host!Predecessors
  <2>3. Loaded' = Loaded
    BY <2>1 DEF Loaded, Waiting
  <2> QED BY <2>1, <2>2, <2>3, LoadableStays DEF LoadInv
<1> QED BY <1>2, <1>3

-----------------------------------------------------------------------------
(* The whole: what a step leaves alone stays as the invariant wants it.    *)

LEMMA HostUnchanged == ASSUME HostInv, UNCHANGED host PROVE HostInv' /\ system' = system
<1>1. UNCHANGED <<system, phase, order, registry, injected, mounted, tasks>>
  BY DEF host
<1>2. Loaded' = Loaded
  BY <1>1 DEF Loaded, Waiting
<1>3. Wiring'
  <2>1. Wiring
    BY DEF HostInv
  <2> QED
    BY <1>1, <1>2, <2>1 DEF Wiring
<1>4. Host!ProvidesConflict' <=> Host!ProvidesConflict
  BY <1>1 DEF Host!ProvidesConflict
<1> QED
  BY <1>1, <1>3, <1>4 DEF HostInv

LEMMA TogglesUnchanged ==
    ASSUME ToggleInv, UNCHANGED modules, UNCHANGED system
    PROVE  ToggleInv' /\ config' = config
BY DEF modules, ToggleInv, Toggle!TypeOK, Current, Checked, Toggle!Enabled, Toggle!DependentsOf

LEMMA AuthUnchanged == ASSUME AuthInv, UNCHANGED auth PROVE AuthInv' /\ settings' = settings
BY DEF auth, AuthInv, Auth!TypeOK, SessionsKnowPassword, Auth!SessionsKnowPassword

(* What a step may do: keep the invariant, the password, and the state of  *)
(* a module's dependents unless it is confirmed.                           *)
Kept ==
    /\ settings # NONE => settings' = settings
    /\ \A m \in Modules : Toggle!Enabled(m) /\ ~Toggle!Enabled(m)' =>
          \E c \in Clients :
             /\ toggle[c].module = m
             /\ \/ toggle[c].confirm
                \/ \A d \in Toggle!DependentsOf(m) : Toggle!Enabled(d) => d \in moved[c]

LEMMA InvNext == ASSUME Inv, [Next]_vars PROVE Inv' /\ Kept
<1>1. config' = config => \A m \in Modules : Toggle!Enabled(m)' = Toggle!Enabled(m)
  BY DEF Toggle!Enabled
<1>2. CASE UNCHANGED vars
  BY <1>1, <1>2, HostUnchanged, TogglesUnchanged, AuthUnchanged DEF Inv, Kept, vars, host
<1>3. CASE Boot
  <2>1. HostInv' /\ system' = system
    BY <1>3, ImportInv, LoadModuleInv, LifespanInv DEF Inv, Boot
  <2> QED
    BY <1>1, <1>3, <2>1, TogglesUnchanged, AuthUnchanged DEF Inv, Kept, Boot
<1>4. CASE Shutdown
  BY <1>1, <1>4, LifespanInv, TogglesUnchanged, AuthUnchanged DEF Inv, Kept, Shutdown
<1>5. CASE End
  <2>1. HostInv' /\ system' = system
    BY <1>5, ExitInv DEF Inv, End, Host!End
  <2> QED
    BY <1>1, <1>5, <2>1, ToggleDropInv, AuthDropInv DEF Inv, Kept, End
<1>6. ASSUME NEW c \in Clients, RequestToggle(c) PROVE Inv' /\ Kept
  <2>1. ToggleInv' /\ config' = config
    <3>1. PICK m \in Modules, confirm \in BOOLEAN : Toggle!Begin(c, m, confirm)
      BY <1>6 DEF RequestToggle
    <3> QED
      BY <3>1, BeginInv DEF Inv, Toggle!Begin
  <2> QED
    BY <1>1, <1>6, <2>1, HostUnchanged, AuthUnchanged DEF Inv, Kept, RequestToggle
<1>7. ASSUME NEW c \in Clients, RequestAuth(c) PROVE Inv' /\ Kept
  <2>1. AuthInv' /\ (settings # NONE => settings' = settings)
    BY <1>7, AuthStepInv DEF Inv, RequestAuth
  <2> QED
    BY <1>1, <1>7, <2>1, HostUnchanged, TogglesUnchanged DEF Inv, Kept, RequestAuth
<1>8. ASSUME NEW c \in Clients, Serve(c) PROVE Inv' /\ Kept
  <2>1. CASE Toggle!ReadDependent(c) \/ Toggle!SelectRow(c)
    <3>1. UNCHANGED <<host, auth>> \/ UNCHANGED <<host, modules>>
      BY <1>8 DEF Serve
    <3>2. ToggleInv' /\ config' = config
      BY <2>1, ReadDependentInv, SelectRowInv DEF Inv, Toggle!ReadDependent, Toggle!SelectRow
    <3>3. CASE UNCHANGED <<host, auth>>
      BY <1>1, <3>2, <3>3, HostUnchanged, AuthUnchanged DEF Inv, Kept
    <3>4. CASE Auth!Steps(c) /\ UNCHANGED <<host, modules>>
      BY <1>1, <3>2, <3>4, HostUnchanged, AuthStepInv DEF Inv, Kept
    <3> QED
      BY <1>8, <3>3, <3>4 DEF Serve
  <2>2. CASE Toggle!Commit(c) /\ UNCHANGED <<host, auth>>
    BY <2>2, CommitInv, HostUnchanged, AuthUnchanged DEF Inv, Kept
  <2>3. CASE Auth!Steps(c) /\ UNCHANGED <<host, modules>>
    BY <1>1, <2>3, AuthStepInv, HostUnchanged, TogglesUnchanged DEF Inv, Kept
  <2> QED
    BY <1>8, <2>1, <2>2, <2>3 DEF Serve, Toggle!Steps
<1> QED
  BY <1>2, <1>3, <1>4, <1>5, <1>6, <1>7, <1>8 DEF Next

THEOREM DashboardInvariant == Spec => []Inv
<1>1. Init => HostInv
  <2> SUFFICES ASSUME Init PROVE HostInv
    OBVIOUS
  <2>1. Loaded = {} /\ phase = "down" /\ order = <<>>
    BY DEF Init, Host!Init, Loaded
  <2>2. Wiring
    BY <2>1 DEF Init, Host!Init, Wiring
  <2>3. Cardinality(Modules) \in Nat
    BY ConstantsAssumption, FS_CardinalityType
  <2> QED
    BY <2>1, <2>2, <2>3 DEF Init, Host!Init, HostInv
<1>2. Init => ToggleInv
  <2>1. Toggle!Idle.pc = "idle" /\ Toggle!Idle.unread = {} /\ Toggle!Idle.found = FALSE
    BY DEF Toggle!Idle
  <2>2. Init => Toggle!TypeOK
    BY IdleTyped DEF Init, Toggle!Init, Toggle!TypeOK, ToggleType
  <2> QED
    BY <2>1, <2>2 DEF Init, Toggle!Init, ToggleInv, Current, Checked
<1>3. Init => AuthInv
  BY DEF Init, Auth!Init, Auth!NoAttempt, AuthInv, Auth!TypeOK, SessionsKnowPassword, Auth!SessionsKnowPassword
<1>4. Inv /\ [Next]_vars => Inv'
  BY InvNext
<1> QED
  BY <1>1, <1>2, <1>3, <1>4, PTL DEF Spec, Inv

(* A process that serves has what its manifests require, from the module   *)
(* that provides it, whatever the load order, and every router that did    *)
(* not raise.                                                              *)
THEOREM ServesWired == Spec => []WiredAsDeclared
<1>1. Inv => WiredAsDeclared
  <2> SUFFICES ASSUME Inv, phase = "serving" PROVE Loaded = Modules
    BY DEF WiredAsDeclared, Host!WiredAsDeclared, Inv, HostInv, Wiring
  <2> QED
    BY DEF Inv, HostInv, Loaded, Waiting
<1> QED
  BY <1>1, DashboardInvariant, PTL

(* What build_load_order accepts loads without a missing or a second       *)
(* provider, and it refuses only what no order of the modules could load:  *)
(* the only other crash is a factory's.                                    *)
THEOREM CrashesOnlyUnloadable == Spec => []CrashesIffUnloadable
<1>1. Init => LoadInv
  BY DEF Init, Host!Init, LoadInv, Loaded
<1>2. ASSUME Inv, LoadInv, [Next]_vars PROVE LoadInv'
  <2>1. \/ Host!Import \/ Host!LoadModule
        \/ Host!Start \/ Host!Shutdown \/ Host!End \/ UNCHANGED host
    BY <1>2 DEF Next, Boot, Shutdown, End, RequestToggle, RequestAuth, Serve, vars
  <2> QED
    BY <1>2, <2>1, ImportLoads, LoadModuleLoads, OthersLoad DEF Inv
<1>3. Inv /\ LoadInv => CrashesIffUnloadable
  <2>1. Inv /\ phase = "serving" => Loaded = Modules
    BY DEF Inv, HostInv, Loaded, Waiting
  <2>2. Inv => system.raising \subseteq Modules
    BY SystemTyped DEF Inv, Host!SystemType
  <2> QED
    BY <2>1, <2>2 DEF LoadInv, CrashesIffUnloadable, Host!CrashesIffUnloadable
<1> QED
  BY <1>1, <1>2, <1>3, DashboardInvariant, PTL DEF Spec

(* What main.py says of the collectors is true exactly of an import outside *)
(* an event loop: under uvicorn a process that serves runs each one twice. *)
THEOREM CollectorsTwiceInALoop ==
    Spec => [](phase = "serving" =>
                 \A m \in system.collectors : tasks[m] = IF system.loopAtImport THEN 2 ELSE 1)
<1>1. Inv => (phase = "serving" =>
                \A m \in system.collectors : tasks[m] = IF system.loopAtImport THEN 2 ELSE 1)
  <2>1. Inv /\ phase = "serving" => Loaded = Modules
    BY DEF Inv, HostInv, Loaded, Waiting
  <2>2. Inv => system.collectors \subseteq Modules
    BY SystemTyped DEF Inv, Host!SystemType
  <2> QED
    BY <2>1, <2>2 DEF Inv, HostInv, Wiring
<1> QED
  BY <1>1, DashboardInvariant, PTL

(* A toggle no other one of the module overlaps does what it was asked.    *)
THEOREM TogglesLostToOverlapOnly == Spec => []OnlyOverlapLosesToggles
<1>1. Inv => OnlyOverlapLosesToggles
  BY DEF OnlyOverlapLosesToggles, Toggle!OnlyOverlapLosesToggles, Inv, ToggleInv, Current
<1> QED
  BY <1>1, DashboardInvariant, PTL

(* A module with dependents is disabled by a confirmed toggle only, but    *)
(* for dependents that another request enabled while it was in flight.     *)
THEOREM DependentsProtected == Spec => UnconfirmedBreaksNothing
<1>1. ASSUME Inv, [Next]_vars
      PROVE  \A m \in Modules : Toggle!Enabled(m) /\ ~Toggle!Enabled(m)' =>
                \E c \in Clients :
                   /\ toggle[c].module = m
                   /\ \/ toggle[c].confirm
                      \/ \A d \in Modules \ {m} :
                            system.provides[m] \cap system.requires[d] # {} /\ Toggle!Enabled(d) => d \in moved[c]
  BY <1>1, InvNext DEF Kept, Toggle!DependentsOf
<1> QED
  BY <1>1, DashboardInvariant, PTL DEF Spec, UnconfirmedBreaksNothing, Toggle!UnconfirmedBreaksNothing, Toggle!vars

(* The first password set stays, however many setups race.                 *)
THEOREM FirstPasswordStays == Spec => PasswordOnce
<1>1. ASSUME Inv, [Next]_vars PROVE settings # NONE => settings' = settings
  BY <1>1, InvNext DEF Kept
<1> QED
  BY <1>1, DashboardInvariant, PTL DEF Spec, PasswordOnce, Auth!PasswordOnce, Auth!vars

(* Nobody has a session with another password than the stored one.         *)
THEOREM SessionsTrue == Spec => []SessionsKnowPassword
<1>1. Inv => SessionsKnowPassword
  BY DEF Inv, AuthInv
<1> QED
  BY <1>1, DashboardInvariant, PTL

(* Every part is of its type.                                              *)
THEOREM TypeCorrect == Spec => []TypeOK
<1>1. Inv => Host!TypeOK
  <2> SUFFICES ASSUME Inv PROVE Host!TypeOK
    OBVIOUS
  <2>1. order \in UNION {[1..n -> Modules] : n \in 0..Host!Cardinality(Modules)}
    <3>1. Len(order) \in 0..Cardinality(Modules) /\ order \in [1..Len(order) -> Modules]
      BY ConstantsAssumption, FS_CardinalityType DEF Inv, HostInv
    <3> QED
      BY <3>1, SameCardinality
  <2>2. Loaded \subseteq Modules
    BY DEF Loaded
  <2>3. tasks \in [Modules -> 0..2]
    BY DEF Inv, HostInv, Wiring
  <2> QED
    BY <2>1, <2>2, <2>3 DEF Inv, HostInv, Wiring, Host!TypeOK
<1> QED
  BY <1>1, DashboardInvariant, PTL DEF TypeOK, Inv, ToggleInv, AuthInv
=============================================================================
