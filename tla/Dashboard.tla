------------------------------ MODULE Dashboard ------------------------------
(***************************************************************************)
(* The API process and the requests of its browsers: ModuleHost,           *)
(* ModuleToggle and AuthSetup together.  The process serves between its    *)
(* start and its shutdown, and drops what is in flight when it is killed;  *)
(* the tables and the session cookies outlive it.  Toggling takes a        *)
(* session, and what it may break is what the host's manifests say.        *)
(***************************************************************************)
EXTENDS Naturals, Sequences, FiniteSets

CONSTANTS Modules, Interfaces, Systems, Clients, Passwords, NONE

VARIABLES
    system, phase, order, registry, injected, mounted, tasks,
    config, toggle, moved,
    settings, attempt, session

host == <<system, phase, order, registry, injected, mounted, tasks>>
modules == <<config, toggle, moved>>
auth == <<settings, attempt, session>>
vars == <<host, modules, auth>>

Host == INSTANCE ModuleHost
Toggle == INSTANCE ModuleToggle
Auth == INSTANCE AuthSetup

ASSUME ConstantsAssumption ==
    /\ Systems \subseteq Host!SystemType
    /\ IsFiniteSet(Modules)
    /\ NONE \notin Modules \cup Passwords

Init == Host!Init /\ Toggle!Init /\ Auth!Init

Free(c) == toggle[c].pc = "idle" /\ attempt[c].pc = "idle"

Boot ==
    /\ Host!Import \/ Host!LoadModule \/ Host!Start
    /\ UNCHANGED <<modules, auth>>

\* The server lets requests finish before the lifespan ends.
Shutdown ==
    /\ \A c \in Clients : Free(c)
    /\ Host!Shutdown
    /\ UNCHANGED <<modules, auth>>

\* The end of a shutdown or of a failed start, or a kill.
End == Host!End /\ Toggle!Drop /\ Auth!Drop

\* require_auth and the route, of a client with no other request in flight.
RequestToggle(c) ==
    /\ phase = "serving" /\ Free(c)
    /\ session[c] # NONE
    /\ \E m \in Modules, confirm \in BOOLEAN : Toggle!Begin(c, m, confirm)
    /\ UNCHANGED <<host, auth>>

RequestAuth(c) ==
    /\ phase = "serving" /\ Free(c)
    /\ (\E p \in Passwords : Auth!BeginSetup(c, p) \/ Auth!Login(c, p)) \/ Auth!Logout(c)
    /\ UNCHANGED <<host, modules>>

Serve(c) ==
    /\ phase = "serving"
    /\ \/ Toggle!Steps(c) /\ UNCHANGED <<host, auth>>
       \/ Auth!Steps(c) /\ UNCHANGED <<host, modules>>

Next == Boot \/ Shutdown \/ End \/ \E c \in Clients : RequestToggle(c) \/ RequestAuth(c) \/ Serve(c)

Spec == Init /\ [][Next]_vars

-----------------------------------------------------------------------------
(* Properties: those of the parts, in the whole.                           *)

\* Every part is of its type.
TypeOK == Host!TypeOK /\ Toggle!TypeOK /\ Auth!TypeOK

\* Manifests that cannot be loaded and bad factories, and nothing else, crash the start.
CrashesIffUnloadable == Host!CrashesIffUnloadable

\* A serving process is wired as the manifests say.
WiredAsDeclared == Host!WiredAsDeclared

\* A serving process runs each collector once.
CollectorsRunOnce == Host!CollectorsRunOnce

\* A toggle is lost or fails only when another one of the module overlaps it.
OnlyOverlapLosesToggles == Toggle!OnlyOverlapLosesToggles

\* Without a confirmation no dependent is broken but one enabled meanwhile.
UnconfirmedBreaksNothing == Toggle!UnconfirmedBreaksNothing

\* The first password stays.
PasswordOnce == Auth!PasswordOnce

\* Sessions know the stored password.
SessionsKnowPassword == Auth!SessionsKnowPassword
=============================================================================
