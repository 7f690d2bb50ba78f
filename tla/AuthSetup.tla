----------------------------- MODULE AuthSetup -----------------------------
(***************************************************************************)
(* The dashboard's password and its sessions (routes/auth.py, auth.py).    *)
(* app_settings has one row, with id 1, that setup() inserts and completes *)
(* in one transaction: no committed row is incomplete.  A second INSERT    *)
(* waits for the first transaction and fails when that one commits.        *)
(*                                                                         *)
(* hash_password and verify_password are modelled by what they promise: a  *)
(* password verifies against its own hash only.  The session cookie is     *)
(* signed with a fixed secret and outlives the process.                    *)
(***************************************************************************)
CONSTANTS
    Passwords,
    Clients,
    NONE

VARIABLES
    settings,    \* the password of the app_settings row, NONE without one
    attempt,     \* setup() in flight
    session      \* what each client logged in with, NONE when it is not

vars == <<settings, attempt, session>>

NoAttempt == [pc |-> "idle", password |-> NONE]

Init ==
    /\ settings = NONE
    /\ attempt = [c \in Clients |-> NoAttempt]
    /\ session = [c \in Clients |-> NONE]

\* The row is not there; where it is, the answer is a 409.
BeginSetup(c, p) ==
    /\ attempt[c].pc = "idle"
    /\ settings = NONE
    /\ attempt' = [attempt EXCEPT ![c] = [pc |-> "insert", password |-> p]]
    /\ UNCHANGED <<settings, session>>

\* Defect: an upsert.
InsertOrReplace(c) ==
    /\ attempt[c].pc = "insert"
    /\ \A b \in Clients : attempt[b].pc # "commit"
    /\ attempt' = [attempt EXCEPT ![c].pc = "commit"]
    /\ UNCHANGED <<settings, session>>

InsertSettings(c) ==
    /\ attempt[c].pc = "insert"
    /\ \A b \in Clients : attempt[b].pc # "commit"
    /\ attempt' = [attempt EXCEPT ![c] = IF settings = NONE THEN [@ EXCEPT !.pc = "commit"] ELSE NoAttempt]
    /\ UNCHANGED <<settings, session>>

CommitSetup(c) ==
    /\ attempt[c].pc = "commit"
    /\ settings' = attempt[c].password
    /\ attempt' = [attempt EXCEPT ![c] = NoAttempt]
    /\ UNCHANGED session

\* A wrong password is a 401, one before the setup a 409.
Login(c, p) ==
    /\ attempt[c].pc = "idle"
    /\ settings # NONE /\ settings = p
    /\ session' = [session EXCEPT ![c] = p]
    /\ UNCHANGED <<settings, attempt>>

Logout(c) ==
    /\ attempt[c].pc = "idle"
    /\ session' = [session EXCEPT ![c] = NONE]
    /\ UNCHANGED <<settings, attempt>>

Steps(c) == InsertSettings(c) \/ CommitSetup(c)

\* The process ends: an open transaction is rolled back.
Drop ==
    /\ attempt' = [c \in Clients |-> NoAttempt]
    /\ UNCHANGED <<settings, session>>

-----------------------------------------------------------------------------
(* Properties.                                                             *)

\* Requests are well formed.
TypeOK ==
    /\ settings \in Passwords \cup {NONE}
    /\ attempt \in [Clients -> [pc : {"idle", "insert", "commit"}, password : Passwords \cup {NONE}]]
    /\ session \in [Clients -> Passwords \cup {NONE}]

\* auth.py:29, "409 if already set": however many first-run setups race, the
\* password that is set first stays.
PasswordOnce == [][settings # NONE => settings' = settings]_vars

\* Whoever has a session knows the password that is stored, also one who logged in
\* while another setup was still in flight.
SessionsKnowPassword == \A c \in Clients : session[c] \in {NONE, settings}
=============================================================================
