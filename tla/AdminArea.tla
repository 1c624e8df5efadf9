------------------------------ MODULE AdminArea ------------------------------
(***************************************************************************)
(* The admin area: the one account, login sessions, password rotation and  *)
(* the configuration of a connector.  Everything is kept in Redis.  The    *)
(* account is created by instances that start (module Startup); here it is *)
(* used and rotated.                                                       *)
(*                                                                         *)
(* A client is a browser with its cookie and at most one request in        *)
(* flight.  Each await of a handler ends a step.                           *)
(***************************************************************************)
EXTENDS Naturals

CONSTANTS
  Clients,       \* administrators' browsers
  Chosen,        \* passwords administrators choose
  MaxStarts,     \* bound: starts of instances; each has its own temporary password
  Credentials,   \* credentials typed into the configuration form
  NoAccount,     \* there is no account
  NoConfig,      \* the connector is not configured
  NoCredential   \* the empty credential

ASSUME AdminAssumption ==
  /\ MaxStarts \in Nat
  /\ Chosen \cap (1..MaxStarts) = {}
  /\ NoCredential \notin Credentials

VARIABLES
  account,    \* AdminUserStore: the record of the user "admin"
  indexed,    \* AdminUserStore: whether the index of users has it
  printed,    \* temporary passwords in the instances' logs
  sessions,   \* AdminSessionStore: clients whose cookie resolves
  config,     \* ConnectorConfigStore: the credential of the connector
  request     \* the request of each client

adminVars == <<account, indexed, printed, sessions, config, request>>

Temporary == 1..MaxStarts
Passwords == Temporary \cup Chosen
Account == [password : Passwords, mustChange : BOOLEAN]
Configs == Credentials \cup {NoCredential, NoConfig}

\* What administrators can type: what they chose, and what they read in a log.
Known == printed \cup Chosen

\* Each step is named for the await it waits at; form is the password or the
\* credential in the form, read what the handler has read of the store.
Idle == [at |-> "idle", form |-> NoCredential, read |-> NoConfig]

RequestSteps == {"idle", "login", "password", "rotate", "reindex",
                 "save", "saveRotated", "savePut", "delete", "deleteRotated"}

Request == [at : RequestSteps, form : Chosen \cup Credentials \cup {NoCredential},
            read : Configs]

AdminTypeOK ==
  /\ account \in Account \cup {NoAccount}
  /\ indexed \in BOOLEAN
  /\ printed \subseteq Temporary
  /\ sessions \subseteq Clients
  /\ config \in Configs
  /\ request \in [Clients -> Request]

AdminInit ==
  /\ account = NoAccount
  /\ indexed = FALSE
  /\ printed = {}
  /\ sessions = {}
  /\ config = NoConfig
  /\ request = [c \in Clients |-> Idle]

-----------------------------------------------------------------------------
At(c, step) == request[c].at = step
Goto(c, step) == request' = [request EXCEPT ![c].at = step]
Answer(c) == request' = [request EXCEPT ![c] = Idle]

\* verify_password, with whatever administrators can type.
PasswordFits == account.password \in Known

\* An account exists and an administrator types its password.
Verified == account # NoAccount /\ PasswordFits

\* The cookie resolves to a live session.
SignedIn(c) == c \in sessions

\* require_rotated_password.
Rotated == account # NoAccount /\ ~account.mustChange

\* login_submit: a wrong password changes nothing.
LoginVerified(c) ==
  /\ At(c, "idle")
  /\ Verified
  /\ Goto(c, "login")
  /\ UNCHANGED <<account, indexed, printed, sessions, config>>

LoginCreated(c) ==
  /\ At(c, "login")
  /\ sessions' = sessions \cup {c}
  /\ Answer(c)
  /\ UNCHANGED <<account, indexed, printed, config>>

\* logout, and the end of a session's TTL.
SessionEnds(c) ==
  /\ c \in sessions
  /\ sessions' = sessions \ {c}
  /\ UNCHANGED <<account, indexed, printed, config, request>>

\* Every other request first resolves the session (require_admin).
Submit(c, step, form) ==
  /\ At(c, "idle")
  /\ SignedIn(c)
  /\ request' = [request EXCEPT ![c].at = step, ![c].form = form]
  /\ UNCHANGED <<account, indexed, printed, sessions, config>>

-----------------------------------------------------------------------------
\* password_submit.

PasswordVerified(c) ==
  /\ At(c, "password")
  /\ Verified
  /\ Goto(c, "rotate")
  /\ UNCHANGED <<account, indexed, printed, sessions, config>>

\* The current password is wrong, or the new one is not accepted.
PasswordRefused(c) ==
  /\ At(c, "password")
  /\ Answer(c)
  /\ UNCHANGED <<account, indexed, printed, sessions, config>>

\* Variant: the password is stored in place of the record.
RotatedAccountBare(c) == request[c].form

RotatedAccount(c) == [password |-> request[c].form, mustChange |-> FALSE]

\* AdminUserStore.put: the record, then the index.
PasswordPut(c) ==
  /\ At(c, "rotate")
  /\ account' = RotatedAccount(c)
  /\ Goto(c, "reindex")
  /\ UNCHANGED <<indexed, printed, sessions, config>>

PasswordIndexed(c) ==
  /\ At(c, "reindex")
  /\ indexed' = TRUE
  /\ Answer(c)
  /\ UNCHANGED <<account, printed, sessions, config>>

-----------------------------------------------------------------------------
\* The connector's configuration.

\* Both handlers want a rotated password.
Admitted(c) ==
  /\ Rotated
  /\ \/ At(c, "save") /\ Goto(c, "saveRotated")
     \/ At(c, "delete") /\ Goto(c, "deleteRotated")
  /\ UNCHANGED <<account, indexed, printed, sessions, config>>

\* The account is on its temporary password, or gone.
Redirected(c) ==
  /\ ~Rotated
  /\ At(c, "save") \/ At(c, "delete")
  /\ Answer(c)
  /\ UNCHANGED <<account, indexed, printed, sessions, config>>

SaveRead(c) ==
  /\ At(c, "saveRotated")
  /\ request' = [request EXCEPT ![c].at = "savePut", ![c].read = config]
  /\ UNCHANGED <<account, indexed, printed, sessions, config>>

\* Variant: a blank field clears the credential.
StoredCredentialAsTyped(form, existing) == form

\* A blank field keeps the credential that was read, if there was one.
StoredCredential(form, existing) ==
  IF form = NoCredential /\ existing # NoConfig THEN existing ELSE form

SavePut(c) ==
  /\ At(c, "savePut")
  /\ config' = StoredCredential(request[c].form, request[c].read)
  /\ Answer(c)
  /\ UNCHANGED <<account, indexed, printed, sessions>>

ConfigDeleted(c) ==
  /\ At(c, "deleteRotated")
  /\ config' = NoConfig
  /\ Answer(c)
  /\ UNCHANGED <<account, indexed, printed, sessions>>

\* A Redis command raises and the request is answered with an error.
RequestFails(c) ==
  /\ ~At(c, "idle")
  /\ Answer(c)
  /\ UNCHANGED <<account, indexed, printed, sessions, config>>

Authentication(c) == LoginVerified(c) \/ LoginCreated(c) \/ SessionEnds(c)

Rotation(c) ==
  \/ \E new \in Chosen : Submit(c, "password", new)
  \/ PasswordVerified(c)
  \/ PasswordRefused(c)
  \/ PasswordPut(c)
  \/ PasswordIndexed(c)

Configuration(c) ==
  \/ \E typed \in Credentials \cup {NoCredential} : Submit(c, "save", typed)
  \/ Submit(c, "delete", NoCredential)
  \/ Admitted(c)
  \/ Redirected(c)
  \/ SaveRead(c)
  \/ SavePut(c)
  \/ ConfigDeleted(c)

AdminStep(c) == Authentication(c) \/ Rotation(c) \/ Configuration(c)
=============================================================================
