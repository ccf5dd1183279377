--------------------------- MODULE Authentication ---------------------------
(***************************************************************************)
(* The server's Authentication (src/server/Authentication.cpp): who may    *)
(* log in, who is locked out, who is blocked by an emergency.  It is an    *)
(* ordinary object that one thread calls, so each method is one step.      *)
(***************************************************************************)
EXTENDS Integers, StdMap

CONSTANTS
  Clients,             \* client ids
  Passwords, Phrases,  \* what callers may offer
  Hash,                \* hashPassword: a function that may collide
  EmergencyUnlock,     \* the literal that unlockWithSecretPhrase compares with
  MAX_FAILED_ATTEMPTS  \* 3

ASSUME ConstantAssumption ==
  /\ MAX_FAILED_ATTEMPTS \in Nat \ {0}
  /\ DOMAIN Hash = Passwords
  /\ EmergencyUnlock \in Phrases

VARIABLES credentials, \* client id -> AuthData
          result,      \* what the last call that returns a bool returned
          call         \* the last call: [op, client, arg], a label of the step

vars == <<credentials, result, call>>

AuthData == [hashedPassword : {Hash[p] : p \in Passwords}, isLogged : BOOLEAN,
             failedAttempts : Nat, isBlocked : BOOLEAN, emergencyBlocked : BOOLEAN]

Init == credentials = EmptyMap /\ result = FALSE /\ call = EmptyMap

Known(c) == c \in DOMAIN credentials
ReturnFalse == result' = FALSE /\ UNCHANGED credentials

\* Whether authenticate gets past its early returns.
MayTry(c) ==
  Known(c) /\ ~credentials[c].isBlocked /\ ~credentials[c].emergencyBlocked

\* Whether n failed attempts in a row block the client.
Exhausted(n) == n >= MAX_FAILED_ATTEMPTS

\* Failed, had the attempt not been counted.
FailedUncounted(auth) == auth

\* What a wrong password makes of a client that may try.
Failed(auth) ==
  LET counted == [auth EXCEPT !.failedAttempts = @ + 1] IN
  IF Exhausted(counted.failedAttempts) THEN [counted EXCEPT !.isBlocked = TRUE]
  ELSE counted

\* authenticate.
Authenticate(c, p) ==
  \/ ~MayTry(c) /\ ReturnFalse
  \/ /\ MayTry(c) /\ credentials[c].hashedPassword = Hash[p]
     /\ credentials' = [credentials EXCEPT ![c] =
                         [@ EXCEPT !.failedAttempts = 0, !.isLogged = TRUE]]
     /\ result' = TRUE
  \/ /\ MayTry(c) /\ credentials[c].hashedPassword # Hash[p]
     /\ credentials' = [credentials EXCEPT ![c] = Failed(@)]
     /\ result' = FALSE

\* IsAuthorized, had the lock been left out.
IsLoggedIn(c) == Known(c) /\ credentials[c].isLogged

\* isAuthorized.
IsAuthorized(c) == Known(c) /\ credentials[c].isLogged /\ ~credentials[c].isBlocked

\* setLoggedOut.
SetLoggedOut(c) ==
  \/ ~Known(c) /\ UNCHANGED <<credentials, result>>
  \/ /\ Known(c)
     /\ credentials' = [credentials EXCEPT ![c] = [@ EXCEPT !.isLogged = FALSE]]
     /\ UNCHANGED result

\* AddCredentials, had it kept the password itself.
AddCredentialsPlain(c, p) ==
  /\ ~Known(c)
  /\ credentials' = Assign(credentials, c,
                      [hashedPassword |-> p, isLogged |-> FALSE,
                       failedAttempts |-> 0, isBlocked |-> FALSE,
                       emergencyBlocked |-> FALSE])
  /\ UNCHANGED result

\* addCredentials: a client that is known keeps its data.
AddCredentials(c, p) ==
  \/ Known(c) /\ UNCHANGED <<credentials, result>>
  \/ /\ ~Known(c)
     /\ credentials' = Assign(credentials, c,
                         [hashedPassword |-> Hash[p], isLogged |-> FALSE,
                          failedAttempts |-> 0, isBlocked |-> FALSE,
                          emergencyBlocked |-> FALSE])
     /\ UNCHANGED result

\* removeCredentials.
RemoveCredentials(c) ==
  credentials' = Erase(credentials, c) /\ UNCHANGED result

\* Unblocked, had the count been left as it was.
UnblockedOnly(auth) == [auth EXCEPT !.isBlocked = FALSE, !.isLogged = TRUE]

\* What a fingerprint makes of a blocked client.
Unblocked(auth) ==
  [auth EXCEPT !.isBlocked = FALSE, !.failedAttempts = 0, !.isLogged = TRUE]

\* unblockWithFingerprint.
UnblockWithFingerprint(c) ==
  \/ ~(Known(c) /\ credentials[c].isBlocked) /\ ReturnFalse
  \/ /\ Known(c) /\ credentials[c].isBlocked
     /\ credentials' = [credentials EXCEPT ![c] = Unblocked(@)]
     /\ result' = TRUE

\* blockDueToEmergency.
BlockDueToEmergency(c) ==
  \/ ~Known(c) /\ UNCHANGED <<credentials, result>>
  \/ /\ Known(c)
     /\ credentials' = [credentials EXCEPT ![c] = [@ EXCEPT !.emergencyBlocked = TRUE]]
     /\ UNCHANGED result

\* unlockWithSecretPhrase.
UnlockWithSecretPhrase(c, phrase) ==
  \/ /\ ~(Known(c) /\ credentials[c].emergencyBlocked /\ phrase = EmergencyUnlock)
     /\ ReturnFalse
  \/ /\ Known(c) /\ credentials[c].emergencyBlocked /\ phrase = EmergencyUnlock
     /\ credentials' = [credentials EXCEPT ![c] = [@ EXCEPT !.emergencyBlocked = FALSE]]
     /\ result' = TRUE

\* The label of a call; a method that takes the client alone repeats it.
Called(op, c, arg) == call' = [op |-> op, client |-> c, arg |-> arg]

Next == \E c \in Clients :
  \/ \E p \in Passwords :
       \/ Called("addCredentials", c, p) /\ AddCredentials(c, p)
       \/ Called("authenticate", c, p) /\ Authenticate(c, p)
  \/ Called("removeCredentials", c, c) /\ RemoveCredentials(c)
  \/ Called("setLoggedOut", c, c) /\ SetLoggedOut(c)
  \/ Called("unblockWithFingerprint", c, c) /\ UnblockWithFingerprint(c)
  \/ Called("blockDueToEmergency", c, c) /\ BlockDueToEmergency(c)
  \/ \E phrase \in Phrases :
       /\ Called("unlockWithSecretPhrase", c, phrase)
       /\ UnlockWithSecretPhrase(c, phrase)

Spec == Init /\ [][Next]_vars
-----------------------------------------------------------------------------
(* Properties. *)

Ops == {"addCredentials", "authenticate", "removeCredentials", "setLoggedOut",
        "unblockWithFingerprint", "blockDueToEmergency", "unlockWithSecretPhrase"}
CallOK ==
  \/ call = EmptyMap
  \/ call \in [op : Ops, client : Clients, arg : Clients \cup Passwords \cup Phrases]

\* Every variable has its type.
TypeOK ==
  /\ IsMap(credentials, Clients, AuthData)
  /\ result \in BOOLEAN
  /\ CallOK

\* The flag and the count agree over any mix of logins, fingerprints, emergency
\* blocks, removals and new registrations: a client is blocked exactly when its
\* attempts are used up, so no client is blocked for less, and none gets a guess
\* more (Authentication.cpp:13, 19-22, 64-65; Authentication.hpp:30).
BlockedIffExhausted ==
  \A c \in DOMAIN credentials :
    /\ credentials[c].isBlocked <=> credentials[c].failedAttempts = MAX_FAILED_ATTEMPTS
    /\ credentials[c].failedAttempts <= MAX_FAILED_ATTEMPTS

\* The accounts of AccessPolicy, which knows no flag: for every call, with its
\* client and its password or phrase, what it answers and what becomes of the
\* account depends on the passwords tried in a row alone; a wrong password always
\* counts, one of the same hash always passes, and the lock, the emergency block
\* and the session do not disturb each other (Authentication.cpp:4-91).
Alike == [p \in Passwords |-> {q \in Passwords : Hash[q] = Hash[p]}]
Policy ==
  INSTANCE AccessPolicy WITH
    MaxFailures <- MAX_FAILED_ATTEMPTS,
    UnlockPhrase <- EmergencyUnlock,
    accounts <- [c \in DOMAIN credentials |->
                  [accepts |-> {p \in Passwords : Hash[p] = credentials[c].hashedPassword},
                   failures |-> credentials[c].failedAttempts,
                   session |-> credentials[c].isLogged,
                   suspended |-> credentials[c].emergencyBlocked]],
    answer <- result
ImplementsPolicy == Policy!Spec

\* isAuthorized says what the policy says, in every state (Authentication.cpp:30).
AuthorizedAsPolicy == \A c \in Clients : IsAuthorized(c) <=> Policy!Permitted(c)
=============================================================================
