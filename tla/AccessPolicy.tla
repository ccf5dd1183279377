---------------------------- MODULE AccessPolicy ----------------------------
(***************************************************************************)
(* What the Authentication class promises.  An account is locked by the    *)
(* number of wrong passwords tried in a row, and by nothing else: there is *)
(* no flag that could disagree with the count.  A suspension (an emergency *)
(* block) is independent of the lock.  Every step is one call: the label   *)
(* says which method was called with what, and leaves no choice of what    *)
(* the accounts become and what the call answers.                          *)
(***************************************************************************)
EXTENDS Integers, StdMap

CONSTANTS Clients, Passwords, Phrases, MaxFailures,
          Alike,        \* password -> the passwords that pass for it
          UnlockPhrase  \* the phrase that ends a suspension
VARIABLES accounts, \* client -> [accepts, failures, session, suspended]
          answer,   \* what the last call that answers returned
          call      \* the last call: [op, client, arg]

vars == <<accounts, answer, call>>

Has(c) == c \in DOMAIN accounts
Locked(c) == accounts[c].failures >= MaxFailures
Permitted(c) == Has(c) /\ accounts[c].session /\ ~Locked(c)

Init == accounts = EmptyMap /\ answer = FALSE /\ call = EmptyMap

Called(op, c, arg) == call' = [op |-> op, client |-> c, arg |-> arg]
Answer(b) == answer' = b
Silent == UNCHANGED answer
Same == UNCHANGED accounts
Change(c, account) == accounts' = [accounts EXCEPT ![c] = account]

\* A new account accepts the passwords that pass for the one it was made with;
\* an account there is stays as it is.
Register(c, p) ==
  /\ Called("addCredentials", c, p) /\ Silent
  /\ \/ Has(c) /\ Same
     \/ /\ ~Has(c)
        /\ accounts' = Assign(accounts, c, [accepts |-> Alike[p], failures |-> 0,
                                session |-> FALSE, suspended |-> FALSE])

Remove(c) ==
  Called("removeCredentials", c, c) /\ accounts' = Erase(accounts, c) /\ Silent

MayLogin(c) == Has(c) /\ ~Locked(c) /\ ~accounts[c].suspended
Login(c, p) ==
  /\ Called("authenticate", c, p)
  /\ \/ ~MayLogin(c) /\ Same /\ Answer(FALSE)
     \/ /\ MayLogin(c) /\ p \in accounts[c].accepts
        /\ Change(c, [accounts[c] EXCEPT !.failures = 0, !.session = TRUE])
        /\ Answer(TRUE)
     \/ /\ MayLogin(c) /\ p \notin accounts[c].accepts
        /\ Change(c, [accounts[c] EXCEPT !.failures = @ + 1])
        /\ Answer(FALSE)

Logout(c) ==
  /\ Called("setLoggedOut", c, c) /\ Silent
  /\ \/ ~Has(c) /\ Same
     \/ Has(c) /\ Change(c, [accounts[c] EXCEPT !.session = FALSE])

\* A fingerprint lifts the lock and starts a session.
LiftLock(c) ==
  /\ Called("unblockWithFingerprint", c, c)
  /\ \/ ~(Has(c) /\ Locked(c)) /\ Same /\ Answer(FALSE)
     \/ /\ Has(c) /\ Locked(c) /\ Answer(TRUE)
        /\ Change(c, [accounts[c] EXCEPT !.failures = 0, !.session = TRUE])

Suspend(c) ==
  /\ Called("blockDueToEmergency", c, c) /\ Silent
  /\ \/ ~Has(c) /\ Same
     \/ Has(c) /\ Change(c, [accounts[c] EXCEPT !.suspended = TRUE])

\* The right phrase, and no other, lifts the suspension; the lock and the
\* session stay as they are.
LiftSuspension(c, phrase) ==
  LET lifts == Has(c) /\ accounts[c].suspended /\ phrase = UnlockPhrase IN
  /\ Called("unlockWithSecretPhrase", c, phrase)
  /\ \/ ~lifts /\ Same /\ Answer(FALSE)
     \/ /\ lifts /\ Answer(TRUE)
        /\ Change(c, [accounts[c] EXCEPT !.suspended = FALSE])

Next == \E c \in Clients :
  \/ Remove(c) \/ Logout(c) \/ LiftLock(c) \/ Suspend(c)
  \/ \E phrase \in Phrases : LiftSuspension(c, phrase)
  \/ \E p \in Passwords : Register(c, p) \/ Login(c, p)

Spec == Init /\ [][Next]_vars
=============================================================================
