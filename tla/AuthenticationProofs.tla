------------------------ MODULE AuthenticationProofs ------------------------
(***************************************************************************)
(* What is proved of Authentication for every set of clients, every hash   *)
(* function and every number of attempts.                                  *)
(***************************************************************************)
EXTENDS Authentication, TLAPS

\* The type invariant without the label of the last call.
DataOK == IsMap(credentials, Clients, AuthData) /\ result \in BOOLEAN

IInv == DataOK /\ BlockedIffExhausted

LEMMA InitInv == Init => IInv
  BY DEF Init, IInv, DataOK, BlockedIffExhausted, IsMap, EmptyMap

\* The account of one client, and the accounts of all, as the policy sees them.
Account(auth) ==
  [accepts |-> {p \in Passwords : Hash[p] = auth.hashedPassword},
   failures |-> auth.failedAttempts,
   session |-> auth.isLogged,
   suspended |-> auth.emergencyBlocked]
accts == [c \in DOMAIN credentials |-> Account(credentials[c])]

\* AuthData whose flag agrees with its count.
Consistent(auth) ==
  /\ auth \in AuthData
  /\ auth.isBlocked <=> auth.failedAttempts = MAX_FAILED_ATTEMPTS
  /\ auth.failedAttempts <= MAX_FAILED_ATTEMPTS

LEMMA InvByClient ==
  IInv <=> /\ DOMAIN credentials \subseteq Clients /\ result \in BOOLEAN
           /\ credentials = [c \in DOMAIN credentials |-> credentials[c]]
           /\ \A c \in DOMAIN credentials : Consistent(credentials[c])
  BY DEF IInv, DataOK, BlockedIffExhausted, IsMap, Consistent

\* Changing one client's data to consistent data.
LEMMA ChangeOne ==
  ASSUME IInv, NEW c \in DOMAIN credentials, NEW auth, Consistent(auth),
         credentials' = [credentials EXCEPT ![c] = auth], result' \in BOOLEAN
  PROVE  /\ IInv'
         /\ accts' = [accts EXCEPT ![c] = Account(auth)]
<1>1. /\ DOMAIN credentials \subseteq Clients
      /\ \A d \in DOMAIN credentials : Consistent(credentials[d])
  BY InvByClient
<1>2. /\ DOMAIN credentials' = DOMAIN credentials
      /\ \A d \in DOMAIN credentials : credentials'[d] = IF d = c THEN auth ELSE credentials[d]
      /\ credentials' = [d \in DOMAIN credentials' |-> credentials'[d]]
  BY DEF IInv, DataOK, IsMap
<1>3. IInv'
  <2>1. \A d \in DOMAIN credentials' : Consistent(credentials'[d])
    BY <1>1, <1>2
  <2> QED
    BY <1>1, <1>2, <2>1 DEF IInv, DataOK, BlockedIffExhausted, IsMap, Consistent
<1>4. accts' = [accts EXCEPT ![c] = Account(auth)]
  BY <1>2 DEF accts, Account
<1> QED
  BY <1>3, <1>4

-----------------------------------------------------------------------------
\* What the methods make of one client's data, seen by the policy.
AccountType == [accepts : SUBSET Passwords, failures : Nat,
                session : BOOLEAN, suspended : BOOLEAN]

LEMMA SameAccount ==
  ASSUME NEW r \in AccountType, NEW s \in AccountType,
         r.accepts = s.accepts, r.failures = s.failures,
         r.session = s.session, r.suspended = s.suspended
  PROVE  r = s
  BY DEF AccountType

LEMMA AccountFields ==
  ASSUME NEW auth \in AuthData
  PROVE  /\ Account(auth) \in AccountType
         /\ Account(auth).accepts = {p \in Passwords : Hash[p] = auth.hashedPassword}
         /\ Account(auth).failures = auth.failedAttempts
         /\ Account(auth).session = auth.isLogged
         /\ Account(auth).suspended = auth.emergencyBlocked
  BY DEF Account, AccountType, AuthData

\* Two views of the same change are equal.
LEMMA SameChange ==
  ASSUME NEW auth \in AuthData, NEW new \in AuthData, NEW abs \in AccountType,
         new.hashedPassword = auth.hashedPassword,
         abs.accepts = Account(auth).accepts, abs.failures = new.failedAttempts,
         abs.session = new.isLogged, abs.suspended = new.emergencyBlocked
  PROVE  Account(new) = abs
<1>1. /\ Account(new) \in AccountType /\ Account(new).accepts = abs.accepts
      /\ Account(new).failures = abs.failures /\ Account(new).session = abs.session
      /\ Account(new).suspended = abs.suspended
  BY AccountFields
<1> QED
  BY <1>1, SameAccount

\* The right password.
LEMMA LoginChange ==
  ASSUME NEW auth \in AuthData
  PROVE  /\ [auth EXCEPT !.failedAttempts = 0, !.isLogged = TRUE] \in AuthData
         /\ [auth EXCEPT !.failedAttempts = 0, !.isLogged = TRUE].failedAttempts = 0
         /\ [auth EXCEPT !.failedAttempts = 0, !.isLogged = TRUE].isBlocked = auth.isBlocked
         /\ Account([auth EXCEPT !.failedAttempts = 0, !.isLogged = TRUE])
              = [Account(auth) EXCEPT !.failures = 0, !.session = TRUE]
<1> DEFINE acc == Account(auth)
           new == [auth EXCEPT !.failedAttempts = 0, !.isLogged = TRUE]
           abs == [acc EXCEPT !.failures = 0, !.session = TRUE]
<1>1. /\ new \in AuthData /\ new.hashedPassword = auth.hashedPassword
      /\ new.isLogged = TRUE /\ new.failedAttempts = 0
      /\ new.isBlocked = auth.isBlocked /\ new.emergencyBlocked = auth.emergencyBlocked
  BY DEF AuthData
<1>2. /\ acc \in AccountType /\ acc.failures = auth.failedAttempts
      /\ acc.session = auth.isLogged /\ acc.suspended = auth.emergencyBlocked
  BY AccountFields
<1> HIDE DEF acc
<1>3. /\ abs \in AccountType /\ abs.accepts = acc.accepts
      /\ abs.failures = 0 /\ abs.session = TRUE /\ abs.suspended = acc.suspended
  BY <1>2 DEF AccountType
<1> HIDE DEF new, abs
<1>4. Account(new) = abs
  BY <1>1, <1>2, <1>3, SameChange DEF acc
<1> QED
  BY <1>1, <1>4 DEF abs, acc, new

\* A wrong password.
LEMMA FailureChange ==
  ASSUME NEW auth \in AuthData, auth.isBlocked = FALSE,
         auth.failedAttempts < MAX_FAILED_ATTEMPTS
  PROVE  /\ Consistent(Failed(auth))
         /\ Account(Failed(auth)) = [Account(auth) EXCEPT !.failures = @ + 1]
<1> DEFINE acc == Account(auth)
           n == auth.failedAttempts + 1
           new == Failed(auth)
           counted == [auth EXCEPT !.failedAttempts = @ + 1]
           blocked == [counted EXCEPT !.isBlocked = TRUE]
           abs == [acc EXCEPT !.failures = @ + 1]
<1>1. /\ counted \in AuthData /\ counted.hashedPassword = auth.hashedPassword
      /\ counted.isLogged = auth.isLogged /\ counted.failedAttempts = n
      /\ counted.isBlocked = FALSE /\ counted.emergencyBlocked = auth.emergencyBlocked
  BY DEF AuthData
<1>2. new = IF n >= MAX_FAILED_ATTEMPTS THEN blocked ELSE counted
  BY <1>1 DEF Failed, Exhausted
<1> HIDE DEF counted
<1>3. /\ blocked \in AuthData /\ blocked.hashedPassword = auth.hashedPassword
      /\ blocked.isLogged = auth.isLogged /\ blocked.failedAttempts = n
      /\ blocked.isBlocked = TRUE /\ blocked.emergencyBlocked = auth.emergencyBlocked
  BY <1>1 DEF AuthData
<1> HIDE DEF blocked, new
<1>4. Consistent(new)
  BY <1>1, <1>2, <1>3, ConstantAssumption DEF Consistent, AuthData
<1>5. /\ new \in AuthData /\ new.hashedPassword = auth.hashedPassword
      /\ new.isLogged = auth.isLogged /\ new.failedAttempts = n
      /\ new.emergencyBlocked = auth.emergencyBlocked
  BY <1>1, <1>2, <1>3
<1>6. /\ acc \in AccountType /\ acc.failures = auth.failedAttempts
      /\ acc.session = auth.isLogged /\ acc.suspended = auth.emergencyBlocked
  BY AccountFields
<1> HIDE DEF acc
<1>7. /\ abs \in AccountType /\ abs.accepts = acc.accepts
      /\ abs.failures = n /\ abs.session = acc.session /\ abs.suspended = acc.suspended
  BY <1>6 DEF AccountType
<1> HIDE DEF abs, n
<1>8. Account(new) = abs
  BY <1>5, <1>6, <1>7, SameChange DEF acc
<1> QED
  BY <1>4, <1>8 DEF abs, acc, new

\* Logging out.
LEMMA LogoutChange ==
  ASSUME NEW auth \in AuthData
  PROVE  /\ [auth EXCEPT !.isLogged = FALSE] \in AuthData
         /\ [auth EXCEPT !.isLogged = FALSE].failedAttempts = auth.failedAttempts
         /\ [auth EXCEPT !.isLogged = FALSE].isBlocked = auth.isBlocked
         /\ Account([auth EXCEPT !.isLogged = FALSE])
              = [Account(auth) EXCEPT !.session = FALSE]
<1> DEFINE acc == Account(auth)
           new == [auth EXCEPT !.isLogged = FALSE]
           abs == [acc EXCEPT !.session = FALSE]
<1>1. /\ new \in AuthData /\ new.hashedPassword = auth.hashedPassword
      /\ new.isLogged = FALSE /\ new.failedAttempts = auth.failedAttempts
      /\ new.isBlocked = auth.isBlocked /\ new.emergencyBlocked = auth.emergencyBlocked
  BY DEF AuthData
<1>2. /\ acc \in AccountType /\ acc.failures = auth.failedAttempts
      /\ acc.session = auth.isLogged /\ acc.suspended = auth.emergencyBlocked
  BY AccountFields
<1> HIDE DEF acc
<1>3. /\ abs \in AccountType /\ abs.accepts = acc.accepts
      /\ abs.failures = acc.failures /\ abs.session = FALSE /\ abs.suspended = acc.suspended
  BY <1>2 DEF AccountType
<1> HIDE DEF new, abs
<1>4. Account(new) = abs
  BY <1>1, <1>2, <1>3, SameChange DEF acc
<1> QED
  BY <1>1, <1>4 DEF abs, acc, new

\* A fingerprint.
LEMMA UnblockChange ==
  ASSUME NEW auth \in AuthData
  PROVE  /\ Unblocked(auth) \in AuthData
         /\ Unblocked(auth).failedAttempts = 0
         /\ Unblocked(auth).isBlocked = FALSE
         /\ Account(Unblocked(auth))
              = [Account(auth) EXCEPT !.failures = 0, !.session = TRUE]
<1> DEFINE acc == Account(auth)
           new == Unblocked(auth)
           abs == [acc EXCEPT !.failures = 0, !.session = TRUE]
<1>1. /\ new \in AuthData /\ new.hashedPassword = auth.hashedPassword
      /\ new.isLogged = TRUE /\ new.failedAttempts = 0
      /\ new.isBlocked = FALSE /\ new.emergencyBlocked = auth.emergencyBlocked
  BY DEF AuthData, Unblocked
<1>2. /\ acc \in AccountType /\ acc.failures = auth.failedAttempts
      /\ acc.session = auth.isLogged /\ acc.suspended = auth.emergencyBlocked
  BY AccountFields
<1> HIDE DEF acc
<1>3. /\ abs \in AccountType /\ abs.accepts = acc.accepts
      /\ abs.failures = 0 /\ abs.session = TRUE /\ abs.suspended = acc.suspended
  BY <1>2 DEF AccountType
<1> HIDE DEF new, abs
<1>4. Account(new) = abs
  BY <1>1, <1>2, <1>3, SameChange DEF acc
<1> QED
  BY <1>1, <1>4 DEF abs, acc, new

\* An emergency block, or its end.
LEMMA EmergencyChange ==
  ASSUME NEW auth \in AuthData, NEW b \in BOOLEAN
  PROVE  /\ [auth EXCEPT !.emergencyBlocked = b] \in AuthData
         /\ [auth EXCEPT !.emergencyBlocked = b].failedAttempts = auth.failedAttempts
         /\ [auth EXCEPT !.emergencyBlocked = b].isBlocked = auth.isBlocked
         /\ Account([auth EXCEPT !.emergencyBlocked = b])
              = [Account(auth) EXCEPT !.suspended = b]
<1> DEFINE acc == Account(auth)
           new == [auth EXCEPT !.emergencyBlocked = b]
           abs == [acc EXCEPT !.suspended = b]
<1>1. /\ new \in AuthData /\ new.hashedPassword = auth.hashedPassword
      /\ new.isLogged = auth.isLogged /\ new.failedAttempts = auth.failedAttempts
      /\ new.isBlocked = auth.isBlocked /\ new.emergencyBlocked = b
  BY DEF AuthData
<1>2. /\ acc \in AccountType /\ acc.failures = auth.failedAttempts
      /\ acc.session = auth.isLogged /\ acc.suspended = auth.emergencyBlocked
  BY AccountFields
<1> HIDE DEF acc
<1>3. /\ abs \in AccountType /\ abs.accepts = acc.accepts
      /\ abs.failures = acc.failures /\ abs.session = acc.session /\ abs.suspended = b
  BY <1>2 DEF AccountType
<1> HIDE DEF new, abs
<1>4. Account(new) = abs
  BY <1>1, <1>2, <1>3, SameChange DEF acc
<1> QED
  BY <1>1, <1>4 DEF abs, acc, new

-----------------------------------------------------------------------------
\* Each method is a step of the policy and keeps the invariant.
\* A known client, in the two views.
LEMMA KnownClient ==
  ASSUME IInv, NEW c, Known(c)
  PROVE  /\ c \in DOMAIN credentials /\ credentials[c] \in AuthData
         /\ Consistent(credentials[c]) /\ accts[c] = Account(credentials[c])
         /\ Policy!Has(c)
         /\ Policy!Locked(c) <=> credentials[c].isBlocked
         /\ accts[c].suspended = credentials[c].emergencyBlocked
         /\ accts[c].accepts = {p \in Passwords : Hash[p] = credentials[c].hashedPassword}
<1>1. /\ c \in DOMAIN credentials /\ Consistent(credentials[c])
      /\ credentials[c] \in AuthData
  BY InvByClient DEF Known, Consistent
<1>2. accts[c] = Account(credentials[c])
  BY <1>1 DEF accts
<1>3. /\ Policy!Has(c)
      /\ Policy!Locked(c) <=> credentials[c].failedAttempts >= MAX_FAILED_ATTEMPTS
  BY <1>1 DEF Policy!Has, Policy!Locked
<1>4. credentials[c].failedAttempts \in Nat
  BY <1>1 DEF AuthData
<1> QED
  BY <1>1, <1>2, <1>3, <1>4, ConstantAssumption, AccountFields
     DEF Consistent, Policy!Has

LEMMA Nothing ==
  ASSUME IInv, UNCHANGED credentials, result' \in BOOLEAN
  PROVE  IInv' /\ accts' = accts
  BY DEF IInv, DataOK, BlockedIffExhausted, accts

LEMMA AuthenticateStep ==
  ASSUME IInv, NEW c \in Clients, NEW p \in Passwords,
         Called("authenticate", c, p), Authenticate(c, p)
  PROVE  IInv' /\ Policy!Login(c, p)
<1> DEFINE auth == credentials[c]
<1>1. Policy!MayLogin(c) <=> MayTry(c)
  <2>1. CASE Known(c)
    BY <2>1, KnownClient DEF Policy!MayLogin, MayTry, accts
  <2>2. CASE ~Known(c)
    BY <2>2 DEF Policy!MayLogin, Policy!Has, MayTry, Known
  <2> QED
    BY <2>1, <2>2
<1>2. CASE ~MayTry(c) /\ ReturnFalse
  <2>1. IInv' /\ accts' = accts /\ result' = FALSE
    BY <1>2, Nothing DEF ReturnFalse
  <2> QED
    BY <1>1, <1>2, <2>1 DEF Policy!Login, Policy!Same, Policy!Answer, Policy!Called, Called, accts, Account
<1>3. CASE /\ MayTry(c) /\ credentials[c].hashedPassword = Hash[p]
           /\ credentials' = [credentials EXCEPT ![c] =
                               [@ EXCEPT !.failedAttempts = 0, !.isLogged = TRUE]]
           /\ result' = TRUE
  <2> DEFINE new == [auth EXCEPT !.failedAttempts = 0, !.isLogged = TRUE]
  <2>1. Known(c) /\ ~auth.isBlocked
    BY <1>3 DEF MayTry
  <2>2. /\ new \in AuthData /\ new.failedAttempts = 0 /\ new.isBlocked = auth.isBlocked
        /\ Account(new) = [Account(auth) EXCEPT !.failures = 0, !.session = TRUE]
    BY <2>1, KnownClient, LoginChange
  <2>3. Consistent(new)
    BY <2>1, <2>2, ConstantAssumption DEF Consistent
  <2>4. credentials' = [credentials EXCEPT ![c] = new]
    BY <1>3
  <2> HIDE DEF new
  <2>5. IInv' /\ accts' = [accts EXCEPT ![c] = Account(new)]
    BY <1>3, <2>1, <2>3, <2>4, ChangeOne DEF Known
  <2>6. accts' = [accts EXCEPT ![c] = [accts[c] EXCEPT !.failures = 0, !.session = TRUE]]
    BY <2>1, <2>2, <2>5, KnownClient
  <2>7. p \in accts[c].accepts
    BY <1>3, <2>1, KnownClient
  <2> QED
    BY <1>1, <1>3, <2>5, <2>6, <2>7 DEF Policy!Login, Policy!Change, Policy!Answer, Policy!Silent,
         Policy!Called, Called, accts, Account
<1>4. CASE /\ MayTry(c) /\ credentials[c].hashedPassword # Hash[p]
           /\ credentials' = [credentials EXCEPT ![c] = Failed(@)]
           /\ result' = FALSE
  <2> DEFINE new == Failed(auth)
  <2>1. /\ Known(c) /\ auth \in AuthData /\ auth.isBlocked = FALSE
        /\ auth.failedAttempts < MAX_FAILED_ATTEMPTS
    BY <1>4, KnownClient, ConstantAssumption DEF MayTry, AuthData, Consistent
  <2>2. /\ Consistent(new)
        /\ Account(new) = [Account(auth) EXCEPT !.failures = @ + 1]
    BY <2>1, FailureChange
  <2>3. credentials' = [credentials EXCEPT ![c] = new]
    BY <1>4
  <2> HIDE DEF new
  <2>4. IInv' /\ accts' = [accts EXCEPT ![c] = Account(new)]
    BY <1>4, <2>1, <2>2, <2>3, ChangeOne DEF Known
  <2>5. accts' = [accts EXCEPT ![c] = [accts[c] EXCEPT !.failures = @ + 1]]
    BY <2>1, <2>2, <2>4, KnownClient
  <2>6. p \notin accts[c].accepts
    BY <1>4, <2>1, KnownClient
  <2> QED
    BY <1>1, <1>4, <2>4, <2>5, <2>6 DEF Policy!Login, Policy!Change, Policy!Answer, Policy!Silent,
         Policy!Called, Called, accts, Account
<1> QED
  BY <1>2, <1>3, <1>4 DEF Authenticate

\* The change of one known client's data that a method makes.
LEMMA ChangeKnown ==
  ASSUME IInv, NEW c, Known(c), NEW new, NEW abs, Consistent(new), Account(new) = abs,
         credentials' = [credentials EXCEPT ![c] = new], result' \in BOOLEAN
  PROVE  IInv' /\ accts' = [accts EXCEPT ![c] = abs]
  BY ChangeOne DEF Known

LEMMA LogoutStep ==
  ASSUME IInv, NEW c \in Clients,
         Called("setLoggedOut", c, c), SetLoggedOut(c)
  PROVE  IInv' /\ Policy!Logout(c)
<1> DEFINE auth == credentials[c]
           new == [auth EXCEPT !.isLogged = FALSE]
           abs == [accts[c] EXCEPT !.session = FALSE]
<1>0. result' = result /\ result \in BOOLEAN
  BY DEF SetLoggedOut, IInv, DataOK
<1>1. CASE ~Known(c) /\ UNCHANGED <<credentials, result>>
  <2>1. IInv' /\ accts' = accts
    BY <1>0, <1>1, Nothing
  <2> QED
    BY <1>0, <1>1, <2>1 DEF Policy!Logout, Policy!Has, Known, Policy!Same, Policy!Silent,
         Policy!Called, Called, accts, Account
<1>2. CASE Known(c) /\ credentials' = [credentials EXCEPT ![c] = new]
  <2>1. /\ auth \in AuthData /\ Consistent(auth) /\ accts[c] = Account(auth)
    BY <1>2, KnownClient
  <2>2. Consistent(new) /\ Account(new) = abs
    BY <2>1, LogoutChange DEF Consistent
  <2> HIDE DEF new, abs
  <2>3. IInv' /\ accts' = [accts EXCEPT ![c] = abs]
    BY <1>0, <1>2, <2>2, ChangeKnown
  <2> QED
    BY <1>0, <1>2, <2>3, KnownClient
       DEF Policy!Logout, Policy!Change, Policy!Silent, Policy!Called, Called,
           abs, accts, Account
<1> QED
  BY <1>1, <1>2 DEF SetLoggedOut

LEMMA UnblockStep ==
  ASSUME IInv, NEW c \in Clients,
         Called("unblockWithFingerprint", c, c), UnblockWithFingerprint(c)
  PROVE  IInv' /\ Policy!LiftLock(c)
<1> DEFINE auth == credentials[c]
           new == Unblocked(auth)
           abs == [accts[c] EXCEPT !.failures = 0, !.session = TRUE]
<1>1. Policy!Has(c) /\ Policy!Locked(c) <=> Known(c) /\ credentials[c].isBlocked
  BY KnownClient DEF Policy!Has, Known, accts
<1>2. CASE ~(Known(c) /\ credentials[c].isBlocked) /\ ReturnFalse
  BY <1>1, <1>2, Nothing DEF Policy!LiftLock, Policy!Same, Policy!Answer, Policy!Called, Called, ReturnFalse, accts, Account
<1>3. CASE /\ Known(c) /\ credentials[c].isBlocked
           /\ credentials' = [credentials EXCEPT ![c] = new] /\ result' = TRUE
  <2>1. auth \in AuthData /\ Consistent(auth) /\ accts[c] = Account(auth)
    BY <1>3, KnownClient
  <2>2. /\ new \in AuthData /\ new.failedAttempts = 0 /\ new.isBlocked = FALSE
        /\ Account(new) = abs
    BY <2>1, UnblockChange
  <2> HIDE DEF new, abs
  <2>4. Consistent(new)
    BY <2>2, ConstantAssumption DEF Consistent
  <2>3. IInv' /\ accts' = [accts EXCEPT ![c] = abs]
    BY <1>3, <2>2, <2>4, ChangeKnown
  <2> QED
    BY <1>1, <1>3, <2>3 DEF Policy!LiftLock, Policy!Change, Policy!Answer, Policy!Silent,
         Policy!Called, Called, abs, accts, Account
<1> QED
  BY <1>2, <1>3 DEF UnblockWithFingerprint

LEMMA EmergencyStep ==
  ASSUME IInv, NEW c \in Clients,
         Called("blockDueToEmergency", c, c), BlockDueToEmergency(c)
  PROVE  IInv' /\ Policy!Suspend(c)
<1> DEFINE auth == credentials[c]
           new == [auth EXCEPT !.emergencyBlocked = TRUE]
           abs == [accts[c] EXCEPT !.suspended = TRUE]
<1>0. result' = result /\ result \in BOOLEAN
  BY DEF BlockDueToEmergency, IInv, DataOK
<1>1. CASE ~Known(c) /\ UNCHANGED <<credentials, result>>
  <2>1. IInv' /\ accts' = accts
    BY <1>0, <1>1, Nothing
  <2> QED
    BY <1>0, <1>1, <2>1 DEF Policy!Suspend, Policy!Has, Known, Policy!Same, Policy!Silent,
         Policy!Called, Called, accts, Account
<1>2. CASE Known(c) /\ credentials' = [credentials EXCEPT ![c] = new]
  <2>1. /\ auth \in AuthData /\ Consistent(auth) /\ accts[c] = Account(auth)
    BY <1>2, KnownClient
  <2>2. Consistent(new) /\ Account(new) = abs
    BY <2>1, EmergencyChange DEF Consistent
  <2> HIDE DEF new, abs
  <2>3. IInv' /\ accts' = [accts EXCEPT ![c] = abs]
    BY <1>0, <1>2, <2>2, ChangeKnown
  <2> QED
    BY <1>0, <1>2, <2>3, KnownClient
       DEF Policy!Suspend, Policy!Change, Policy!Silent, Policy!Called, Called,
           abs, accts, Account
<1> QED
  BY <1>1, <1>2 DEF BlockDueToEmergency

LEMMA PhraseStep ==
  ASSUME IInv, NEW c \in Clients, NEW phrase,
         Called("unlockWithSecretPhrase", c, phrase), UnlockWithSecretPhrase(c, phrase)
  PROVE  IInv' /\ Policy!LiftSuspension(c, phrase)
<1> DEFINE auth == credentials[c]
           new == [auth EXCEPT !.emergencyBlocked = FALSE]
           abs == [accts[c] EXCEPT !.suspended = FALSE]
<1>0. /\ Policy!Has(c) <=> Known(c)
      /\ Known(c) => (accts[c].suspended <=> credentials[c].emergencyBlocked)
  BY KnownClient DEF Policy!Has, Known, accts
<1>1. CASE /\ ~(Known(c) /\ credentials[c].emergencyBlocked /\ phrase = EmergencyUnlock)
           /\ ReturnFalse
  BY <1>0, <1>1, Nothing DEF Policy!LiftSuspension, Policy!Same, Policy!Answer, Policy!Called, Called, ReturnFalse, accts, Account
<1>2. CASE /\ Known(c) /\ credentials[c].emergencyBlocked /\ phrase = EmergencyUnlock
           /\ credentials' = [credentials EXCEPT ![c] = new] /\ result' = TRUE
  <2>1. auth \in AuthData /\ Consistent(auth) /\ accts[c] = Account(auth)
    BY <1>2, KnownClient
  <2>2. Consistent(new) /\ Account(new) = abs
    BY <2>1, EmergencyChange DEF Consistent
  <2> HIDE DEF new, abs
  <2>3. IInv' /\ accts' = [accts EXCEPT ![c] = abs]
    BY <1>2, <2>2, ChangeKnown
  <2>4. Policy!Has(c) /\ accts[c].suspended
    BY <1>2, KnownClient
  <2> QED
    BY <1>2, <2>3, <2>4 DEF Policy!LiftSuspension, Policy!Change, Policy!Answer, Policy!Silent,
         Policy!Called, Called, abs, accts, Account
<1> QED
  BY <1>1, <1>2 DEF UnlockWithSecretPhrase

LEMMA AddStep ==
  ASSUME IInv, NEW c \in Clients, NEW p \in Passwords,
         Called("addCredentials", c, p), AddCredentials(c, p)
  PROVE  IInv' /\ Policy!Register(c, p)
<1> DEFINE new == [hashedPassword |-> Hash[p], isLogged |-> FALSE,
                   failedAttempts |-> 0, isBlocked |-> FALSE,
                   emergencyBlocked |-> FALSE]
           S == Alike[p]
           abs == [accepts |-> S, failures |-> 0, session |-> FALSE, suspended |-> FALSE]
<1>1. CASE Known(c) /\ UNCHANGED <<credentials, result>>
  <2>1. IInv' /\ accts' = accts
    BY <1>1, Nothing DEF IInv, DataOK
  <2> QED
    BY <1>1, <2>1 DEF Policy!Register, Policy!Has, Known, Policy!Same, Policy!Silent,
         Policy!Called, Called, accts, Account
<1>2. CASE /\ ~Known(c) /\ credentials' = Assign(credentials, c, new) /\ UNCHANGED result
  <2>1. /\ ~Known(c) /\ UNCHANGED result
        /\ credentials' = [x \in DOMAIN credentials \cup {c} |->
                             IF x = c THEN new ELSE credentials[x]]
    BY <1>2 DEF Assign
  <2>2. Consistent(new)
    BY ConstantAssumption DEF Consistent, AuthData
  <2>3. Account(new) = abs
    BY DEF Account, Alike
  <2> HIDE DEF new
  <2>4. /\ DOMAIN credentials' = DOMAIN credentials \cup {c}
        /\ \A d \in DOMAIN credentials' :
             credentials'[d] = IF d = c THEN new ELSE credentials[d]
        /\ credentials' = [d \in DOMAIN credentials' |-> credentials'[d]]
    BY <2>1
  <2>5. \A d \in DOMAIN credentials : Consistent(credentials[d])
    BY InvByClient
  <2>6. \A d \in DOMAIN credentials' : Consistent(credentials'[d])
    BY <2>2, <2>4, <2>5
  <2>7. IInv'
    BY <2>1, <2>4, <2>6 DEF IInv, DataOK, BlockedIffExhausted, IsMap, Consistent
  <2>8. accts' = [x \in DOMAIN accts \cup {c} |-> IF x = c THEN abs ELSE accts[x]]
    <3> HIDE DEF abs
    <3>1. accts' = [x \in DOMAIN credentials' |-> Account(credentials'[x])]
      BY DEF accts, Account
    <3>2. /\ DOMAIN accts = DOMAIN credentials
          /\ \A x \in DOMAIN credentials : accts[x] = Account(credentials[x])
      BY DEF accts
    <3>3. \A x \in DOMAIN credentials' :
            Account(credentials'[x]) = IF x = c THEN abs ELSE accts[x]
      BY <2>3, <2>4, <3>2
    <3> QED
      BY <2>4, <3>1, <3>2, <3>3
  <2>9. ~Policy!Has(c)
    BY <2>1 DEF Known, Policy!Has, accts
  <2> QED
    BY <2>1, <2>7, <2>8, <2>9 DEF Policy!Register, Policy!Assign, Policy!Silent,
         Policy!Called, Called, accts, Account
<1> QED
  BY <1>1, <1>2 DEF AddCredentials

LEMMA RemoveStep ==
  ASSUME IInv, NEW c \in Clients,
         Called("removeCredentials", c, c), RemoveCredentials(c)
  PROVE  IInv' /\ Policy!Remove(c)
<1>1. /\ credentials' = [x \in DOMAIN credentials \ {c} |-> credentials[x]]
      /\ UNCHANGED result
  BY DEF RemoveCredentials, Erase
<1>2. IInv'
  BY <1>1 DEF IInv, DataOK, BlockedIffExhausted, IsMap
<1>3. accts' = [x \in DOMAIN accts \ {c} |-> accts[x]]
  BY <1>1 DEF accts
<1> QED
  BY <1>1, <1>2, <1>3 DEF Policy!Remove, Policy!Erase, Policy!Silent,
         Policy!Called, Called, accts, Account

LEMMA PolicyInitial == Init => Policy!Init
<1> SUFFICES ASSUME Init PROVE Policy!Init
  OBVIOUS
<1>1. DOMAIN credentials = {} /\ result = FALSE
  BY DEF Init, EmptyMap
<1>2. accts = [k \in {} |-> k]
  BY <1>1 DEF accts
<1> QED
  BY <1>1, <1>2 DEF Policy!Init, Policy!EmptyMap, Init, EmptyMap, accts, Account

LEMMA PolicyStep ==
  IInv /\ [Next]_vars => IInv' /\ [Policy!Next]_(Policy!vars)
<1> SUFFICES ASSUME IInv, [Next]_vars
             PROVE  IInv' /\ (Policy!Next \/ UNCHANGED Policy!vars)
  OBVIOUS
<1>1. CASE UNCHANGED vars
  BY <1>1, Nothing DEF vars, IInv, DataOK, Policy!vars, accts, Account
<1>2. ASSUME NEW c \in Clients, NEW p \in Passwords,
             \/ Called("addCredentials", c, p) /\ AddCredentials(c, p)
             \/ Called("authenticate", c, p) /\ Authenticate(c, p)
      PROVE  IInv' /\ Policy!Next
  BY <1>2, AddStep, AuthenticateStep DEF Policy!Next
<1>3. ASSUME NEW c \in Clients,
             \/ Called("removeCredentials", c, c) /\ RemoveCredentials(c)
             \/ Called("setLoggedOut", c, c) /\ SetLoggedOut(c)
             \/ Called("unblockWithFingerprint", c, c) /\ UnblockWithFingerprint(c)
             \/ Called("blockDueToEmergency", c, c) /\ BlockDueToEmergency(c)
      PROVE  IInv' /\ Policy!Next
  BY <1>3, RemoveStep, LogoutStep, UnblockStep, EmergencyStep DEF Policy!Next
<1>4. ASSUME NEW c \in Clients, NEW phrase \in Phrases,
             Called("unlockWithSecretPhrase", c, phrase),
             UnlockWithSecretPhrase(c, phrase)
      PROVE  IInv' /\ Policy!Next
  BY <1>4, PhraseStep DEF Policy!Next
<1> QED
  BY <1>1, <1>2, <1>3, <1>4 DEF Next

\* The label of the last call keeps its type.
LEMMA CallInv == CallOK /\ [Next]_vars => CallOK'
<1> SUFFICES ASSUME CallOK, [Next]_vars PROVE CallOK'
  OBVIOUS
<1>1. ASSUME NEW op \in Ops, NEW c \in Clients,
             NEW arg \in Clients \cup Passwords \cup Phrases, Called(op, c, arg)
      PROVE  CallOK'
  BY <1>1 DEF Called, CallOK
<1>2. CASE Next
  <2>1. PICK c \in Clients :
          \/ \E p \in Passwords :
               Called("addCredentials", c, p) \/ Called("authenticate", c, p)
          \/ Called("removeCredentials", c, c) \/ Called("setLoggedOut", c, c)
          \/ Called("unblockWithFingerprint", c, c) \/ Called("blockDueToEmergency", c, c)
          \/ \E phrase \in Phrases : Called("unlockWithSecretPhrase", c, phrase)
    BY <1>2 DEF Next
  <2> QED
    BY <1>1, <2>1 DEF Ops
<1>3. CASE UNCHANGED vars
  BY <1>3 DEF CallOK, vars
<1> QED
  BY <1>2, <1>3

\* Every reachable state is well typed.
THEOREM TypeCorrect == Spec => []TypeOK
<1>1. IInv /\ CallOK => TypeOK
  BY DEF IInv, DataOK, TypeOK
<1>2. Init => CallOK
  BY DEF Init, CallOK
<1> QED
  BY <1>1, <1>2, InitInv, PolicyStep, CallInv, PTL DEF Spec

\* A client is blocked exactly when its attempts are used up, whatever limit
\* and whatever hash function (Authentication.cpp:13, 19-22, 64-65).
THEOREM LockCorrect == Spec => []BlockedIffExhausted
<1>1. IInv => BlockedIffExhausted
  BY DEF IInv
<1> QED
  BY <1>1, InitInv, PolicyStep, PTL DEF Spec

\* Authentication implements the policy, which keeps no lock flag: every call,
\* with its client and its password or phrase, changes the accounts and answers
\* as the policy says of that call (Authentication.cpp:4-91).
THEOREM PolicyImplemented == Spec => ImplementsPolicy
<1>1. Spec => []IInv
  BY InitInv, PolicyStep, PTL DEF Spec
<1> QED
  BY <1>1, PolicyInitial, InitInv, PolicyStep, PTL
     DEF Spec, ImplementsPolicy, Policy!Spec, Policy!vars, accts, Account

\* isAuthorized lets in whom the policy permits: the flag that it looks at
\* stands for the count (Authentication.cpp:30).
THEOREM AuthorizationCorrect == Spec => []AuthorizedAsPolicy
<1>1. IInv => AuthorizedAsPolicy
  <2> SUFFICES ASSUME IInv, NEW c \in Clients
               PROVE  IsAuthorized(c) <=> Policy!Permitted(c)
    BY DEF AuthorizedAsPolicy
  <2>1. /\ DOMAIN accts = DOMAIN credentials
        /\ \A d \in DOMAIN credentials : accts[d] = Account(credentials[d])
    BY DEF accts
  <2>2. CASE c \in DOMAIN credentials
    <3>1. Consistent(credentials[c])
      BY <2>2, InvByClient
    <3>2. credentials[c].isBlocked <=> credentials[c].failedAttempts >= MAX_FAILED_ATTEMPTS
      BY <3>1, ConstantAssumption DEF Consistent, AuthData
    <3>3. Policy!Permitted(c) <=>
            credentials[c].isLogged /\ ~(credentials[c].failedAttempts >= MAX_FAILED_ATTEMPTS)
      BY <2>2 DEF Policy!Permitted, Policy!Has, Policy!Locked
    <3> QED
      BY <2>2, <3>2, <3>3 DEF IsAuthorized, Known
  <2>3. CASE c \notin DOMAIN credentials
    BY <2>3 DEF IsAuthorized, Known, Policy!Permitted, Policy!Has
  <2> QED
    BY <2>2, <2>3
<1> QED
  BY <1>1, InitInv, PolicyStep, PTL DEF Spec
=============================================================================
