--------------------------- MODULE SessionsProofs ---------------------------
(***************************************************************************)
(* Theorems about Sessions, for any finite set of requests, any limit of   *)
(* attempts and any number of accounts and links.                          *)
(***************************************************************************)
EXTENDS Sessions, FiniteSetTheorems, TLAPS

----------------------------------------------------------------------------
(* The inductive invariant                                                 *)

\* The link on file, and the one a reset has looked up, was issued to the
\* account it is about; a used link was issued and is not on file.
LinksAreIssued ==
  /\ user # None => /\ user.link <= Len(issued)
                    /\ user.link # 0 => issued[user.link] = user.id
  /\ \A r \in Requests :
       /\ reqs[r].pc = "mail" => reqs[r].link # 0
       /\ reqs[r].pc = "reset" => /\ reqs[r].link \in 1..Len(issued)
                                  /\ issued[reqs[r].link] = reqs[r].id
  /\ \A u \in used : /\ u[1] \in 1..Len(issued)
                     /\ issued[u[1]] = u[2]
                     /\ user # None => user.link # u[1]

\* Once a logout holds, nothing on its way can store a session.
NobodySignsIn ==
  out => /\ user # None /\ ~user.session
         /\ \A r \in Requests : reqs[r].pc \notin SigningIn

\* Requests whose wrong password is not counted yet, or which were told that
\* the limit is reached and have not locked the address yet.
Pending == {q \in Requests :
              /\ reqs[q].known
              /\ \/ reqs[q].pc = "incr"
                 \/ reqs[q].pc \in {"expire", "lock"} /\ reqs[q].full}

\* Logins past the lock that have not compared their password.
Comparing == {q \in Requests : reqs[q].pc = "find"}

\* Every wrong password is counted or pending; the count that reaches the
\* limit stays pending until the lock.
CountedOrPending ==
  wrong <= Cardinality(Pending)
             + (IF attempts < MaxAttempts THEN attempts ELSE MaxAttempts - 1)

\* The logins past the lock may still add one each.
RoomForComparing ==
  wrong + Cardinality(Comparing) <= MaxAttempts - 1 + Cardinality(Requests)

\* The first holds while the address is not locked, the second once it is.
WrongIsCounted ==
  ~blind => (~lock => CountedOrPending) /\ (lock => RoomForComparing)

IInv == TypeOK /\ LinksAreIssued /\ NobodySignsIn /\ WrongIsCounted

----------------------------------------------------------------------------
(* Types                                                                   *)

\* The state of a request that is not under way.
LEMMA IdleType == Idle \in Request
BY SessionsAssumption DEF Idle, Request, PCs

\* A request begins.
LEMMA BeginType ==
  ASSUME TypeOK, NEW r \in Requests, NEW label \in PCs,
         NEW id \in 0..MaxAccounts, Begin(r, label, id)
  PROVE  reqs' \in [Requests -> Request]
<1>1. [Idle EXCEPT !.pc = label, !.id = id] \in Request
  BY IdleType DEF Request
<1> QED
  BY <1>1 DEF Begin, TypeOK

\* A request goes on to another statement.
LEMMA GotoType ==
  ASSUME TypeOK, NEW r \in Requests, NEW label \in PCs, Goto(r, label)
  PROVE  reqs' \in [Requests -> Request]
<1>1. reqs[r] \in Request
  BY DEF TypeOK
<1>2. [reqs[r] EXCEPT !.pc = label] \in Request
  BY <1>1 DEF Request
<1> QED
  BY <1>2 DEF Goto, TypeOK

\* A request ends.
LEMMA FinishType ==
  ASSUME TypeOK, NEW r \in Requests, Finish(r)
  PROVE  reqs' \in [Requests -> Request]
BY IdleType DEF Finish, TypeOK

\* A request that found the account keeps its id.
LEMMA UserColumns ==
  ASSUME TypeOK, user # None
  PROVE  /\ user \in Accounts
         /\ user.id \in 1..MaxAccounts /\ user.link \in 0..MaxLinks
         /\ user.id \in 0..MaxAccounts
         /\ user.active \in BOOLEAN /\ user.chosen \in BOOLEAN
         /\ user.session \in BOOLEAN
<1>1. user \in Accounts
  BY DEF TypeOK
<1> QED
  BY <1>1, SessionsAssumption DEF Accounts

\* A row is told from its absence.
LEMMA NoneIsNoAccount == None \notin Accounts
BY SessionsAssumption DEF Accounts

\* The columns the requests write keep the row an account.
LEMMA WrittenAccount ==
  ASSUME NEW row \in Accounts, NEW b \in BOOLEAN, NEW link \in 0..MaxLinks
  PROVE  /\ [row EXCEPT !.session = b] \in Accounts
         /\ [row EXCEPT !.active = b] \in Accounts
         /\ [row EXCEPT !.chosen = b] \in Accounts
         /\ [row EXCEPT !.link = link] \in Accounts
         /\ [row EXCEPT !.chosen = b, !.link = link] \in Accounts
<1>1. [row EXCEPT !.session = b] \in Accounts
  BY DEF Accounts
<1>2. [row EXCEPT !.active = b] \in Accounts
  BY DEF Accounts
<1>3. [row EXCEPT !.chosen = b] \in Accounts
  BY DEF Accounts
<1>4. [row EXCEPT !.link = link] \in Accounts
  BY DEF Accounts
<1>5. [row EXCEPT !.chosen = b, !.link = link] \in Accounts
  BY DEF Accounts
<1> QED
  BY <1>1, <1>2, <1>3, <1>4, <1>5

\* A new account has the type of the table's rows.
LEMMA AccountType ==
  ASSUME TypeOK, ids < MaxAccounts, NEW chosen \in BOOLEAN,
         NEW link \in 0..MaxLinks
  PROVE  Account(chosen, link) \in Accounts /\ ids + 1 \in 1..MaxAccounts
<1>1. ids + 1 \in 1..MaxAccounts
  BY SessionsAssumption DEF TypeOK
<1> QED
  BY <1>1 DEF Account, Accounts

\* A new link is within the bound.
LEMMA NewLinkType ==
  ASSUME TypeOK, NewLink <= MaxLinks
  PROVE  NewLink \in 1..MaxLinks /\ NewLink \in 0..MaxLinks
BY SessionsAssumption DEF TypeOK, NewLink

\* The request sets the invariant counts are finite.
LEMMA CountsAreNumbers ==
  /\ IsFiniteSet(Pending) /\ Cardinality(Pending) \in Nat
  /\ IsFiniteSet(Comparing) /\ Cardinality(Comparing) \in Nat
  /\ IsFiniteSet(Uncounted) /\ Cardinality(Uncounted) \in Nat
  /\ Cardinality(Requests) \in Nat
<1>1. /\ Pending \in SUBSET Requests /\ Comparing \in SUBSET Requests
      /\ Uncounted \in SUBSET Requests /\ IsFiniteSet(Requests)
  BY SessionsAssumption DEF Pending, Comparing, Uncounted
<1>2. IsFiniteSet(Pending) /\ IsFiniteSet(Comparing) /\ IsFiniteSet(Uncounted)
  BY <1>1, FS_Subset
<1> QED
  BY <1>1, <1>2, FS_CardinalityType

\* The parts of the type invariant an action can disturb.
LinkTypes == /\ issued \in Seq(1..MaxAccounts) /\ Len(issued) <= MaxLinks
             /\ mailed \subseteq 1..MaxLinks
             /\ used \subseteq (1..MaxLinks) \X (1..MaxAccounts)
NumberTypes == attempts \in 0..MaxAttempts /\ wrong \in Nat
FlagTypes == /\ ttl \in BOOLEAN /\ lock \in BOOLEAN /\ blind \in BOOLEAN
             /\ out \in BOOLEAN
RequestTypes == reqs \in [Requests -> Request]
AccountTypes == user \in Accounts \cup {None} /\ ids \in 0..MaxAccounts

\* TypeOK is the conjunction of these parts.
LEMMA TypeParts ==
  TypeOK <=> /\ LinkTypes /\ NumberTypes /\ FlagTypes /\ RequestTypes
             /\ AccountTypes
BY DEF TypeOK, LinkTypes, NumberTypes, FlagTypes, RequestTypes, AccountTypes

\* The initial state has its type.
LEMMA InitType == Init => TypeOK
<1> SUFFICES ASSUME Init PROVE TypeOK
  OBVIOUS
<1>1. RequestTypes
  BY IdleType DEF Init, RequestTypes
<1>2. LinkTypes
  BY SessionsAssumption DEF Init, LinkTypes
<1>3. NumberTypes /\ AccountTypes
  BY SessionsAssumption DEF Init, NumberTypes, AccountTypes
<1>4. FlagTypes
  BY Zenon DEF Init, FlagTypes
<1> QED
  BY <1>1, <1>2, <1>3, <1>4, TypeParts

\* Every step keeps the numbers in their types.
LEMMA NumbersStep ==
  ASSUME TypeOK, Next
  PROVE  NumberTypes'
<1> USE SessionsAssumption, CountsAreNumbers DEF NumberTypes
<1>0. NumberTypes
  BY TypeParts
<1>1. ASSUME NEW r \in Requests,
             Login(r) \/ CheckPassword(r) \/ CountAttempt(r)
               \/ ExpireAttempts(r) \/ LockAccount(r) \/ ResetCounters(r)
               \/ RedisFails(r) \/ Crash(r)
      PROVE  NumberTypes'
  BY <1>0, <1>1
  DEF Login, CheckPassword, CountAttempt, ExpireAttempts, LockAccount,
      ResetCounters, RedisFails, Crash
<1>2. ASSUME AttemptsExpire \/ LockExpires
      PROVE  NumberTypes'
  BY <1>0, <1>2 DEF AttemptsExpire, LockExpires
<1>3. ASSUME UpdateUser \/ DeleteUser \/ LinkExpires
               \/ \E r \in Requests :
                    \/ UpdateRefreshTokenHash(r) \/ RefreshTokens(r)
                    \/ CompareRefreshToken(r) \/ Logout(r)
                    \/ ClearRefreshTokenHash(r) \/ LinkStep(r) \/ AccountStep(r)
      PROVE  NumberTypes'
  <2>1. UNCHANGED <<attempts, wrong>>
    BY <1>3
    DEF UpdateUser, DeleteUser, LinkExpires, UpdateRefreshTokenHash,
        RefreshTokens, CompareRefreshToken, Logout, ClearRefreshTokenHash,
        LinkStep, ForgotPassword, ResendSetupEmail, StoreLink, SendLink,
        StorePassword, ChangePassword, StoreChangedPassword, ResetPassword,
        AccountStep, FindNobody, AddressTaken, Signup, CreateUser,
        CreateClientAccount, counters
  <2> QED
    BY <1>0, <2>1
<1> QED
  BY <1>1, <1>2, <1>3 DEF Next, LoginStep

\* Every step keeps the flags in their types.
LEMMA FlagsStep ==
  ASSUME TypeOK, Next
  PROVE  FlagTypes'
<1> USE DEF FlagTypes
<1>0. FlagTypes
  BY TypeParts
<1>1. ASSUME NEW r \in Requests,
             Login(r) \/ CheckPassword(r) \/ CountAttempt(r)
               \/ LockAccount(r) \/ ResetCounters(r)
               \/ RedisFails(r) \/ Crash(r)
      PROVE  FlagTypes'
  BY <1>0, <1>1, Zenon
  DEF Login, CheckPassword, CountAttempt, LockAccount, ResetCounters,
      RedisFails, Crash
<1>2. ASSUME NEW r \in Requests, ExpireAttempts(r)
      PROVE  FlagTypes'
  <2> DEFINE positive == attempts > 0
  <2>1. positive \in BOOLEAN
    BY DEF TypeOK
  <2>2. ttl' = positive /\ UNCHANGED <<lock, blind, out>>
    BY <1>2, Zenon DEF ExpireAttempts
  <2> HIDE DEF positive
  <2> QED
    BY <1>0, <2>1, <2>2, Zenon
<1>3. ASSUME UpdateUser \/ DeleteUser \/ LinkExpires \/ AttemptsExpire
               \/ LockExpires
      PROVE  FlagTypes'
  BY <1>0, <1>3, Zenon
  DEF UpdateUser, DeleteUser, LinkExpires, AttemptsExpire, LockExpires, counters
<1>4. ASSUME NEW r \in Requests,
             \/ UpdateRefreshTokenHash(r) \/ RefreshTokens(r)
             \/ CompareRefreshToken(r) \/ Logout(r)
             \/ ClearRefreshTokenHash(r) \/ LinkStep(r) \/ AccountStep(r)
      PROVE  FlagTypes'
  <2>1. UNCHANGED <<ttl, lock, blind>>
    BY <1>4
    DEF UpdateRefreshTokenHash,
        RefreshTokens, CompareRefreshToken, Logout, ClearRefreshTokenHash,
        LinkStep, ForgotPassword, ResendSetupEmail, StoreLink, SendLink,
        StorePassword, ChangePassword, StoreChangedPassword, ResetPassword,
        AccountStep, FindNobody, AddressTaken, Signup, CreateUser,
        CreateClientAccount, counters
  <2>2. CASE ClearRefreshTokenHash(r) \/ FindNobody(r)
    <3>1. out' \in BOOLEAN
      BY <1>0, <2>2, Zenon DEF ClearRefreshTokenHash, FindNobody
    <3> QED
      BY <1>0, <2>1, <3>1, Zenon
  <2>3. CASE ~(ClearRefreshTokenHash(r) \/ FindNobody(r))
    <3>1. out' = out
      BY <1>4, <2>3
      DEF UpdateRefreshTokenHash,
          RefreshTokens, CompareRefreshToken, Logout,
          LinkStep, ForgotPassword, ResendSetupEmail, StoreLink, SendLink,
          StorePassword, ChangePassword, StoreChangedPassword, ResetPassword,
          AccountStep, AddressTaken, Signup, CreateUser, CreateClientAccount
    <3> QED
      BY <1>0, <2>1, <3>1, Zenon
  <2> QED
    BY <2>2, <2>3
<1> QED
  BY <1>1, <1>2, <1>3, <1>4 DEF Next, LoginStep

\* Every step keeps the requests in their type.
LEMMA RequestsStep ==
  ASSUME TypeOK, Next
  PROVE  RequestTypes'
<1> USE SessionsAssumption DEF RequestTypes
<1>0. reqs \in [Requests -> Request]
  BY DEF TypeOK
<1>1. ASSUME NEW r \in Requests,
             \/ Login(r) \/ FindNobody(r)
             \/ user # None /\ (\/ RefreshTokens(r) \/ Logout(r)
                                \/ ForgotPassword(r) \/ ResendSetupEmail(r)
                                \/ ChangePassword(r))
      PROVE  RequestTypes'
  <2>1. \E label \in PCs, id \in 0..MaxAccounts : Begin(r, label, id)
    BY <1>1, UserColumns
    DEF Login, FindNobody, RefreshTokens, Logout, ForgotPassword,
        ResendSetupEmail, ChangePassword, PCs, SigningIn
  <2> QED
    BY <2>1, BeginType
<1>2. ASSUME NEW r \in Requests, CheckPassword(r)
      PROVE  RequestTypes'
  <2>0. reqs[r] \in Request
    BY <1>0
  <2>1. CASE user = None
    BY <1>2, <2>1, GotoType DEF CheckPassword, PCs, SigningIn, Counting
  <2>2. CASE user # None
    <3>1. /\ [reqs[r] EXCEPT !.pc = "clear", !.id = user.id] \in Request
          /\ [reqs[r] EXCEPT !.pc = "incr", !.id = user.id, !.known = TRUE]
               \in Request
      BY <2>0, <2>2, UserColumns DEF Request, PCs, SigningIn, Counting
    <3> QED
      BY <1>0, <1>2, <2>2, <3>1 DEF CheckPassword
  <2> QED
    BY <2>1, <2>2
<1>3. ASSUME NEW r \in Requests, CountAttempt(r)
      PROVE  RequestTypes'
  <2> DEFINE full == attempts' >= MaxAttempts
  <2>0. reqs[r] \in Request
    BY <1>0
  <2>1. full \in BOOLEAN
    BY <1>3, NumbersStep DEF CountAttempt, TypeOK
  <2>2. reqs' = [reqs EXCEPT ![r].pc = "expire", ![r].full = full]
    BY <1>3 DEF CountAttempt
  <2> HIDE DEF full
  <2>3. [reqs[r] EXCEPT !.pc = "expire", !.full = full] \in Request
    BY <2>0, <2>1 DEF Request, PCs, SigningIn, Counting
  <2> QED
    BY <1>0, <2>2, <2>3
<1>4. ASSUME NEW r \in Requests,
             \/ ExpireAttempts(r) \/ LockAccount(r) \/ ResetCounters(r)
             \/ UpdateRefreshTokenHash(r) \/ RedisFails(r)
             \/ CompareRefreshToken(r) \/ ClearRefreshTokenHash(r)
             \/ SendLink(r) \/ StorePassword(r) \/ StoreChangedPassword(r)
             \/ AddressTaken(r) \/ CreateClientAccount(r) \/ Crash(r)
      PROVE  RequestTypes'
  <2>1. \/ Finish(r)
        \/ \E label \in {"lock", "del", "store"} : Goto(r, label)
    BY <1>4
    DEF ExpireAttempts, LockAccount, ResetCounters, UpdateRefreshTokenHash,
        RedisFails, CompareRefreshToken, ClearRefreshTokenHash, SendLink,
        StorePassword, StoreChangedPassword, AddressTaken,
        CreateClientAccount, Crash
  <2> QED
    BY <2>1, GotoType, FinishType DEF PCs, SigningIn, Counting
<1>5. ASSUME NEW r \in Requests, StoreLink(r) \/ CreateUser(r)
      PROVE  RequestTypes'
  <2>0. reqs[r] \in Request
    BY <1>0
  <2>1. NewLink <= MaxLinks =>
          [reqs[r] EXCEPT !.pc = "mail", !.link = NewLink] \in Request
    <3> SUFFICES ASSUME NewLink <= MaxLinks
                 PROVE  [reqs[r] EXCEPT !.pc = "mail", !.link = NewLink]
                          \in Request
      OBVIOUS
    <3>1. NewLink \in 0..MaxLinks
      BY NewLinkType
    <3> QED
      BY <2>0, <3>1 DEF Request, PCs
  <2> QED
    BY <1>0, <1>5, <2>1, FinishType DEF StoreLink, CreateUser
<1>6. ASSUME NEW r \in Requests, NEW l \in mailed, ResetPassword(r, l)
      PROVE  RequestTypes'
  <2>1. user # None /\ l \in 0..MaxLinks
    BY <1>6, UserColumns DEF ResetPassword, Opens
  <2>2. [Idle EXCEPT !.pc = "reset", !.id = user.id, !.link = l] \in Request
    BY <2>1, IdleType, UserColumns DEF Request, PCs
  <2> QED
    BY <1>0, <1>6, <2>2 DEF ResetPassword
<1>7. ASSUME NEW r \in Requests, Signup(r)
      PROVE  RequestTypes'
  <2>0. reqs[r] \in Request
    BY <1>0
  <2>1. ids + 1 \in 0..MaxAccounts
    BY <1>7 DEF Signup, TypeOK
  <2>2. [reqs[r] EXCEPT !.pc = "store", !.id = ids + 1] \in Request
    BY <2>0, <2>1 DEF Request, PCs, SigningIn
  <2> QED
    BY <1>0, <1>7, <2>2 DEF Signup
<1>8. ASSUME \/ UpdateUser \/ DeleteUser \/ LinkExpires \/ AttemptsExpire
             \/ LockExpires
      PROVE  RequestTypes'
  BY <1>0, <1>8
  DEF UpdateUser, DeleteUser, LinkExpires, AttemptsExpire, LockExpires
<1>9. ASSUME NEW r \in Requests,
             \/ RefreshTokens(r) \/ Logout(r) \/ ForgotPassword(r)
             \/ ResendSetupEmail(r) \/ ChangePassword(r)
      PROVE  user # None
  BY <1>9
  DEF RefreshTokens, Logout, ForgotPassword, ResendSetupEmail,
      ChangePassword, SignedIn
<1> QED
  BY <1>1, <1>2, <1>3, <1>4, <1>5, <1>6, <1>7, <1>8, <1>9
  DEF Next, LoginStep, LinkStep, AccountStep

\* Every step keeps the account in its type.
LEMMA AccountStepType ==
  ASSUME TypeOK, Next
  PROVE  AccountTypes'
<1> USE SessionsAssumption DEF AccountTypes
<1>0. AccountTypes /\ reqs \in [Requests -> Request]
  BY TypeParts DEF RequestTypes
<1>1. ASSUME NEW r \in Requests,
             \/ UpdateRefreshTokenHash(r) \/ ClearRefreshTokenHash(r)
             \/ StoreLink(r) \/ StorePassword(r) \/ StoreChangedPassword(r)
      PROVE  AccountTypes'
  <2>1. ids' = ids
    BY <1>1
    DEF UpdateRefreshTokenHash, ClearRefreshTokenHash, StoreLink,
        StorePassword, StoreChangedPassword
  <2>2. CASE user' = user
    BY <1>0, <2>1, <2>2
  <2>3. CASE user' # user
    <3>1. user # None
      BY <1>1, <2>3
      DEF UpdateRefreshTokenHash, ClearRefreshTokenHash, StoreLink,
          StorePassword, StoreChangedPassword, Is
    <3>2. user \in Accounts
      BY <3>1, UserColumns
    <3>3. /\ [user EXCEPT !.session = TRUE] \in Accounts
          /\ [user EXCEPT !.session = FALSE] \in Accounts
          /\ [user EXCEPT !.chosen = TRUE] \in Accounts
          /\ [user EXCEPT !.chosen = TRUE, !.link = 0] \in Accounts
      <4>1. TRUE \in BOOLEAN /\ FALSE \in BOOLEAN /\ 0 \in 0..MaxLinks
        OBVIOUS
      <4> QED
        BY <3>2, <4>1, WrittenAccount
    <3>4. ASSUME NewLink <= MaxLinks
          PROVE  [user EXCEPT !.link = NewLink] \in Accounts
      <4>1. NewLink \in 0..MaxLinks
        BY <3>4, NewLinkType
      <4> QED
        BY <3>2, <4>1, WrittenAccount
    <3> QED
      BY <1>0, <1>1, <2>1, <2>3, <3>3, <3>4
      DEF UpdateRefreshTokenHash, ClearRefreshTokenHash, StoreLink,
          StorePassword, StoreChangedPassword
  <2> QED
    BY <2>2, <2>3
<1>2. ASSUME NEW r \in Requests,
             Signup(r) \/ CreateUser(r) \/ CreateClientAccount(r)
      PROVE  AccountTypes'
  <2>1. ids < MaxAccounts
    BY <1>2 DEF Signup, CreateUser, CreateClientAccount
  <2>2. ids + 1 \in 0..MaxAccounts
    BY <2>1 DEF TypeOK
  <2>3. \A chosen \in BOOLEAN : Account(chosen, 0) \in Accounts
    BY <2>1, AccountType
  <2>4. NewLink <= MaxLinks =>
          \A chosen \in BOOLEAN : Account(chosen, NewLink) \in Accounts
    BY <2>1, AccountType, NewLinkType
  <2> QED
    BY <1>0, <1>2, <2>2, <2>3, <2>4 DEF Signup, CreateUser, CreateClientAccount
<1>3. ASSUME UpdateUser \/ DeleteUser \/ LinkExpires
      PROVE  AccountTypes'
  <2>1. user \in Accounts /\ user.active \in BOOLEAN
    BY <1>3, UserColumns DEF UpdateUser, DeleteUser, LinkExpires
  <2>2. /\ [user EXCEPT !.link = 0] \in Accounts
        /\ [user EXCEPT !.active = ~user.active] \in Accounts
    <3> DEFINE flipped == ~user.active
    <3>1. flipped \in BOOLEAN
      BY <2>1, Zenon
    <3> HIDE DEF flipped
    <3>2. [user EXCEPT !.active = flipped] \in Accounts
      BY <2>1, <3>1 DEF Accounts
    <3>3. [user EXCEPT !.link = 0] \in Accounts
      BY <2>1 DEF Accounts
    <3> QED
      BY <3>2, <3>3 DEF flipped
  <2> QED
    BY <1>0, <1>3, <2>2 DEF UpdateUser, DeleteUser, LinkExpires
<1>4. ASSUME \/ AttemptsExpire \/ LockExpires
             \/ \E r \in Requests :
                  \/ Login(r) \/ CheckPassword(r) \/ CountAttempt(r)
                  \/ ExpireAttempts(r) \/ LockAccount(r) \/ ResetCounters(r)
                  \/ RedisFails(r) \/ RefreshTokens(r) \/ CompareRefreshToken(r)
                  \/ Logout(r) \/ Crash(r) \/ ForgotPassword(r)
                  \/ ResendSetupEmail(r) \/ SendLink(r) \/ ChangePassword(r)
                  \/ FindNobody(r) \/ AddressTaken(r)
                  \/ \E l \in mailed : ResetPassword(r, l)
      PROVE  AccountTypes'
  <2>1. UNCHANGED <<user, ids>>
    BY <1>4
    DEF AttemptsExpire, LockExpires, Login, CheckPassword, CountAttempt,
        ExpireAttempts, LockAccount, ResetCounters, RedisFails, RefreshTokens,
        CompareRefreshToken, Logout, Crash, ForgotPassword, ResendSetupEmail,
        SendLink, ChangePassword, FindNobody, AddressTaken, ResetPassword
  <2> QED
    BY <1>0, <2>1
<1> QED
  BY <1>1, <1>2, <1>3, <1>4 DEF Next, LoginStep, LinkStep, AccountStep

\* Every step keeps the links in their types.
LEMMA LinksStep ==
  ASSUME TypeOK, LinksAreIssued, Next
  PROVE  LinkTypes'
<1> USE SessionsAssumption DEF LinkTypes
<1>0. LinkTypes /\ reqs \in [Requests -> Request]
  BY TypeParts DEF RequestTypes
<1>1. ASSUME NEW r \in Requests,
             StoreLink(r) \/ CreateUser(r) \/ CreateClientAccount(r)
      PROVE  LinkTypes'
  <2>1. used' = used /\ (mailed' = mailed \/ mailed' = mailed \cup {NewLink})
    BY <1>1 DEF StoreLink, CreateUser, CreateClientAccount
  <2>2. \/ issued' = issued /\ mailed' = mailed
        \/ /\ NewLink <= MaxLinks
           /\ \E id \in 1..MaxAccounts : issued' = Append(issued, id)
    <3>1. CASE StoreLink(r)
      BY <3>1, UserColumns DEF StoreLink, Is
    <3>2. CASE CreateUser(r) \/ CreateClientAccount(r)
      <4>1. ids + 1 \in 1..MaxAccounts
        <5>1. ids < MaxAccounts
          BY <3>2 DEF CreateUser, CreateClientAccount
        <5>2. ids \in 0..MaxAccounts
          BY DEF TypeOK
        <5> QED
          BY <5>1, <5>2
      <4>2. \/ issued' = issued /\ mailed' = mailed
            \/ NewLink <= MaxLinks /\ issued' = Append(issued, ids + 1)
        BY <3>2 DEF CreateUser, CreateClientAccount
      <4> QED
        BY <4>1, <4>2
    <3> QED
      BY <1>1, <3>1, <3>2
  <2>3. CASE issued' = issued /\ mailed' = mailed
    BY <1>0, <2>1, <2>3
  <2>4. ASSUME NewLink <= MaxLinks, NEW id \in 1..MaxAccounts,
               issued' = Append(issued, id)
        PROVE  LinkTypes'
    <3>1. issued' \in Seq(1..MaxAccounts) /\ Len(issued') = NewLink
      BY <1>0, <2>4 DEF NewLink
    <3>2. mailed' \subseteq 1..MaxLinks
      <4>1. NewLink \in 1..MaxLinks
        BY <2>4, NewLinkType
      <4> QED
        BY <1>0, <2>1, <4>1
    <3>3. Len(issued') <= MaxLinks
      BY <2>4, <3>1
    <3>4. used' \subseteq (1..MaxLinks) \X (1..MaxAccounts)
      BY <1>0, <2>1
    <3> QED
      BY <3>1, <3>2, <3>3, <3>4
  <2> QED
    BY <2>2, <2>3, <2>4
<1>2. ASSUME NEW r \in Requests, SendLink(r)
      PROVE  LinkTypes'
  <2>1. reqs[r].link \in 0..MaxLinks /\ reqs[r].link # 0
    BY <1>0, <1>2 DEF SendLink, Request, LinksAreIssued
  <2>2. mailed' \subseteq 1..MaxLinks
    <3>1. reqs[r].link \in 1..MaxLinks
      BY <2>1
    <3> QED
      BY <1>0, <1>2, <3>1 DEF SendLink
  <2> QED
    BY <1>0, <1>2, <2>2 DEF SendLink
<1>3. ASSUME NEW r \in Requests, StorePassword(r)
      PROVE  LinkTypes'
  <2>1. reqs[r].link \in 1..Len(issued) /\ issued[reqs[r].link] = reqs[r].id
    BY <1>3 DEF StorePassword, LinksAreIssued
  <2>2. reqs[r].link \in 1..MaxLinks /\ reqs[r].id \in 1..MaxAccounts
    BY <1>0, <2>1
  <2>3. used' \subseteq (1..MaxLinks) \X (1..MaxAccounts)
    BY <1>0, <1>3, <2>2 DEF StorePassword
  <2> QED
    BY <1>0, <1>3, <2>3 DEF StorePassword
<1>4. ASSUME \/ AttemptsExpire \/ LockExpires \/ UpdateUser \/ DeleteUser
             \/ LinkExpires
             \/ \E r \in Requests :
                  \/ Login(r) \/ LoginStep(r) \/ RedisFails(r)
                  \/ RefreshTokens(r) \/ CompareRefreshToken(r)
                  \/ Logout(r) \/ ClearRefreshTokenHash(r) \/ Crash(r)
                  \/ ForgotPassword(r) \/ ResendSetupEmail(r)
                  \/ ChangePassword(r) \/ StoreChangedPassword(r)
                  \/ FindNobody(r) \/ AddressTaken(r) \/ Signup(r)
                  \/ \E l \in mailed : ResetPassword(r, l)
      PROVE  LinkTypes'
  <2>1. UNCHANGED links
    BY <1>4
    DEF AttemptsExpire, LockExpires, UpdateUser, DeleteUser, LinkExpires,
        Login, LoginStep, CheckPassword, CountAttempt, ExpireAttempts,
        LockAccount, ResetCounters, UpdateRefreshTokenHash, RedisFails,
        RefreshTokens, CompareRefreshToken, Logout, ClearRefreshTokenHash,
        Crash, ForgotPassword, ResendSetupEmail, ChangePassword,
        StoreChangedPassword, FindNobody, AddressTaken, Signup, ResetPassword
  <2> QED
    BY <1>0, <2>1 DEF links
<1> QED
  BY <1>1, <1>2, <1>3, <1>4 DEF Next, LinkStep, AccountStep

\* Every step keeps the types.
LEMMA NextType ==
  ASSUME TypeOK, LinksAreIssued, [Next]_vars
  PROVE  TypeOK'
<1>1. CASE Next
  <2>1. /\ LinkTypes' /\ NumberTypes' /\ FlagTypes' /\ RequestTypes'
        /\ AccountTypes'
    BY <1>1, LinksStep, NumbersStep, FlagsStep, RequestsStep, AccountStepType
  <2> QED
    BY <2>1 DEF TypeOK, LinkTypes, NumberTypes, FlagTypes, RequestTypes,
                AccountTypes
<1>2. CASE UNCHANGED vars
  BY <1>2 DEF vars, TypeOK
<1> QED
  BY <1>1, <1>2

----------------------------------------------------------------------------
(* Links                                                                   *)

\* What a step may do to links: nothing, but that requests move on, the link
\* on file expires or the account goes; or issue one; or look one up; or use
\* one.
KeepsLinks ==
  /\ UNCHANGED <<issued, used>>
  /\ user' # None => /\ user # None => /\ user'.id = user.id
                                       /\ user'.link \in {0, user.link}
                     /\ user = None => user'.link = 0
  /\ \A q \in Requests : reqs'[q].pc \in {"mail", "reset"} => reqs'[q] = reqs[q]

IssuesLink(r) ==
  /\ user' # None
  /\ issued' = Append(issued, user'.id)
  /\ user'.link \in {0, NewLink}
  /\ used' = used
  /\ reqs'[r].pc # "reset" /\ (reqs'[r].pc = "mail" => reqs'[r].link = NewLink)
  /\ \A q \in Requests \ {r} : reqs'[q] = reqs[q]

LooksUp(r) ==
  /\ UNCHANGED <<user, issued, used>>
  /\ user # None /\ user.link # 0
  /\ reqs'[r].pc = "reset" /\ reqs'[r].id = user.id
  /\ reqs'[r].link = user.link
  /\ \A q \in Requests \ {r} : reqs'[q] = reqs[q]

UsesLink(r) ==
  /\ reqs[r].pc = "reset"
  /\ user' # None /\ user'.link = 0
  /\ issued' = issued
  /\ used' = used \cup {<<reqs[r].link, reqs[r].id>>}
  /\ reqs'[r].pc = "idle"
  /\ \A q \in Requests \ {r} : reqs'[q] = reqs[q]

\* What a step does with the links: nothing, or one of three things.
LEMMA LinkMoves ==
  ASSUME TypeOK, [Next]_vars
  PROVE  KeepsLinks \/ \E r \in Requests : IssuesLink(r) \/ LooksUp(r)
                                             \/ UsesLink(r)
<1> USE DEF Request
<1>0. reqs \in [Requests -> Request]
  BY DEF TypeOK
<1>1. ASSUME NEW r \in Requests,
             \/ Login(r) \/ CheckPassword(r) \/ CountAttempt(r)
             \/ ExpireAttempts(r) \/ LockAccount(r) \/ ResetCounters(r)
             \/ RedisFails(r) \/ RefreshTokens(r) \/ CompareRefreshToken(r)
             \/ Logout(r) \/ Crash(r) \/ ForgotPassword(r)
             \/ ResendSetupEmail(r) \/ SendLink(r) \/ ChangePassword(r)
             \/ FindNobody(r) \/ AddressTaken(r)
      PROVE  KeepsLinks
  <2>1. UNCHANGED <<user, issued, used>>
    BY <1>1
    DEF Login, CheckPassword, CountAttempt, ExpireAttempts, LockAccount,
        ResetCounters, RedisFails, RefreshTokens, CompareRefreshToken, Logout,
        Crash, ForgotPassword, ResendSetupEmail, SendLink, ChangePassword,
        FindNobody, AddressTaken, links
  <2>2. \A q \in Requests : reqs'[q].pc \in {"mail", "reset"}
                              => reqs'[q] = reqs[q]
    <3>1. CASE CheckPassword(r)
      BY <1>0, <3>1 DEF CheckPassword, Goto
    <3>2. CASE CountAttempt(r)
      BY <1>0, <3>2 DEF CountAttempt
    <3>3. CASE \/ \E label \in {"find", "refresh", "logout", "link", "change",
                                "create", "createUser", "client"},
                     id \in {0} \cup {user.id} : Begin(r, label, id)
               \/ \E label \in {"lock", "del", "store"} : Goto(r, label)
               \/ Finish(r)
      <4>1. ASSUME NEW label \in {"find", "refresh", "logout", "link", "change",
                                  "create", "createUser", "client"},
                   NEW id, Begin(r, label, id)
            PROVE  \A q \in Requests : reqs'[q].pc \in {"mail", "reset"}
                                         => reqs'[q] = reqs[q]
        BY <1>0, <4>1 DEF Begin, Idle
      <4>2. ASSUME NEW label \in {"lock", "del", "store"}, Goto(r, label)
            PROVE  \A q \in Requests : reqs'[q].pc \in {"mail", "reset"}
                                         => reqs'[q] = reqs[q]
        BY <1>0, <4>2 DEF Goto
      <4>3. Finish(r) => \A q \in Requests : reqs'[q].pc \in {"mail", "reset"}
                                               => reqs'[q] = reqs[q]
        BY <1>0 DEF Finish, Idle
      <4> QED
        BY <3>3, <4>1, <4>2, <4>3
    <3> QED
      BY <1>1, <3>1, <3>2, <3>3
      DEF Login, ExpireAttempts, LockAccount, ResetCounters, RedisFails,
          RefreshTokens, CompareRefreshToken, Logout, Crash, ForgotPassword,
          ResendSetupEmail, SendLink, ChangePassword, FindNobody, AddressTaken
  <2> QED
    BY <2>1, <2>2 DEF KeepsLinks
<1>2. ASSUME NEW r \in Requests,
             \/ UpdateRefreshTokenHash(r) \/ ClearRefreshTokenHash(r)
             \/ StoreChangedPassword(r)
      PROVE  KeepsLinks
  <2>1. UNCHANGED <<issued, used>> /\ Finish(r)
    BY <1>2 DEF UpdateRefreshTokenHash, ClearRefreshTokenHash,
                StoreChangedPassword, links
  <2>2. user' # None => user # None /\ user'.id = user.id
                          /\ user'.link = user.link
    BY <1>2, UserColumns
    DEF UpdateRefreshTokenHash, ClearRefreshTokenHash, StoreChangedPassword,
        Is, Accounts
  <2>3. \A q \in Requests : reqs'[q].pc \in {"mail", "reset"}
                              => reqs'[q] = reqs[q]
    BY <1>0, <2>1 DEF Finish, Idle
  <2> QED
    BY <2>1, <2>2, <2>3 DEF KeepsLinks
<1>3. ASSUME NEW r \in Requests, StoreLink(r)
      PROVE  KeepsLinks \/ IssuesLink(r)
  <2>1. CASE Is(reqs[r].id)
    <3>1. user # None /\ user \in Accounts
      BY <2>1, UserColumns DEF Is
    <3>2. /\ user' = [user EXCEPT !.link = NewLink]
          /\ user' # None
      <4>1. user' = [user EXCEPT !.link = NewLink] /\ NewLink <= MaxLinks
        BY <1>3, <2>1 DEF StoreLink
      <4>2. NewLink \in 0..MaxLinks
        BY <4>1, NewLinkType
      <4>3. [user EXCEPT !.link = NewLink] \in Accounts
        BY <3>1, <4>2 DEF Accounts
      <4> QED
        BY <4>1, <4>3, NoneIsNoAccount
    <3>3. user'.id = user.id /\ user'.link = NewLink
      BY <3>1, <3>2 DEF Accounts
    <3> QED
      BY <1>0, <1>3, <2>1, <3>2, <3>3 DEF StoreLink, IssuesLink
  <2>2. CASE ~Is(reqs[r].id)
    BY <1>0, <1>3, <2>2 DEF StoreLink, KeepsLinks, Finish, Idle
  <2> QED
    BY <2>1, <2>2
<1>4. ASSUME NEW r \in Requests, NEW l \in mailed, ResetPassword(r, l)
      PROVE  LooksUp(r)
  <2>1. l # 0
    BY SessionsAssumption DEF TypeOK
  <2>2. reqs' = [reqs EXCEPT ![r] = [Idle EXCEPT !.pc = "reset", !.id = user.id,
                                                 !.link = l]]
    BY <1>4 DEF ResetPassword
  <2> QED
    BY <1>0, <1>4, <2>1, <2>2 DEF ResetPassword, LooksUp, Opens, Idle, links
<1>5. ASSUME NEW r \in Requests, StorePassword(r)
      PROVE  KeepsLinks \/ UsesLink(r)
  <2>1. CASE Is(reqs[r].id)
    <3>1. user # None /\ user \in Accounts
      BY <2>1, UserColumns DEF Is
    <3>2. user' = [user EXCEPT !.chosen = TRUE, !.link = 0]
      BY <1>5, <2>1 DEF StorePassword
    <3>3. user'.link = 0 /\ user' \in Accounts
      <4>1. TRUE \in BOOLEAN /\ 0 \in 0..MaxLinks
        BY SessionsAssumption
      <4> QED
        BY <3>1, <3>2, <4>1 DEF Accounts
    <3>4. user' # None
      BY <3>3, NoneIsNoAccount
    <3> QED
      BY <1>0, <1>5, <2>1, <3>3, <3>4 DEF StorePassword, UsesLink, Finish, Idle
  <2>2. CASE ~Is(reqs[r].id)
    BY <1>0, <1>5, <2>2 DEF StorePassword, KeepsLinks, Finish, Idle
  <2> QED
    BY <2>1, <2>2
<1>6. ASSUME NEW r \in Requests, Signup(r)
      PROVE  KeepsLinks
  <2>1. user = None /\ user'.link = 0
    BY <1>6 DEF Signup, Account
  <2> QED
    BY <1>0, <1>6, <2>1 DEF Signup, KeepsLinks, links
<1>7. ASSUME NEW r \in Requests, CreateUser(r)
      PROVE  IssuesLink(r)
  <2>1. user' # None
    BY <1>7, NoneIsNoAccount, AccountType, NewLinkType DEF CreateUser
  <2>2. user'.id = ids + 1 /\ user'.link = NewLink
    BY <1>7 DEF CreateUser, Account
  <2> QED
    BY <1>0, <1>7, <2>1, <2>2 DEF CreateUser, IssuesLink
<1>8. ASSUME NEW r \in Requests, CreateClientAccount(r)
      PROVE  KeepsLinks \/ IssuesLink(r)
  <2>1. reqs' = [reqs EXCEPT ![r] = Idle] /\ Idle.pc = "idle"
    BY <1>8 DEF CreateClientAccount, Finish, Idle
  <2>2. CASE user' = Account(FALSE, 0) /\ issued' = Append(issued, ids + 1)
    <3>1. user'.id = ids + 1 /\ user'.link = 0
      BY <2>2 DEF Account
    <3>2. user' # None
      <4>1. ids < MaxAccounts /\ FALSE \in BOOLEAN /\ 0 \in 0..MaxLinks
        BY <1>8, SessionsAssumption DEF CreateClientAccount
      <4> QED
        BY <2>2, <4>1, NoneIsNoAccount, AccountType
    <3>3. used' = used
      BY <1>8 DEF CreateClientAccount
    <3> QED
      BY <1>0, <2>1, <2>2, <3>1, <3>2, <3>3 DEF IssuesLink
  <2>3. CASE UNCHANGED <<user, issued>>
    BY <1>0, <1>8, <2>1, <2>3 DEF CreateClientAccount, KeepsLinks
  <2> QED
    BY <1>8, <2>2, <2>3 DEF CreateClientAccount
<1>9. ASSUME UpdateUser \/ DeleteUser \/ LinkExpires \/ AttemptsExpire
               \/ LockExpires
      PROVE  KeepsLinks
  <2>1. UNCHANGED <<issued, used, reqs>>
    BY <1>9 DEF UpdateUser, DeleteUser, LinkExpires, AttemptsExpire,
                LockExpires, links
  <2>2. user' # None /\ user # None => /\ user'.id = user.id
                                       /\ user'.link \in {0, user.link}
    BY <1>9, UserColumns
    DEF UpdateUser, DeleteUser, LinkExpires, AttemptsExpire, LockExpires,
        Accounts
  <2>3. user = None => user' = None
    BY <1>9 DEF UpdateUser, DeleteUser, LinkExpires, AttemptsExpire, LockExpires
  <2> QED
    BY <2>1, <2>2, <2>3 DEF KeepsLinks
<1>10. CASE UNCHANGED vars
  BY <1>10 DEF vars, KeepsLinks
<1> QED
  BY <1>1, <1>2, <1>3, <1>4, <1>5, <1>6, <1>7, <1>8, <1>9, <1>10
  DEF Next, LoginStep, LinkStep, AccountStep

\* Every step keeps the links issued to their accounts, the used ones dead.
LEMMA NextLinks ==
  ASSUME TypeOK, TypeOK', LinksAreIssued, [Next]_vars
  PROVE  LinksAreIssued'
<1>0. issued \in Seq(1..MaxAccounts) /\ Len(issued) \in Nat
  BY DEF TypeOK
<1>1. CASE KeepsLinks
  BY <1>1 DEF KeepsLinks, LinksAreIssued
<1>2. ASSUME NEW r \in Requests, IssuesLink(r)
      PROVE  LinksAreIssued'
  <2>1. /\ Len(issued') = NewLink /\ NewLink = Len(issued) + 1
        /\ issued'[NewLink] = user'.id
        /\ \A i \in 1..Len(issued) : issued'[i] = issued[i]
    <3>1. issued' = Append(issued, user'.id) /\ user' \in Accounts
      BY <1>2 DEF IssuesLink, TypeOK
    <3> QED
      BY <1>0, <3>1 DEF NewLink, Accounts
  <2>2. user'.link <= Len(issued') /\ (user'.link # 0
                                         => issued'[user'.link] = user'.id)
    BY <1>0, <1>2, <2>1 DEF IssuesLink
  <2>3. \A q \in Requests :
          /\ reqs'[q].pc = "mail" => reqs'[q].link # 0
          /\ reqs'[q].pc = "reset" => /\ reqs'[q].link \in 1..Len(issued')
                                      /\ issued'[reqs'[q].link] = reqs'[q].id
    BY <1>0, <1>2, <2>1 DEF IssuesLink, LinksAreIssued
  <2>4. \A u \in used' : /\ u[1] \in 1..Len(issued')
                         /\ issued'[u[1]] = u[2]
                         /\ user'.link # u[1]
    BY <1>0, <1>2, <2>1 DEF IssuesLink, LinksAreIssued
  <2> QED
    BY <2>2, <2>3, <2>4 DEF LinksAreIssued
<1>3. ASSUME NEW r \in Requests, LooksUp(r)
      PROVE  LinksAreIssued'
  <2>1. user.link \in 1..Len(issued) /\ issued[user.link] = user.id
    BY <1>0, <1>3, UserColumns DEF LooksUp, LinksAreIssued
  <2> QED
    BY <1>3, <2>1 DEF LooksUp, LinksAreIssued
<1>4. ASSUME NEW r \in Requests, UsesLink(r)
      PROVE  LinksAreIssued'
  <2>1. reqs[r].link \in 1..Len(issued) /\ issued[reqs[r].link] = reqs[r].id
    BY <1>4 DEF UsesLink, LinksAreIssued
  <2>2. user'.link = 0 /\ issued' = issued
    BY <1>4 DEF UsesLink
  <2>3. \A u \in used' : /\ u[1] \in 1..Len(issued')
                         /\ issued'[u[1]] = u[2]
                         /\ user'.link # u[1]
    BY <1>0, <1>4, <2>1, <2>2 DEF UsesLink, LinksAreIssued
  <2>4. \A q \in Requests :
          /\ reqs'[q].pc = "mail" => reqs'[q].link # 0
          /\ reqs'[q].pc = "reset" => /\ reqs'[q].link \in 1..Len(issued')
                                      /\ issued'[reqs'[q].link] = reqs'[q].id
    BY <1>4 DEF UsesLink, LinksAreIssued
  <2> QED
    BY <1>0, <2>2, <2>3, <2>4 DEF LinksAreIssued
<1> QED
  BY <1>1, <1>2, <1>3, <1>4, LinkMoves

----------------------------------------------------------------------------
(* Logout                                                                  *)

\* While a logout holds, no step stores a session or starts to sign in.
LEMMA NextLogout ==
  ASSUME TypeOK, TypeOK', NobodySignsIn, [Next]_vars
  PROVE  NobodySignsIn'
<1> SUFFICES ASSUME out'
             PROVE  /\ user' # None /\ ~user'.session
                    /\ \A r \in Requests : reqs'[r].pc \notin SigningIn
  BY DEF NobodySignsIn
<1> DEFINE Quiet == \A q \in Requests : reqs'[q].pc \notin SigningIn
           Closed == user' # None /\ ~user'.session
<1> USE DEF Request
<1>0. reqs \in [Requests -> Request]
  BY DEF TypeOK
<1>1. ASSUME out
      PROVE  /\ user # None /\ user \in Accounts /\ ~user.session
             /\ \A q \in Requests : reqs[q].pc \notin SigningIn
  BY <1>1, UserColumns DEF NobodySignsIn
<1>2. ASSUME NEW r \in Requests, ClearRefreshTokenHash(r)
      PROVE  Closed /\ Quiet
  <2>1. \A q \in Requests : reqs[q].pc \notin SigningIn
    BY <1>1, <1>2 DEF ClearRefreshTokenHash
  <2>2. Quiet
    BY <1>0, <1>2, <2>1 DEF ClearRefreshTokenHash, Finish, Idle, SigningIn,
                            Counting
  <2>3. user # None /\ user \in Accounts
    BY <1>1, <1>2, UserColumns DEF ClearRefreshTokenHash, Is
  <2>4. user' = user \/ user' = [user EXCEPT !.session = FALSE]
    BY <1>2 DEF ClearRefreshTokenHash
  <2>5. user' # None
    <3>1. [user EXCEPT !.session = FALSE] \in Accounts
      BY <2>3 DEF Accounts
    <3> QED
      BY <2>3, <2>4, <3>1, NoneIsNoAccount
  <2>6. ~user'.session
    <3>1. CASE Is(reqs[r].id)
      BY <1>2, <2>3, <3>1 DEF ClearRefreshTokenHash, Accounts
    <3>2. CASE ~Is(reqs[r].id)
      BY <1>1, <1>2, <3>2 DEF ClearRefreshTokenHash
    <3> QED
      BY <3>1, <3>2
  <2> QED
    BY <2>2, <2>5, <2>6
<1>3. ASSUME NEW r \in Requests,
             \/ CheckPassword(r) \/ CountAttempt(r) \/ ExpireAttempts(r)
             \/ LockAccount(r) \/ ResetCounters(r) \/ UpdateRefreshTokenHash(r)
             \/ RedisFails(r) \/ Signup(r)
      PROVE  FALSE
  <2>1. out' = out /\ reqs[r].pc \in SigningIn
    BY <1>3
    DEF CheckPassword, CountAttempt, ExpireAttempts, LockAccount,
        ResetCounters, UpdateRefreshTokenHash, RedisFails, Signup, SigningIn,
        Counting
  <2> QED
    BY <1>1, <2>1
<1>4. ASSUME NEW r \in Requests,
             \/ Login(r) \/ FindNobody(r) \/ CreateUser(r)
             \/ CreateClientAccount(r)
      PROVE  FALSE
  BY <1>1, <1>4 DEF Login, FindNobody, CreateUser, CreateClientAccount
<1>5. ASSUME NEW r \in Requests,
             \/ RefreshTokens(r) \/ CompareRefreshToken(r) \/ Logout(r)
             \/ ForgotPassword(r) \/ ResendSetupEmail(r) \/ SendLink(r)
             \/ ChangePassword(r) \/ AddressTaken(r) \/ Crash(r)
             \/ \E l \in mailed : ResetPassword(r, l)
      PROVE  Closed /\ Quiet
  <2>1. out' = out /\ user' = user
    BY <1>5
    DEF RefreshTokens, CompareRefreshToken, Logout, ForgotPassword,
        ResendSetupEmail, SendLink, ChangePassword, AddressTaken, Crash,
        ResetPassword
  <2>2. Closed
    BY <1>1, <2>1
  <2>3. \/ \E label \in {"refresh", "logout", "link", "change"} :
             Begin(r, label, user.id)
        \/ Finish(r)
        \/ \E l \in mailed :
             reqs' = [reqs EXCEPT ![r] = [Idle EXCEPT !.pc = "reset",
                                            !.id = user.id, !.link = l]]
    BY <1>1, <1>5, <2>1
    DEF RefreshTokens, CompareRefreshToken, Logout, ForgotPassword,
        ResendSetupEmail, SendLink, ChangePassword, AddressTaken, Crash,
        ResetPassword
  <2>4. reqs'[r].pc \notin SigningIn
    <3>1. CASE \E label \in {"refresh", "logout", "link", "change"} :
                 Begin(r, label, user.id)
      BY <1>0, <3>1 DEF Begin, Idle, SigningIn, Counting
    <3>2. CASE Finish(r)
      BY <1>0, <3>2 DEF Finish, Idle, SigningIn, Counting
    <3>3. ASSUME NEW l \in mailed,
                 reqs' = [reqs EXCEPT ![r] = [Idle EXCEPT !.pc = "reset",
                                            !.id = user.id, !.link = l]]
          PROVE  reqs'[r].pc \notin SigningIn
      BY <1>0, <3>3 DEF Idle, SigningIn, Counting
    <3> QED
      BY <2>3, <3>1, <3>2, <3>3
  <2>5. \A q \in Requests \ {r} : reqs'[q] = reqs[q]
    BY <1>0, <2>3 DEF Begin, Finish
  <2> QED
    BY <1>1, <2>1, <2>2, <2>4, <2>5
<1>6. ASSUME NEW r \in Requests,
             StoreLink(r) \/ StorePassword(r) \/ StoreChangedPassword(r)
      PROVE  Closed /\ Quiet
  <2>1. out' = out
    BY <1>6 DEF StoreLink, StorePassword, StoreChangedPassword
  <2>2. \/ user' = user
        \/ user' = [user EXCEPT !.link = NewLink] /\ NewLink <= MaxLinks
        \/ user' = [user EXCEPT !.chosen = TRUE, !.link = 0]
        \/ user' = [user EXCEPT !.chosen = TRUE]
    BY <1>6 DEF StoreLink, StorePassword, StoreChangedPassword
  <2>3. user' # None
    <3>1. /\ NewLink <= MaxLinks => NewLink \in 0..MaxLinks
          /\ 0 \in 0..MaxLinks /\ TRUE \in BOOLEAN
      BY NewLinkType, SessionsAssumption
    <3>2. user' \in Accounts
      BY <1>1, <2>1, <2>2, <3>1, WrittenAccount
    <3> QED
      BY <3>2, NoneIsNoAccount
  <2>4. ~user'.session
    BY <1>1, <2>1, <2>2 DEF Accounts
  <2>5. reqs'[r].pc \in {"idle", "mail"}
    <3>1. \/ Finish(r)
          \/ reqs' = [reqs EXCEPT ![r].pc = "mail", ![r].link = NewLink]
      BY <1>6 DEF StoreLink, StorePassword, StoreChangedPassword
    <3>2. CASE Finish(r)
      BY <1>0, <3>2 DEF Finish, Idle
    <3>3. CASE reqs' = [reqs EXCEPT ![r].pc = "mail", ![r].link = NewLink]
      BY <1>0, <3>3
    <3> QED
      BY <3>1, <3>2, <3>3
  <2>6. \A q \in Requests \ {r} : reqs'[q] = reqs[q]
    BY <1>0, <1>6 DEF StoreLink, StorePassword, StoreChangedPassword, Finish
  <2> QED
    BY <1>1, <2>1, <2>3, <2>4, <2>5, <2>6 DEF SigningIn, Counting
<1>7. ASSUME UpdateUser \/ LinkExpires \/ AttemptsExpire \/ LockExpires
      PROVE  Closed /\ Quiet
  <2>1. UNCHANGED <<out, reqs>>
    BY <1>7 DEF UpdateUser, LinkExpires, AttemptsExpire, LockExpires
  <2>2. \/ user' = user \/ user' = [user EXCEPT !.link = 0]
        \/ user' = [user EXCEPT !.active = ~user.active]
    BY <1>7 DEF UpdateUser, LinkExpires, AttemptsExpire, LockExpires
  <2>3. ~user'.session
    BY <1>1, <2>1, <2>2 DEF Accounts
  <2>4. user' # None
    <3> DEFINE flipped == ~user.active
    <3>1. flipped \in BOOLEAN
      BY Zenon
    <3>2. \/ user' = user \/ user' = [user EXCEPT !.link = 0]
          \/ user' = [user EXCEPT !.active = flipped]
      BY <2>2
    <3> HIDE DEF flipped
    <3>3. user' \in Accounts
      BY <1>1, <2>1, <3>1, <3>2, SessionsAssumption DEF Accounts
    <3> QED
      BY <3>3, NoneIsNoAccount
  <2> QED
    BY <1>1, <2>1, <2>3, <2>4
<1>8. ASSUME DeleteUser
      PROVE  FALSE
  BY <1>8 DEF DeleteUser
<1>9. CASE UNCHANGED vars
  BY <1>1, <1>9 DEF vars
<1> QED
  BY <1>2, <1>3, <1>4, <1>5, <1>6, <1>7, <1>8, <1>9
  DEF Next, LoginStep, LinkStep, AccountStep

----------------------------------------------------------------------------
(* The lock-out                                                            *)

\* What one request contributes to a count.
One(b) == IF b THEN 1 ELSE 0

\* Adding or removing one member changes the size of a set by one.
LEMMA SizeChanges ==
  ASSUME NEW S, NEW T, IsFiniteSet(S), NEW r, T \ {r} = S \ {r}
  PROVE  Cardinality(T) = Cardinality(S) + One(r \in T) - One(r \in S)
<1>1. Cardinality(S) \in Nat /\ IsFiniteSet(S \ {r})
  BY FS_CardinalityType, FS_RemoveElement
<1>2. Cardinality(S \ {r}) = Cardinality(S) - One(r \in S)
  BY <1>1, FS_RemoveElement DEF One
<1>3. CASE r \in T
  <2>1. T = (S \ {r}) \cup {r} /\ r \notin S \ {r}
    BY <1>3
  <2>2. Cardinality(T) = Cardinality(S \ {r}) + 1
    BY <1>1, <2>1, FS_AddElement
  <2> QED
    BY <1>1, <1>2, <1>3, <2>2 DEF One
<1>4. CASE r \notin T
  <2>1. T = S \ {r}
    BY <1>4
  <2> QED
    BY <1>1, <1>2, <1>4, <2>1 DEF One
<1> QED
  BY <1>3, <1>4

\* A request that moves alone changes the counts by what it contributes.
LEMMA Recount ==
  ASSUME NEW r \in Requests, \A q \in Requests \ {r} : reqs'[q] = reqs[q]
  PROVE  /\ Cardinality(Pending') = Cardinality(Pending) + One(r \in Pending')
                                      - One(r \in Pending)
         /\ Cardinality(Comparing') = Cardinality(Comparing)
                                      + One(r \in Comparing')
                                      - One(r \in Comparing)
<1>1. Pending' \ {r} = Pending \ {r}
  BY DEF Pending
<1>2. Comparing' \ {r} = Comparing \ {r}
  BY DEF Comparing
<1> QED
  BY <1>1, <1>2, CountsAreNumbers, SizeChanges

\* A request is counted once at most.
LEMMA CountsFit ==
  /\ Cardinality(Pending) + Cardinality(Comparing) <= Cardinality(Requests)
  /\ Cardinality(Uncounted) <= Cardinality(Pending)
  /\ Cardinality(Uncounted) + Cardinality(Comparing) <= Cardinality(Requests)
<1>1. Pending \cap Comparing = {}
  BY DEF Pending, Comparing
<1>2. Pending \cup Comparing \in SUBSET Requests
  BY DEF Pending, Comparing
<1>3. Uncounted \in SUBSET Pending
  BY DEF Pending, Uncounted
<1>4. Cardinality(Pending \cup Comparing)
        = Cardinality(Pending) + Cardinality(Comparing)
  <2>1. Cardinality(Pending \cap Comparing) = 0
    BY <1>1, FS_EmptySet
  <2>2. Cardinality(Pending \cup Comparing)
          = Cardinality(Pending) + Cardinality(Comparing)
              - Cardinality(Pending \cap Comparing)
    BY CountsAreNumbers, FS_Union
  <2> QED
    BY <2>1, <2>2, CountsAreNumbers
<1>5. Cardinality(Pending \cup Comparing) <= Cardinality(Requests)
  BY <1>2, SessionsAssumption, FS_Subset
<1>6. Cardinality(Uncounted) <= Cardinality(Pending)
  BY <1>3, CountsAreNumbers, FS_Subset
<1> QED
  BY <1>4, <1>5, <1>6, CountsAreNumbers

\* Every step keeps wrong passwords counted.
LEMMA NextWrong ==
  ASSUME TypeOK, TypeOK', WrongIsCounted, [Next]_vars
  PROVE  WrongIsCounted'
<1> DEFINE P == Cardinality(Pending)
           C == Cardinality(Comparing)
           U == Cardinality(Uncounted)
           N == Cardinality(Requests)
<1>0. /\ reqs \in [Requests -> Request] /\ reqs' \in [Requests -> Request]
      /\ attempts \in 0..MaxAttempts /\ wrong \in Nat
      /\ attempts' \in 0..MaxAttempts /\ wrong' \in Nat
      /\ MaxAttempts \in Nat /\ MaxAttempts >= 1
  BY SessionsAssumption DEF TypeOK
<1>1. /\ P \in Nat /\ C \in Nat /\ U \in Nat /\ N \in Nat
      /\ P + C <= N /\ U <= P /\ U + C <= N
  BY CountsAreNumbers, CountsFit
<1>2. SUFFICES ASSUME ~blind'
               PROVE  (~lock' => CountedOrPending') /\ (lock' => RoomForComparing')
  BY Zenon DEF WrongIsCounted
<1> DEFINE Goal == (~lock' => CountedOrPending') /\ (lock' => RoomForComparing')
<1>3. ASSUME ~blind, lock' = lock, CountedOrPending => CountedOrPending',
             RoomForComparing => RoomForComparing'
      PROVE  Goal
  BY <1>3, Zenon DEF WrongIsCounted
<1> USE DEF Request
<1>4. ASSUME NEW r \in Requests, Login(r)
      PROVE  Goal
  <2>1. /\ ~lock /\ ~lock' /\ ~blind
        /\ wrong' = wrong /\ attempts' = attempts
    <3>1. /\ lock' = lock /\ attempts' = attempts
          /\ \/ ~lock /\ wrong' = wrong /\ blind' = blind
             \/ blind' = TRUE
      BY <1>4 DEF Login
    <3>2. blind' # TRUE
      BY <1>2, Zenon
    <3> QED
      BY <1>2, <3>1, <3>2
  <2>2. /\ \A q \in Requests \ {r} : reqs'[q] = reqs[q]
        /\ r \notin Pending
    BY <1>0, <1>4 DEF Login, Begin, Idle, Pending
  <2>3. P' >= P /\ P' \in Int
    BY <1>1, <2>2, Recount DEF One
  <2>4. CountedOrPending => CountedOrPending'
    BY <1>0, <1>1, <2>1, <2>3 DEF CountedOrPending
  <2> QED
    BY <2>1, <2>4, Zenon DEF WrongIsCounted
<1>5. ASSUME NEW r \in Requests, CheckPassword(r)
      PROVE  Goal
  <2>1. lock' = lock /\ attempts' = attempts /\ ~blind
    BY <1>2, <1>5, Zenon DEF CheckPassword
  <2>2. /\ \A q \in Requests \ {r} : reqs'[q] = reqs[q]
        /\ r \in Comparing /\ r \notin Comparing' /\ r \notin Pending
    BY <1>0, <1>5 DEF CheckPassword, Goto, Pending, Comparing
  <2>3. wrong' = wrong \/ (wrong' = wrong + 1 /\ r \in Pending')
    <3>1. \/ wrong' = wrong
          \/ /\ wrong' = wrong + 1
             /\ reqs' = [reqs EXCEPT ![r].pc = "incr", ![r].id = user.id,
                                     ![r].known = TRUE]
      BY <1>5, <2>1, Zenon DEF CheckPassword
    <3>2. ASSUME reqs' = [reqs EXCEPT ![r].pc = "incr", ![r].id = user.id,
                                      ![r].known = TRUE]
          PROVE  r \in Pending'
      <4>1. reqs'[r].pc = "incr" /\ reqs'[r].known = TRUE
        BY <1>0, <3>2
      <4> QED
        BY <4>1, Zenon DEF Pending
    <3> QED
      BY <3>1, <3>2
  <2>4. C' = C - 1 /\ P' = P + One(r \in Pending')
    BY <1>1, <2>2, Recount DEF One
  <2>5. CountedOrPending => CountedOrPending'
    BY <1>0, <1>1, <2>1, <2>3, <2>4 DEF CountedOrPending, One
  <2>6. RoomForComparing => RoomForComparing'
    BY <1>0, <1>1, <2>3, <2>4 DEF RoomForComparing
  <2> QED
    BY <1>3, <2>1, <2>5, <2>6
<1>6. ASSUME NEW r \in Requests, CountAttempt(r)
      PROVE  Goal
  <2>1. lock' = lock /\ wrong' = wrong /\ ~blind
    BY <1>2, <1>6, Zenon DEF CountAttempt
  <2>2. /\ \A q \in Requests \ {r} : reqs'[q] = reqs[q]
        /\ r \notin Comparing /\ r \notin Comparing'
    BY <1>0, <1>6 DEF CountAttempt, Comparing
  <2>3. /\ attempts' = IF attempts < MaxAttempts THEN attempts + 1
                       ELSE attempts
        /\ reqs'[r].pc = "expire" /\ reqs'[r].known = reqs[r].known
        /\ reqs'[r].full = (attempts' >= MaxAttempts)
    BY <1>0, <1>6 DEF CountAttempt
  <2>4. attempts' < MaxAttempts \/ (r \in Pending => r \in Pending')
    BY <1>0, <2>3 DEF Pending
  <2>5. C' = C /\ P' = P + One(r \in Pending') - One(r \in Pending)
    BY <1>1, <2>2, Recount DEF One
  <2>6. CountedOrPending => CountedOrPending'
    BY <1>0, <1>1, <2>1, <2>3, <2>4, <2>5 DEF CountedOrPending, One
  <2>7. RoomForComparing => RoomForComparing'
    BY <2>1, <2>5 DEF RoomForComparing
  <2> QED
    BY <1>3, <2>1, <2>6, <2>7
<1>7. ASSUME NEW r \in Requests, ExpireAttempts(r)
      PROVE  Goal
  <2>1. lock' = lock /\ wrong' = wrong /\ attempts' = attempts /\ ~blind
    BY <1>2, <1>7, Zenon DEF ExpireAttempts
  <2>2. /\ \A q \in Requests \ {r} : reqs'[q] = reqs[q]
        /\ r \notin Comparing /\ r \notin Comparing'
        /\ r \in Pending => r \in Pending'
    BY <1>0, <1>7 DEF ExpireAttempts, Comparing, Pending, Goto, Finish, Idle
  <2>3. C' = C /\ P' >= P /\ P' \in Int
    BY <1>1, <2>2, Recount DEF One
  <2>4. CountedOrPending => CountedOrPending'
    BY <1>0, <1>1, <2>1, <2>3 DEF CountedOrPending
  <2>5. RoomForComparing => RoomForComparing'
    BY <2>1, <2>3 DEF RoomForComparing
  <2> QED
    BY <1>3, <2>1, <2>4, <2>5
<1>8. ASSUME NEW r \in Requests, LockAccount(r)
      PROVE  Goal
  <2>1. /\ \A q \in Requests \ {r} : reqs'[q] = reqs[q]
        /\ r \notin Comparing /\ r \notin Comparing'
    BY <1>0, <1>8 DEF LockAccount, Comparing, Goto, Finish, Idle
  <2>2. C' = C
    BY <1>1, <2>1, Recount DEF One
  <2>3. ~blind /\ lock' /\ wrong' = wrong
    <3>1. \/ lock' = TRUE /\ wrong' = wrong /\ blind' = blind
          \/ /\ lock' = lock /\ blind' = (blind \/ ~lock)
             /\ wrong' = IF blind' THEN 0 ELSE wrong
      BY <1>8, Zenon DEF LockAccount
    <3>2. CASE lock' = TRUE /\ wrong' = wrong /\ blind' = blind
      BY <1>2, <3>2
    <3>3. CASE /\ lock' = lock /\ blind' = (blind \/ ~lock)
               /\ wrong' = IF blind' THEN 0 ELSE wrong
      BY <1>2, <3>3
    <3> QED
      BY <3>1, <3>2, <3>3
  <2>4. CountedOrPending => RoomForComparing
    BY <1>0, <1>1 DEF CountedOrPending, RoomForComparing
  <2>5. RoomForComparing => RoomForComparing'
    BY <2>2, <2>3 DEF RoomForComparing
  <2> QED
    BY <2>3, <2>4, <2>5, Zenon DEF WrongIsCounted
<1>9. ASSUME NEW r \in Requests, ResetCounters(r)
      PROVE  Goal
  <2>1. /\ \A q \in Requests \ {r} : reqs'[q] = reqs[q]
        /\ r \notin Comparing /\ r \notin Comparing'
        /\ r \notin Pending
    BY <1>0, <1>9 DEF ResetCounters, Comparing, Pending, Goto
  <2>2. C' = C /\ P' >= P /\ P' \in Int
    BY <1>1, <2>1, Recount DEF One
  <2>3. ~blind /\ \/ ~lock' /\ wrong' = U /\ attempts' = 0
                  \/ attempts' = attempts /\ lock' = lock /\ wrong' = wrong
    BY <1>2, <1>9, Zenon DEF ResetCounters
  <2>4. CASE ~lock' /\ wrong' = U /\ attempts' = 0
    <3>1. CountedOrPending'
      BY <1>0, <1>1, <2>2, <2>4 DEF CountedOrPending
    <3> QED
      BY <2>4, <3>1, Zenon
  <2>5. CASE attempts' = attempts /\ lock' = lock /\ wrong' = wrong
    <3>1. CountedOrPending => CountedOrPending'
      BY <1>0, <1>1, <2>2, <2>5 DEF CountedOrPending
    <3>2. RoomForComparing => RoomForComparing'
      BY <2>2, <2>5 DEF RoomForComparing
    <3> QED
      BY <1>3, <2>3, <2>5, <3>1, <3>2
  <2> QED
    BY <2>3, <2>4, <2>5
<1>10. ASSUME NEW r \in Requests, Crash(r)
       PROVE  Goal
  <2>1. /\ lock' = lock /\ attempts' = attempts /\ wrong' = wrong /\ ~blind
        /\ reqs[r].pc \notin Counting
    BY <1>2, <1>10, Zenon DEF Crash
  <2>2. /\ \A q \in Requests \ {r} : reqs'[q] = reqs[q]
        /\ r \notin Comparing' /\ r \notin Pending
    BY <1>0, <1>10, <2>1 DEF Crash, Comparing, Pending, Finish, Idle, Counting
  <2>3. C' <= C /\ C' \in Int /\ P' >= P /\ P' \in Int
    BY <1>1, <2>2, Recount DEF One
  <2>4. CountedOrPending => CountedOrPending'
    BY <1>0, <1>1, <2>1, <2>3 DEF CountedOrPending
  <2>5. RoomForComparing => RoomForComparing'
    BY <1>0, <1>1, <2>1, <2>3 DEF RoomForComparing
  <2> QED
    BY <1>3, <2>1, <2>4, <2>5
<1>11. ASSUME NEW r \in Requests, RedisFails(r)
       PROVE  FALSE
  BY <1>2, <1>11, Zenon DEF RedisFails
<1>12. ASSUME AttemptsExpire \/ LockExpires
       PROVE  Goal
  <2>1. reqs' = reqs /\ ~blind
    <3>1. reqs' = reqs /\ blind' = blind
      BY <1>12 DEF AttemptsExpire, LockExpires
    <3> QED
      BY <1>2, <3>1, Zenon
  <2>2. P' = P /\ C' = C
    BY <2>1 DEF Pending, Comparing
  <2>3. \/ wrong' = U /\ attempts' = 0
        \/ ~lock' /\ wrong' = 0
    BY <1>12, <2>1, Zenon DEF AttemptsExpire, LockExpires
  <2>4. CountedOrPending'
    BY <1>0, <1>1, <2>2, <2>3 DEF CountedOrPending
  <2>5. wrong' = U => RoomForComparing'
    BY <1>0, <1>1, <2>2 DEF RoomForComparing
  <2> QED
    BY <2>3, <2>4, <2>5, Zenon
<1>13. ASSUME UNCHANGED counters, Pending' = Pending, Comparing' = Comparing
       PROVE  Goal
  <2>1. /\ lock' = lock /\ wrong' = wrong /\ attempts' = attempts
        /\ blind' = blind
    BY <1>13 DEF counters
  <2>2. ~blind
    BY <1>2, <2>1, Zenon
  <2>3. CountedOrPending => CountedOrPending'
    BY <1>13, <2>1 DEF CountedOrPending
  <2>4. RoomForComparing => RoomForComparing'
    BY <1>13, <2>1 DEF RoomForComparing
  <2> QED
    BY <1>3, <2>1, <2>2, <2>3, <2>4
<1>14. ASSUME NEW r \in Requests, UNCHANGED counters,
              \A q \in Requests \ {r} : reqs'[q] = reqs[q],
              reqs[r].pc \notin {"find", "incr", "expire", "lock"},
              reqs'[r].pc \notin {"find", "incr", "expire", "lock"}
       PROVE  Goal
  <2>1. Pending' = Pending
    BY <1>14 DEF Pending
  <2>2. Comparing' = Comparing
    BY <1>14 DEF Comparing
  <2> QED
    BY <1>13, <1>14, <2>1, <2>2
<1>15. ASSUME NEW r \in Requests,
              \/ UpdateRefreshTokenHash(r) \/ RefreshTokens(r)
              \/ CompareRefreshToken(r) \/ Logout(r) \/ ClearRefreshTokenHash(r)
              \/ LinkStep(r) \/ AccountStep(r)
       PROVE  Goal
  <2>1. UNCHANGED counters
    BY <1>15
    DEF UpdateRefreshTokenHash, RefreshTokens, CompareRefreshToken, Logout,
        ClearRefreshTokenHash, LinkStep, ForgotPassword, ResendSetupEmail,
        StoreLink, SendLink, StorePassword, ChangePassword,
        StoreChangedPassword, ResetPassword, AccountStep, FindNobody,
        AddressTaken, Signup, CreateUser, CreateClientAccount
  <2>2. reqs[r].pc \notin {"find", "incr", "expire", "lock"}
    <3>1. \/ reqs[r] = Idle
          \/ reqs[r].pc \in {"store", "refresh", "logout", "link", "mail",
                             "reset", "change", "create", "createUser",
                             "client"}
    BY <1>15
    DEF UpdateRefreshTokenHash, RefreshTokens, CompareRefreshToken, Logout,
        ClearRefreshTokenHash, LinkStep, ForgotPassword, ResendSetupEmail,
        StoreLink, SendLink, StorePassword, ChangePassword,
        StoreChangedPassword, ResetPassword, AccountStep, FindNobody,
        AddressTaken, Signup, CreateUser, CreateClientAccount, Begin
    <3> QED
      BY <3>1 DEF Idle
  <2>3. \E x : /\ reqs' = [reqs EXCEPT ![r] = x]
               /\ x.pc \notin {"find", "incr", "expire", "lock"}
    <3> DEFINE Sets(x) == /\ reqs' = [reqs EXCEPT ![r] = x]
                          /\ x.pc \notin {"find", "incr", "expire", "lock"}
    <3>1. ASSUME NEW label \in {"refresh", "logout", "link", "change",
                                "create", "createUser", "client"},
                 NEW id, Begin(r, label, id)
          PROVE  \E x : Sets(x)
      <4>1. Sets([Idle EXCEPT !.pc = label, !.id = id])
        BY <3>1 DEF Begin, Idle
      <4> QED
        BY <4>1
    <3>2. ASSUME Finish(r)
          PROVE  \E x : Sets(x)
      <4>1. Sets(Idle)
        BY <3>2 DEF Finish, Idle
      <4> QED
        BY <4>1
    <3>3. ASSUME Goto(r, "store")
          PROVE  \E x : Sets(x)
      <4>1. Sets([reqs[r] EXCEPT !.pc = "store"])
        BY <1>0, <3>3 DEF Goto
      <4> QED
        BY <4>1
    <3>4. ASSUME reqs' = [reqs EXCEPT ![r].pc = "mail", ![r].link = NewLink]
          PROVE  \E x : Sets(x)
      <4>1. Sets([reqs[r] EXCEPT !.pc = "mail", !.link = NewLink])
        BY <1>0, <3>4
      <4> QED
        BY <4>1
    <3>5. ASSUME reqs' = [reqs EXCEPT ![r].pc = "store", ![r].id = ids + 1]
          PROVE  \E x : Sets(x)
      <4>1. Sets([reqs[r] EXCEPT !.pc = "store", !.id = ids + 1])
        BY <1>0, <3>5
      <4> QED
        BY <4>1
    <3>6. ASSUME NEW l \in mailed, ResetPassword(r, l)
          PROVE  \E x : Sets(x)
      <4>1. Sets([Idle EXCEPT !.pc = "reset", !.id = user.id, !.link = l])
        BY <3>6 DEF ResetPassword, Idle
      <4> QED
        BY <4>1
    <3> HIDE DEF Sets
    <3>7. \E x : Sets(x)
      BY <1>15, <3>1, <3>2, <3>3, <3>4, <3>5, <3>6
      DEF UpdateRefreshTokenHash, RefreshTokens, CompareRefreshToken, Logout,
          ClearRefreshTokenHash, LinkStep, ForgotPassword, ResendSetupEmail,
          StoreLink, SendLink, StorePassword, ChangePassword,
          StoreChangedPassword, AccountStep, FindNobody,
          AddressTaken, Signup, CreateUser, CreateClientAccount
    <3> QED
      BY <3>7 DEF Sets
  <2> QED
    BY <1>0, <1>14, <2>1, <2>2, <2>3
<1>16. CASE UpdateUser \/ DeleteUser \/ LinkExpires \/ UNCHANGED vars
  <2>1. UNCHANGED counters /\ reqs' = reqs
    BY <1>16 DEF UpdateUser, DeleteUser, LinkExpires, vars, counters
  <2>2. Pending' = Pending /\ Comparing' = Comparing
    BY <2>1 DEF Pending, Comparing
  <2> QED
    BY <1>13, <2>1, <2>2
<1> QED
  BY <1>4, <1>5, <1>6, <1>7, <1>8, <1>9, <1>10, <1>11, <1>12, <1>15, <1>16
  DEF Next, LoginStep

----------------------------------------------------------------------------
(* Theorems                                                                *)

\* The initial state satisfies the invariant.
LEMMA InitIInv == Init => IInv
<1> SUFFICES ASSUME Init PROVE IInv
  OBVIOUS
<1>1. LinksAreIssued
  BY DEF Init, LinksAreIssued, Idle
<1>2. NobodySignsIn
  BY DEF Init, NobodySignsIn
<1>3. CountedOrPending /\ ~lock
  BY CountsAreNumbers, SessionsAssumption DEF Init, CountedOrPending
<1>4. WrongIsCounted
  BY <1>3, Zenon DEF WrongIsCounted
<1> QED
  BY <1>1, <1>2, <1>4, InitType DEF IInv

\* Every step keeps the invariant.
LEMMA NextIInv == IInv /\ [Next]_vars => IInv'
<1> SUFFICES ASSUME IInv, [Next]_vars PROVE IInv'
  OBVIOUS
<1>1. TypeOK /\ LinksAreIssued /\ NobodySignsIn /\ WrongIsCounted
  BY DEF IInv
<1>2. TypeOK'
  BY <1>1, NextType
<1> QED
  BY <1>1, <1>2, NextLinks, NextLogout, NextWrong DEF IInv

\* Every state of the account, its links, its counters and its requests has
\* its type.
THEOREM TypeCorrect == Spec => []TypeOK
<1>1. IInv => TypeOK
  BY DEF IInv
<1> QED
  BY <1>1, InitIInv, NextIInv, PTL DEF Spec

\* resetPassword, for any number of requests, accounts and links: a link only
\* ever sets the password of the account it was made for, and never twice.
THEOREM LinksAreUsedOnce == Spec => []UsedLinksStayDead
<1>1. IInv => UsedLinksStayDead
  BY DEF IInv, LinksAreIssued, UsedLinksStayDead, Opens
<1> QED
  BY <1>1, InitIInv, NextIInv, PTL DEF Spec

\* logout, for any number of requests: once it holds, no request on its way
\* opens the session again.
THEOREM LogoutIsFinal == Spec => []LogoutHolds
<1>1. IInv => LogoutHolds
  BY DEF IInv, NobodySignsIn, LogoutHolds
<1> QED
  BY <1>1, InitIInv, NextIInv, PTL DEF Spec

\* login, for any limit and any number of concurrent logins: a window sees at
\* most the limit and one wrong password for each other login.
THEOREM GuessesBounded == Spec => []GuessesAreBounded
<1>1. IInv => GuessesAreBounded
  <2> SUFFICES ASSUME IInv PROVE GuessesAreBounded
    OBVIOUS
  <2>1. /\ TypeOK /\ MaxAttempts \in Nat
        /\ ~blind => (~lock => CountedOrPending) /\ (lock => RoomForComparing)
    BY SessionsAssumption DEF IInv, WrongIsCounted
  <2>2. CountedOrPending \/ RoomForComparing =>
          wrong <= MaxAttempts + Cardinality(Requests) - 1
    <3>1. /\ attempts \in Nat /\ attempts <= MaxAttempts /\ wrong \in Nat
          /\ MaxAttempts \in Nat /\ MaxAttempts >= 1
      BY <2>1, SessionsAssumption DEF TypeOK
    <3>2. CountedOrPending => wrong <= MaxAttempts + Cardinality(Requests) - 1
      BY <3>1, CountsAreNumbers, CountsFit DEF CountedOrPending
    <3>3. RoomForComparing => wrong <= MaxAttempts + Cardinality(Requests) - 1
      BY <3>1, CountsAreNumbers DEF RoomForComparing
    <3> QED
      BY <3>2, <3>3
  <2> QED
    BY <2>1, <2>2, Zenon DEF GuessesAreBounded
<1> QED
  BY <1>1, InitIInv, NextIInv, PTL DEF Spec

=============================================================================
