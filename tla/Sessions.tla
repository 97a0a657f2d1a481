------------------------------ MODULE Sessions ------------------------------
(***************************************************************************)
(* The account behind one e-mail address: the login lock-out in Redis,     *)
(* sessions (the stored hash of a refresh token), the links that set a     *)
(* password, and every operation that creates, deactivates or deletes the  *)
(* account (AuthService, UsersService.update and the user operations of    *)
(* AdminService).                                                          *)
(*                                                                         *)
(* One action is one database or Redis statement with the code up to the   *)
(* next await.  Rows are written by id: a request that read an account     *)
(* deleted since writes nothing (P2025).                                   *)
(*                                                                         *)
(* bcrypt reads the first 72 bytes, which all refresh tokens of a user     *)
(* share, so any unexpired one matches any stored hash: a session is one   *)
(* bit.  Addresses are in lower case, as login makes them.                 *)
(***************************************************************************)
EXTENDS Naturals, Sequences, FiniteSets

CONSTANTS
  Requests,     \* requests that may be under way at once
  MaxAttempts,  \* LOGIN_MAX_ATTEMPTS
  MaxAccounts,  \* bound: accounts created one after the other
  MaxLinks,     \* bound: links issued
  None

ASSUME SessionsAssumption ==
  /\ IsFiniteSet(Requests)
  /\ MaxAttempts \in Nat \ {0}
  /\ MaxAccounts \in Nat /\ MaxLinks \in Nat
  /\ None \notin [id : 1..MaxAccounts, active : BOOLEAN, chosen : BOOLEAN,
                  session : BOOLEAN, link : 0..MaxLinks]

VARIABLES
  user,      \* the row of table users, or None
  ids,       \* accounts created so far
  issued,    \* issued[l]: the account link l was made for
  mailed,    \* links that reached the mailbox
  attempts,  \* login:attempts:<address>, saturated; 0: no key
  ttl,       \* that key has a time to live
  lock,      \* login:lockout:<address> exists
  reqs,      \* requests under way
  used,      \* history: <<link, account>> of every password a link set
  wrong,     \* history: wrong passwords compared in this window
  blind,     \* history: attempts went uncounted or were forgotten
  out        \* history: logged out, and no login has begun since

vars == <<user, ids, issued, mailed, attempts, ttl, lock, reqs, used, wrong,
          blind, out>>
links == <<issued, mailed, used>>
counters == <<attempts, ttl, lock, wrong, blind>>

\* chosen: somebody knows the password; else it is random.  link: the link
\* whose hash is stored and has not expired; 0: none.
Accounts == [id : 1..MaxAccounts, active : BOOLEAN, chosen : BOOLEAN,
             session : BOOLEAN, link : 0..MaxLinks]

Counting == {"incr", "expire", "lock", "del"}   \* after a wrong password
SigningIn == {"find", "clear", "create", "store"} \cup Counting
PCs == SigningIn \cup {"idle", "refresh", "logout", "link", "mail", "reset",
                       "change", "createUser", "client"}

\* known: the password was compared, not an unknown address; full: INCR
\* returned at least MaxAttempts.
Request == [pc : PCs, id : 0..MaxAccounts, link : 0..MaxLinks,
            known : BOOLEAN, full : BOOLEAN]
Idle == [pc |-> "idle", id |-> 0, link |-> 0, known |-> FALSE, full |-> FALSE]

TypeOK ==
  /\ user \in Accounts \cup {None}
  /\ ids \in 0..MaxAccounts
  /\ issued \in Seq(1..MaxAccounts) /\ Len(issued) <= MaxLinks
  /\ mailed \subseteq 1..MaxLinks
  /\ attempts \in 0..MaxAttempts /\ ttl \in BOOLEAN /\ lock \in BOOLEAN
  /\ reqs \in [Requests -> Request]
  /\ used \subseteq (1..MaxLinks) \X (1..MaxAccounts)
  /\ wrong \in Nat /\ blind \in BOOLEAN /\ out \in BOOLEAN

Init ==
  /\ user = None /\ ids = 0
  /\ issued = <<>> /\ mailed = {} /\ used = {}
  /\ attempts = 0 /\ ttl = FALSE /\ lock = FALSE
  /\ wrong = 0 /\ blind = FALSE /\ out = FALSE
  /\ reqs = [r \in Requests |-> Idle]

Is(id) == user # None /\ user.id = id

Begin(r, pc, id) ==
  /\ reqs[r] = Idle
  /\ reqs' = [reqs EXCEPT ![r] = [Idle EXCEPT !.pc = pc, !.id = id]]

Goto(r, pc) == reqs' = [reqs EXCEPT ![r].pc = pc]

Finish(r) == reqs' = [reqs EXCEPT ![r] = Idle]

----------------------------------------------------------------------------
(* login                                                                   *)

\* Mutant: the lock is not looked at.
LoginUnlocked(r) ==
  /\ Begin(r, "find", 0)
  /\ out' = FALSE
  /\ UNCHANGED <<user, ids, links, counters>>

\* The lock is read first; a locked address is refused.  safeRedis: without
\* Redis there is no lock.
Login(r) ==
  /\ Begin(r, "find", 0)
  /\ \/ ~lock /\ UNCHANGED <<wrong, blind>>
     \/ lock /\ blind' = TRUE /\ wrong' = 0
  /\ out' = FALSE
  /\ UNCHANGED <<user, ids, links, attempts, ttl, lock>>

\* findByEmail and the comparison with the row it returned.
CheckPassword(r) ==
  /\ reqs[r].pc = "find"
  /\ \/ /\ user = None
        /\ Goto(r, "incr")
        /\ UNCHANGED wrong
     \/ /\ user # None /\ user.chosen
        /\ reqs' = [reqs EXCEPT ![r].pc = "clear", ![r].id = user.id]
        /\ UNCHANGED wrong
     \/ /\ user # None
        /\ reqs' = [reqs EXCEPT ![r].pc = "incr", ![r].id = user.id,
                                ![r].known = TRUE]
        /\ wrong' = IF blind THEN 0 ELSE wrong + 1
  /\ UNCHANGED <<user, ids, links, attempts, ttl, lock, blind, out>>

\* A Redis command of a login fails: the attempt stays without effect.
RedisFails(r) ==
  /\ reqs[r].pc \in Counting
  /\ Finish(r)
  /\ blind' = TRUE /\ wrong' = 0
  /\ UNCHANGED <<user, ids, links, attempts, ttl, lock, out>>

\* INCR.
CountAttempt(r) ==
  /\ reqs[r].pc = "incr"
  /\ attempts' = IF attempts < MaxAttempts THEN attempts + 1 ELSE attempts
  /\ reqs' = [reqs EXCEPT ![r].pc = "expire",
                          ![r].full = (attempts' >= MaxAttempts)]
  /\ UNCHANGED <<user, ids, links, ttl, lock, wrong, blind, out>>

\* EXPIRE, at every attempt; an unknown address is never locked.
ExpireAttempts(r) ==
  /\ reqs[r].pc = "expire"
  /\ ttl' = (attempts > 0)
  /\ IF reqs[r].known /\ reqs[r].full THEN Goto(r, "lock") ELSE Finish(r)
  /\ UNCHANGED <<user, ids, links, attempts, lock, wrong, blind, out>>

\* SET lockout EX, then DEL attempts.  A right password in between lifts the
\* lock, and the DEL then forgets attempts of the next window.
LockAccount(r) ==
  /\ \/ reqs[r].pc = "lock" /\ lock' = TRUE /\ Goto(r, "del")
        /\ UNCHANGED <<attempts, ttl, wrong, blind>>
     \/ /\ reqs[r].pc = "del" /\ attempts' = 0 /\ ttl' = FALSE /\ Finish(r)
        /\ blind' = (blind \/ ~lock)
        /\ wrong' = IF blind' THEN 0 ELSE wrong
        /\ UNCHANGED lock
  /\ UNCHANGED <<user, ids, links, out>>

\* The wrong passwords that are compared but not counted yet.
Uncounted == {q \in Requests : reqs[q].pc = "incr" /\ reqs[q].known}

\* The right password deletes both keys, if Redis answers.
ResetCounters(r) ==
  /\ reqs[r].pc = "clear"
  /\ Goto(r, "store")
  /\ \/ /\ attempts' = 0 /\ ttl' = FALSE /\ lock' = FALSE
        /\ wrong' = IF blind THEN 0 ELSE Cardinality(Uncounted)
     \/ UNCHANGED <<attempts, ttl, lock, wrong>>
  /\ UNCHANGED <<user, ids, links, blind, out>>

\* updateRefreshTokenHash, the end of login, signup, register and refresh.
UpdateRefreshTokenHash(r) ==
  /\ reqs[r].pc = "store"
  /\ user' = IF Is(reqs[r].id) THEN [user EXCEPT !.session = TRUE] ELSE user
  /\ Finish(r)
  /\ UNCHANGED <<ids, links, counters, out>>

----------------------------------------------------------------------------
(* refresh and logout, behind the strategies                               *)

\* validate of both JWT strategies.
SignedIn == user # None /\ user.active

RefreshTokens(r) ==
  /\ SignedIn
  /\ Begin(r, "refresh", user.id)
  /\ UNCHANGED <<user, ids, links, counters, out>>

\* Mutant: the stored hash is compared before it is known to be there.
CompareWhateverIsStored(r) ==
  /\ reqs[r].pc = "refresh"
  /\ IF Is(reqs[r].id) THEN Goto(r, "store") ELSE Finish(r)
  /\ UNCHANGED <<user, ids, links, counters, out>>

\* The row is read again; without a stored hash access is denied.
CompareRefreshToken(r) ==
  /\ reqs[r].pc = "refresh"
  /\ IF Is(reqs[r].id) /\ user.session THEN Goto(r, "store") ELSE Finish(r)
  /\ UNCHANGED <<user, ids, links, counters, out>>

Logout(r) ==
  /\ SignedIn
  /\ Begin(r, "logout", user.id)
  /\ UNCHANGED <<user, ids, links, counters, out>>

ClearRefreshTokenHash(r) ==
  /\ reqs[r].pc = "logout"
  /\ user' = IF Is(reqs[r].id) THEN [user EXCEPT !.session = FALSE] ELSE user
  /\ out' = (out \/ (Is(reqs[r].id)
                       /\ \A q \in Requests : reqs[q].pc \notin SigningIn))
  /\ Finish(r)
  /\ UNCHANGED <<ids, links, counters>>

----------------------------------------------------------------------------
(* Links                                                                   *)

\* forgotPassword, up to the row it found.
ForgotPassword(r) ==
  /\ user # None
  /\ Begin(r, "link", user.id)
  /\ UNCHANGED <<user, ids, links, counters, out>>

\* resendSetupEmail: for an account without session.
ResendSetupEmail(r) ==
  /\ user # None /\ ~user.session
  /\ Begin(r, "link", user.id)
  /\ UNCHANGED <<user, ids, links, counters, out>>

NewLink == Len(issued) + 1

\* The hash of a new token replaces that of the earlier one.
StoreLink(r) ==
  /\ reqs[r].pc = "link"
  /\ \/ /\ Is(reqs[r].id) /\ NewLink <= MaxLinks
        /\ user' = [user EXCEPT !.link = NewLink]
        /\ issued' = Append(issued, user.id)
        /\ reqs' = [reqs EXCEPT ![r].pc = "mail", ![r].link = NewLink]
     \/ /\ ~Is(reqs[r].id)
        /\ Finish(r)
        /\ UNCHANGED <<user, issued>>
  /\ UNCHANGED <<ids, mailed, used, counters, out>>

\* The mail, which may be lost or refused.
SendLink(r) ==
  /\ reqs[r].pc = "mail"
  /\ mailed' = mailed \cup {reqs[r].link} \/ UNCHANGED mailed
  /\ Finish(r)
  /\ UNCHANGED <<user, ids, issued, used, counters, out>>

\* verifyResetToken and the lookup of resetPassword: the hash of the link,
\* not expired.
Opens(l) == user # None /\ user.link = l

ResetPassword(r, l) ==
  /\ l \in mailed /\ Opens(l)
  /\ reqs[r] = Idle
  /\ reqs' = [reqs EXCEPT ![r] = [Idle EXCEPT !.pc = "reset", !.id = user.id,
                                              !.link = l]]
  /\ UNCHANGED <<user, ids, links, counters, out>>

\* Mutant: the password is set and the link is left.
StorePasswordOnly(r) ==
  /\ reqs[r].pc = "reset"
  /\ IF Is(reqs[r].id)
     THEN /\ user' = [user EXCEPT !.chosen = TRUE]
          /\ used' = used \cup {<<reqs[r].link, reqs[r].id>>}
     ELSE UNCHANGED <<user, used>>
  /\ Finish(r)
  /\ UNCHANGED <<ids, issued, mailed, counters, out>>

\* Sessions stay as they are.
StorePassword(r) ==
  /\ reqs[r].pc = "reset"
  /\ IF Is(reqs[r].id)
     THEN /\ user' = [user EXCEPT !.chosen = TRUE, !.link = 0]
          /\ used' = used \cup {<<reqs[r].link, reqs[r].id>>}
     ELSE UNCHANGED <<user, used>>
  /\ Finish(r)
  /\ UNCHANGED <<ids, issued, mailed, counters, out>>

LinkExpires ==
  /\ user # None /\ user.link # 0
  /\ user' = [user EXCEPT !.link = 0]
  /\ UNCHANGED <<ids, links, counters, reqs, out>>

\* changePassword with the current password; the link is left alone.
ChangePassword(r) ==
  /\ SignedIn /\ user.chosen
  /\ Begin(r, "change", user.id)
  /\ UNCHANGED <<user, ids, links, counters, out>>

StoreChangedPassword(r) ==
  /\ reqs[r].pc = "change"
  /\ user' = IF Is(reqs[r].id) THEN [user EXCEPT !.chosen = TRUE] ELSE user
  /\ Finish(r)
  /\ UNCHANGED <<ids, links, counters, out>>

----------------------------------------------------------------------------
(* Creation and administration                                             *)

Account(chosen, link) ==
  [id |-> ids + 1, active |-> TRUE, chosen |-> chosen, session |-> FALSE,
   link |-> link]

\* signup and register (pc "create"), createUser and createClientAccount
\* first look for the address.
FindNobody(r) ==
  /\ user = None /\ ids < MaxAccounts
  /\ \E pc \in {"create", "createUser", "client"} :
       /\ Begin(r, pc, 0)
       /\ out' = (out /\ pc # "create")
  /\ UNCHANGED <<user, ids, links, counters>>

\* The address is taken meanwhile: the unique index refuses the insert.
AddressTaken(r) ==
  /\ reqs[r].pc \in {"create", "createUser", "client"}
  /\ user # None \/ ids = MaxAccounts
  /\ Finish(r)
  /\ UNCHANGED <<user, ids, links, counters, out>>

\* The transaction of signup, the insert of register; a session follows.
Signup(r) ==
  /\ reqs[r].pc = "create" /\ user = None /\ ids < MaxAccounts
  /\ user' = Account(TRUE, 0)
  /\ ids' = ids + 1
  /\ reqs' = [reqs EXCEPT ![r].pc = "store", ![r].id = ids + 1]
  /\ UNCHANGED <<links, counters, out>>

\* The administrator's createUser: a password or a random one, the hash of a
\* link, and the mail.
CreateUser(r) ==
  /\ reqs[r].pc = "createUser" /\ user = None /\ ids < MaxAccounts
  /\ NewLink <= MaxLinks
  /\ \E chosen \in BOOLEAN : user' = Account(chosen, NewLink)
  /\ ids' = ids + 1
  /\ issued' = Append(issued, ids + 1)
  /\ reqs' = [reqs EXCEPT ![r].pc = "mail", ![r].link = NewLink]
  /\ UNCHANGED <<mailed, used, counters, out>>

\* createClientAccount is one transaction with the mail inside.  It stores
\* the token itself, which is the hash of no token: nothing opens the link.
\* The transaction may fail before the mail or after it.
CreateClientAccount(r) ==
  /\ reqs[r].pc = "client" /\ user = None /\ ids < MaxAccounts
  /\ NewLink <= MaxLinks
  /\ \/ /\ user' = Account(FALSE, 0)
        /\ ids' = ids + 1
        /\ issued' = Append(issued, ids + 1)
        /\ mailed' = mailed \cup {NewLink}
     \/ UNCHANGED <<user, ids, issued, mailed>>
  /\ Finish(r)
  /\ UNCHANGED <<used, counters, out>>

\* updateUser: isActive.
UpdateUser ==
  /\ user # None
  /\ user' = [user EXCEPT !.active = ~@]
  /\ UNCHANGED <<ids, links, counters, reqs, out>>

\* deleteUser, deleteTeamUser and the cascade of deleteOrganization.
DeleteUser ==
  /\ user # None
  /\ user' = None /\ out' = FALSE
  /\ UNCHANGED <<ids, links, counters, reqs>>

----------------------------------------------------------------------------
(* Time and crashes                                                        *)

\* 15 minutes after the last attempt.
AttemptsExpire ==
  /\ ttl
  /\ attempts' = 0 /\ ttl' = FALSE
  /\ wrong' = IF blind THEN 0 ELSE Cardinality(Uncounted)
  /\ UNCHANGED <<user, ids, links, lock, reqs, blind, out>>

\* 15 minutes after the lock: requests that began before it have ended.
LockExpires ==
  /\ lock
  /\ \A r \in Requests : reqs[r].pc \notin {"find", "clear"} \cup Counting
  /\ lock' = FALSE /\ wrong' = 0
  /\ UNCHANGED <<user, ids, links, attempts, ttl, reqs, blind, out>>

\* The worker of a request dies.
Crash(r) ==
  /\ reqs[r] # Idle
  /\ Finish(r)
  /\ blind' = (blind \/ reqs[r].pc \in Counting)
  /\ wrong' = IF blind' THEN 0 ELSE wrong
  /\ UNCHANGED <<user, ids, links, attempts, ttl, lock, out>>

----------------------------------------------------------------------------

LoginStep(r) ==
  \/ CheckPassword(r) \/ CountAttempt(r) \/ ExpireAttempts(r)
  \/ LockAccount(r) \/ ResetCounters(r) \/ UpdateRefreshTokenHash(r)

LinkStep(r) ==
  \/ ForgotPassword(r) \/ ResendSetupEmail(r) \/ StoreLink(r) \/ SendLink(r)
  \/ StorePassword(r) \/ ChangePassword(r) \/ StoreChangedPassword(r)
  \/ \E l \in mailed : ResetPassword(r, l)

AccountStep(r) ==
  \/ FindNobody(r) \/ AddressTaken(r) \/ Signup(r) \/ CreateUser(r)
  \/ CreateClientAccount(r)

Next ==
  \/ \E r \in Requests :
       \/ Login(r) \/ LoginStep(r) \/ RedisFails(r) \/ RefreshTokens(r)
       \/ CompareRefreshToken(r) \/ Logout(r) \/ ClearRefreshTokenHash(r)
       \/ LinkStep(r) \/ AccountStep(r) \/ Crash(r)
  \/ UpdateUser \/ DeleteUser \/ LinkExpires \/ AttemptsExpire \/ LockExpires

Spec == Init /\ [][Next]_vars

----------------------------------------------------------------------------
(* Properties                                                              *)

\* login: whatever the interleaving of logins, a window never sees more wrong
\* passwords than the limit and one for each other login that was past the
\* lock when it fell, unless Redis failed (fail-open), a worker died before it
\* counted or a right password overtook a lock-out.
GuessesAreBounded ==
  ~blind => wrong <= MaxAttempts + Cardinality(Requests) - 1

\* resetPassword: a link only ever set the password of the account it was
\* made for, also when the address was deleted and created again meanwhile,
\* and once it has set one it is never the link on file again.
UsedLinksStayDead ==
  \A u \in used : issued[u[1]] = u[2] /\ ~Opens(u[1])

\* logout: when no login is under way and no refresh is past its comparison,
\* the session stays closed until the next login or signup begins; a refresh
\* that has not compared yet cannot bring it back.
LogoutHolds == out => user # None /\ ~user.session

============================================================================
