---------------------------- MODULE Membership ----------------------------
(***************************************************************************)
(* The users of one organisation: invitations under the plan's maxUsers    *)
(* (AuthService.inviteUser, LicenseGuardianService.assertLimit),           *)
(* registration with an invitation (AuthService.register), and the         *)
(* administrator's createUser and deleteUser.                              *)
(*                                                                         *)
(* None of these is a transaction: one action is one statement with the    *)
(* code up to the next await.  Unique indexes on the e-mail address of     *)
(* users and of invitations are all that serialises them.                  *)
(***************************************************************************)
EXTENDS Naturals, FiniteSets

CONSTANTS
  Emails,
  Requests,  \* requests that may be under way at once
  MaxUsers,  \* maxUsers of the organisation's plan
  None

ASSUME MembershipAssumption ==
  /\ IsFiniteSet(Emails)
  /\ MaxUsers \in Nat
  /\ None \notin Emails

VARIABLES
  invites,  \* table invitations, one row per e-mail address at most
  users,    \* e-mail addresses of table users
  reqs,     \* requests under way
  direct,   \* history: users an administrator created without invitation
  overlap   \* history: a request began while another one was under way

vars == <<invites, users, reqs, direct, overlap>>

\* inviteUser: limit, find, insert.  register: lookup, accept, join.
\* createUser: add.
PCs == {"idle", "limit", "find", "insert", "lookup", "accept", "join", "add"}

Request == [pc : PCs, email : Emails \cup {None}, count : Nat]

Idle == [pc |-> "idle", email |-> None, count |-> 0]

TypeOK ==
  /\ invites \in [Emails -> {"none", "active", "expired", "accepted"}]
  /\ users \subseteq Emails
  /\ reqs \in [Requests -> Request]
  /\ direct \subseteq Emails
  /\ overlap \in BOOLEAN

Init ==
  /\ invites = [e \in Emails |-> "none"]
  /\ users = {} /\ direct = {} /\ overlap = FALSE
  /\ reqs = [r \in Requests |-> Idle]

Active == {e \in Emails : invites[e] = "active"}

Begin(r, pc, e, count) ==
  /\ reqs[r] = Idle
  /\ reqs' = [reqs EXCEPT ![r] = [pc |-> pc, email |-> e, count |-> count]]
  /\ overlap' = (overlap \/ \E q \in Requests : reqs[q] # Idle)

Goto(r, pc) == reqs' = [reqs EXCEPT ![r].pc = pc] /\ UNCHANGED overlap

Finish(r) == reqs' = [reqs EXCEPT ![r] = Idle] /\ UNCHANGED overlap

----------------------------------------------------------------------------
(* inviteUser                                                              *)

\* assertLimit counts the users ...
InviteUser(r, e) ==
  /\ Begin(r, "limit", e, Cardinality(users))
  /\ UNCHANGED <<invites, users, direct>>

\* Mutant: the limit is compared as if it could be exceeded by one.
AssertLimitOffByOne(r) ==
  /\ reqs[r].pc = "limit"
  /\ IF reqs[r].count + Cardinality(Active) > MaxUsers THEN Finish(r)
     ELSE Goto(r, "find")
  /\ UNCHANGED <<invites, users, direct>>

\* ... then the pending invitations, and refuses when the plan is used up.
AssertLimit(r) ==
  /\ reqs[r].pc = "limit"
  /\ IF reqs[r].count + Cardinality(Active) >= MaxUsers THEN Finish(r)
     ELSE Goto(r, "find")
  /\ UNCHANGED <<invites, users, direct>>

FindByEmail(r) ==
  /\ reqs[r].pc = "find"
  /\ IF reqs[r].email \in users THEN Finish(r) ELSE Goto(r, "insert")
  /\ UNCHANGED <<invites, users, direct>>

\* The insert, which the unique address refuses (P2002) whatever became of
\* the earlier invitation; the mail follows and may fail.
CreateInvitation(r) ==
  /\ reqs[r].pc = "insert"
  /\ invites' = IF invites[reqs[r].email] = "none"
                  THEN [invites EXCEPT ![reqs[r].email] = "active"]
                  ELSE invites
  /\ Finish(r)
  /\ UNCHANGED <<users, direct>>

----------------------------------------------------------------------------
(* register                                                                *)

\* The invitee, who has the token of the mail, has no account yet.
Register(r, e) ==
  /\ e \notin users
  /\ Begin(r, "lookup", e, 0)
  /\ UNCHANGED <<invites, users, direct>>

\* Mutant: the invitation is marked after the user is created.
FindInvitationKeepingIt(r) ==
  /\ reqs[r].pc = "lookup"
  /\ IF invites[reqs[r].email] = "active" THEN Goto(r, "join") ELSE Finish(r)
  /\ UNCHANGED <<invites, users, direct>>

\* The invitation is neither accepted nor expired ...
FindInvitation(r) ==
  /\ reqs[r].pc = "lookup"
  /\ IF invites[reqs[r].email] = "active" THEN Goto(r, "accept") ELSE Finish(r)
  /\ UNCHANGED <<invites, users, direct>>

\* ... it is marked as accepted, by its id alone ...
AcceptInvitation(r) ==
  /\ reqs[r].pc = "accept"
  /\ invites' = [invites EXCEPT ![reqs[r].email] = "accepted"]
  /\ Goto(r, "join")
  /\ UNCHANGED <<users, direct>>

\* ... and the user is created, unless the address is taken by now.
CreateJoined(r) ==
  /\ reqs[r].pc = "join"
  /\ IF reqs[r].email \in users THEN UNCHANGED users
     ELSE users' = users \cup {reqs[r].email}
  /\ Finish(r)
  /\ UNCHANGED <<invites, direct>>

----------------------------------------------------------------------------
(* The administrator, the clock and crashes                                *)

\* AdminService.createUser knows neither invitations nor the limit.
CreateUser(r, e) ==
  /\ e \notin users
  /\ Begin(r, "add", e, 0)
  /\ UNCHANGED <<invites, users, direct>>

StoreUser(r) ==
  /\ reqs[r].pc = "add"
  /\ IF reqs[r].email \in users THEN UNCHANGED <<users, direct>>
     ELSE /\ users' = users \cup {reqs[r].email}
          /\ direct' = direct \cup {reqs[r].email}
  /\ Finish(r)
  /\ UNCHANGED invites

\* The user's invitation stays.
DeleteUser(e) ==
  /\ e \in users
  /\ users' = users \ {e} /\ direct' = direct \ {e}
  /\ UNCHANGED <<invites, reqs, overlap>>

InvitationExpires(e) ==
  /\ invites[e] = "active"
  /\ invites' = [invites EXCEPT ![e] = "expired"]
  /\ UNCHANGED <<users, reqs, direct, overlap>>

\* The worker of request r dies.
Restart(r) ==
  /\ reqs[r] # Idle
  /\ Finish(r)
  /\ UNCHANGED <<invites, users, direct>>

Next ==
  \/ \E r \in Requests :
       \/ \E e \in Emails : InviteUser(r, e) \/ Register(r, e) \/ CreateUser(r, e)
       \/ AssertLimit(r) \/ FindByEmail(r) \/ CreateInvitation(r)
       \/ FindInvitation(r) \/ AcceptInvitation(r) \/ CreateJoined(r)
       \/ StoreUser(r) \/ Restart(r)
  \/ \E e \in Emails : DeleteUser(e) \/ InvitationExpires(e)

Spec == Init /\ [][Next]_vars

----------------------------------------------------------------------------
(* Properties                                                              *)

\* Whoever is a user was invited, and used that invitation up, or was created
\* by an administrator: two registrations with one invitation, or one that
\* races an administrator, give one user.
MembersWereInvited ==
  \A e \in users \ direct : invites[e] = "accepted"

\* "Votre forfait autorise maximum N utilisateurs"
\* (license-guardian.service.ts:78): invited users and open invitations fit in
\* the plan as long as requests follow one another, through crashes, expiry,
\* deletion and the administrator's own users.  Two requests that overlap can
\* each see the last seat free.
SeatsAreRespected ==
  ~overlap => Cardinality((users \ direct) \cup Active) <= MaxUsers

============================================================================
