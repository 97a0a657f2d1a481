------------------------- MODULE OrganisationProofs -------------------------
(***************************************************************************)
(* Theorems about an organisation as a customer: its members and seats     *)
(* (Membership), its wizard (Onboarding) and its subscription (Billing).   *)
(* The three share no state; each part below proves one of them, for any   *)
(* sets of addresses, requests, subscriptions, charges and plans, and any  *)
(* limit of the plan.                                                      *)
(***************************************************************************)
EXTENDS Membership, Onboarding, Billing, FiniteSetTheorems, SequenceTheorems,
        TLAPS

----------------------------------------------------------------------------
(* Membership.  MembersWereInvited is not inductive alone: a request that  *)
(* is about to create its user must still find the invitation marked, and  *)
(* nothing un-marks one.                                                   *)

\* A request under way names an address.
RequestsNameAnAddress ==
  \A r \in Requests : reqs[r].pc # "idle" => reqs[r].email \in Emails

\* A registration creates its user only after marking the invitation.
JoinersAreAccepted ==
  \A r \in Requests : reqs[r].pc = "join" => invites[reqs[r].email] = "accepted"

IInv ==
  /\ TypeOK /\ RequestsNameAnAddress
  /\ JoinersAreAccepted /\ MembersWereInvited

\* Counting users gives a natural number, since addresses are finitely many.
LEMMA UsersAreCounted == TypeOK => Cardinality(users) \in Nat
<1> SUFFICES ASSUME TypeOK PROVE Cardinality(users) \in Nat
  OBVIOUS
<1>1. IsFiniteSet(users)
  BY FS_Subset, MembershipAssumption DEF TypeOK
<1> QED
  BY <1>1, FS_CardinalityType

\* An organisation without users satisfies the invariant.
LEMMA InitInv == Init => IInv
<1> SUFFICES ASSUME Init PROVE IInv
  OBVIOUS
<1>1. overlap \in BOOLEAN
  BY Zenon DEF Init
<1>2. TypeOK
  BY <1>1 DEF Init, TypeOK, Request, PCs, Idle
<1>3. RequestsNameAnAddress /\ JoinersAreAccepted /\ MembersWereInvited
  BY DEF Init, RequestsNameAnAddress, JoinersAreAccepted, MembersWereInvited, Idle
<1> QED
  BY <1>2, <1>3 DEF IInv

\* Starting a request that is not yet a registration's last step.
LEMMA BeginInv ==
  ASSUME IInv, NEW r \in Requests, NEW e \in Emails, NEW count \in Nat,
         NEW pc \in PCs \ {"join"}, Begin(r, pc, e, count),
         UNCHANGED <<invites, users, direct>>
  PROVE  IInv'
<1>1. TypeOK'
  BY DEF IInv, TypeOK, Begin, Request
<1>2. RequestsNameAnAddress'
  BY DEF IInv, TypeOK, Begin, Request, RequestsNameAnAddress
<1>3. JoinersAreAccepted'
  BY DEF IInv, TypeOK, Begin, Request, JoinersAreAccepted
<1>4. MembersWereInvited'
  BY DEF IInv, MembersWereInvited
<1> QED
  BY <1>1, <1>2, <1>3, <1>4 DEF IInv

\* Ending a request disturbs nothing.
LEMMA FinishInv ==
  ASSUME IInv, NEW r \in Requests, Finish(r),
         UNCHANGED <<invites, users, direct>>
  PROVE  IInv'
<1>1. TypeOK'
  BY DEF IInv, TypeOK, Finish, Request, Idle, PCs
<1>2. RequestsNameAnAddress' /\ JoinersAreAccepted'
  BY DEF IInv, TypeOK, Finish, Request, Idle, RequestsNameAnAddress,
         JoinersAreAccepted
<1>3. MembersWereInvited'
  BY DEF IInv, MembersWereInvited
<1> QED
  BY <1>1, <1>2, <1>3 DEF IInv

\* Going on to a step other than the creation of the user.
LEMMA GotoInv ==
  ASSUME IInv, NEW r \in Requests, reqs[r].pc # "idle",
         NEW pc \in PCs \ {"idle", "join"}, Goto(r, pc),
         UNCHANGED <<invites, users, direct>>
  PROVE  IInv'
<1>1. TypeOK'
  BY DEF IInv, TypeOK, Goto, Request
<1>2. RequestsNameAnAddress' /\ JoinersAreAccepted'
  BY DEF IInv, TypeOK, Goto, Request, RequestsNameAnAddress,
         JoinersAreAccepted
<1>3. MembersWereInvited'
  BY DEF IInv, MembersWereInvited
<1> QED
  BY <1>1, <1>2, <1>3 DEF IInv

\* Every step preserves the invariant.
LEMMA NextInv == IInv /\ [Next]_vars => IInv'
<1> SUFFICES ASSUME IInv, [Next]_vars PROVE IInv'
  OBVIOUS
<1>1. ASSUME NEW r \in Requests, NEW e \in Emails, InviteUser(r, e)
      PROVE  IInv'
  <2>1. Cardinality(users) \in Nat
    BY UsersAreCounted DEF IInv
  <2> QED
    BY <1>1, <2>1, BeginInv DEF InviteUser, PCs
<1>2. ASSUME NEW r \in Requests, NEW e \in Emails,
             Register(r, e) \/ CreateUser(r, e)
      PROVE  IInv'
  BY <1>2, BeginInv DEF Register, CreateUser, PCs
<1>3. ASSUME NEW r \in Requests,
             AssertLimit(r) \/ FindByEmail(r) \/ FindInvitation(r)
      PROVE  IInv'
  BY <1>3, FinishInv, GotoInv DEF AssertLimit, FindByEmail, FindInvitation, PCs
<1>4. ASSUME NEW r \in Requests, CreateInvitation(r)
      PROVE  IInv'
  <2> DEFINE e == reqs[r].email
  <2>1. e \in Emails
    BY <1>4 DEF CreateInvitation, IInv, RequestsNameAnAddress
  <2>2. \A d \in Emails : invites[d] = "accepted" => invites'[d] = "accepted"
    BY <1>4, <2>1 DEF CreateInvitation, IInv, TypeOK
  <2>3. TypeOK'
    BY <1>4, <2>1
    DEF CreateInvitation, Finish, IInv, TypeOK, Request, Idle, PCs
  <2>4. RequestsNameAnAddress'
    BY <1>4 DEF CreateInvitation, Finish, IInv, TypeOK, Request, Idle,
                RequestsNameAnAddress
  <2>5. JoinersAreAccepted'
    BY <1>4, <2>2 DEF CreateInvitation, Finish, IInv, TypeOK, Request, Idle,
                      JoinersAreAccepted, RequestsNameAnAddress
  <2>6. MembersWereInvited'
    BY <1>4, <2>2 DEF CreateInvitation, IInv, TypeOK, MembersWereInvited
  <2> QED
    BY <2>3, <2>4, <2>5, <2>6 DEF IInv
<1>5. ASSUME NEW r \in Requests, AcceptInvitation(r)
      PROVE  IInv'
  <2> DEFINE e == reqs[r].email
  <2>1. e \in Emails
    BY <1>5 DEF AcceptInvitation, IInv, RequestsNameAnAddress
  <2>2. /\ \A d \in Emails : invites[d] = "accepted" => invites'[d] = "accepted"
        /\ invites'[e] = "accepted"
    BY <1>5, <2>1 DEF AcceptInvitation, IInv, TypeOK
  <2>3. TypeOK'
    BY <1>5, <2>1 DEF AcceptInvitation, Goto, IInv, TypeOK, Request, PCs
  <2>4. RequestsNameAnAddress'
    BY <1>5, <2>1 DEF AcceptInvitation, Goto, IInv, TypeOK, Request,
                      RequestsNameAnAddress
  <2>5. JoinersAreAccepted'
    BY <1>5, <2>2 DEF AcceptInvitation, Goto, IInv, TypeOK, Request,
                      JoinersAreAccepted, RequestsNameAnAddress
  <2>6. MembersWereInvited'
    BY <1>5, <2>2 DEF AcceptInvitation, IInv, TypeOK, MembersWereInvited
  <2> QED
    BY <2>3, <2>4, <2>5, <2>6 DEF IInv
<1>6. ASSUME NEW r \in Requests, CreateJoined(r) \/ StoreUser(r)
      PROVE  IInv'
  <2> DEFINE e == reqs[r].email
  <2>1. e \in Emails
    BY <1>6 DEF CreateJoined, StoreUser, IInv, RequestsNameAnAddress
  <2>2. UNCHANGED invites /\ Finish(r)
    BY <1>6 DEF CreateJoined, StoreUser
  <2>3. TypeOK'
    BY <1>6, <2>1
    DEF CreateJoined, StoreUser, Finish, IInv, TypeOK, Request, Idle, PCs
  <2>4. RequestsNameAnAddress' /\ JoinersAreAccepted'
    BY <2>2 DEF Finish, IInv, TypeOK, Request, Idle, RequestsNameAnAddress,
                JoinersAreAccepted
  <2>5. MembersWereInvited'
    <3>1. CASE CreateJoined(r)
      BY <3>1, <2>2 DEF CreateJoined, IInv, JoinersAreAccepted,
                        MembersWereInvited
    <3>2. CASE StoreUser(r)
      BY <3>2, <2>2 DEF StoreUser, IInv, MembersWereInvited
    <3> QED
      BY <1>6, <3>1, <3>2
  <2> QED
    BY <2>3, <2>4, <2>5 DEF IInv
<1>7. ASSUME NEW r \in Requests, Restart(r)
      PROVE  IInv'
  BY <1>7, FinishInv DEF Restart
<1>8. ASSUME NEW e \in Emails, DeleteUser(e)
      PROVE  IInv'
  BY <1>8 DEF DeleteUser, IInv, TypeOK, RequestsNameAnAddress,
              JoinersAreAccepted, MembersWereInvited
<1>9. ASSUME NEW e \in Emails, InvitationExpires(e)
      PROVE  IInv'
  <2>1. \A d \in Emails : invites[d] = "accepted" => invites'[d] = "accepted"
    BY <1>9 DEF InvitationExpires, IInv, TypeOK
  <2>2. TypeOK'
    BY <1>9 DEF InvitationExpires, IInv, TypeOK
  <2>3. RequestsNameAnAddress' /\ JoinersAreAccepted'
    BY <1>9, <2>1 DEF InvitationExpires, IInv, RequestsNameAnAddress,
                      JoinersAreAccepted
  <2>4. MembersWereInvited'
    BY <1>9, <2>1 DEF InvitationExpires, IInv, TypeOK, MembersWereInvited
  <2> QED
    BY <2>2, <2>3, <2>4 DEF IInv
<1>10. CASE UNCHANGED vars
  BY <1>10 DEF vars, IInv, TypeOK, RequestsNameAnAddress, JoinersAreAccepted,
               MembersWereInvited
<1> QED
  BY <1>1, <1>2, <1>3, <1>4, <1>5, <1>6, <1>7, <1>8, <1>9, <1>10 DEF Next

\* The inductive invariant holds in every reachable state.
THEOREM Invariance == Spec => []IInv
BY InitInv, NextInv, PTL DEF Spec

\* The tables and the requests keep their types.
THEOREM TypeCorrect == Spec => []TypeOK
<1>1. IInv => TypeOK
  BY DEF IInv
<1> QED
  BY <1>1, Invariance, PTL

\* AuthService.register admits nobody whose invitation is not marked accepted,
\* whatever other registrations, invitations, deletions and administrators do
\* between its three statements.
THEOREM OnlyTheInvitedJoin == Spec => []MembersWereInvited
<1>1. IInv => MembersWereInvited
  BY DEF IInv
<1> QED
  BY <1>1, Invariance, PTL

----------------------------------------------------------------------------
(* Seats                                                                   *)
(*                                                                         *)
(* SeatsAreRespected needs what each step of the one request under way has *)
(* established: the count it holds is not below the users there are, the   *)
(* seat it is about to take is still free, or is already its own.          *)

Seats == (users \ direct) \cup Active

\* Without overlap there is one request under way at most.
RequestsAreAlone ==
  ~overlap => \A q, r \in Requests :
                reqs[q].pc # "idle" /\ reqs[r].pc # "idle" => q = r

\* What the request under way relies on.
SeatsAreHeld ==
  ~overlap =>
    /\ Cardinality(Seats) <= MaxUsers
    /\ \A r \in Requests :
         /\ reqs[r].pc = "limit" => Cardinality(users) <= reqs[r].count
         /\ reqs[r].pc \in {"find", "insert"} => Cardinality(Seats) < MaxUsers
         /\ reqs[r].pc \in {"accept", "join"} =>
              Cardinality(Seats \cup {reqs[r].email}) <= MaxUsers

SInv == RequestsAreAlone /\ SeatsAreHeld

\* Sets of addresses are counted, and a part has no more than the whole.
LEMMA PartsAreSmaller ==
  ASSUME NEW T \in SUBSET Emails
  PROVE  /\ IsFiniteSet(T) /\ Cardinality(T) \in Nat
         /\ \A S \in SUBSET T : /\ IsFiniteSet(S) /\ Cardinality(S) \in Nat
                                /\ Cardinality(S) <= Cardinality(T)
<1>1. IsFiniteSet(T)
  BY FS_Subset, MembershipAssumption
<1>2. \A S \in SUBSET T : IsFiniteSet(S) /\ Cardinality(S) <= Cardinality(T)
  BY <1>1, FS_Subset
<1> QED
  BY <1>1, <1>2, FS_CardinalityType

\* One address more is one seat more at most.
LEMMA OneMore ==
  ASSUME NEW T \in SUBSET Emails, NEW e \in Emails
  PROVE  /\ Cardinality(T) \in Nat /\ Cardinality(T \cup {e}) \in Nat
         /\ Cardinality(T \cup {e}) <= Cardinality(T) + 1
<1>1. IsFiniteSet(T) /\ Cardinality(T) \in Nat
  BY PartsAreSmaller
<1>2. CASE e \in T
  <2>1. T \cup {e} = T
    BY <1>2
  <2> QED
    BY <1>1, <2>1
<1>3. CASE e \notin T
  <2>1. Cardinality(T \cup {e}) =
          IF e \in T THEN Cardinality(T) ELSE Cardinality(T) + 1
    BY <1>1, FS_AddElement, Zenon
  <2> QED
    BY <1>1, <1>3, <2>1
<1> QED
  BY <1>2, <1>3

\* Seats are addresses.
LEMMA SeatsType == TypeOK => Seats \in SUBSET Emails /\ Active \in SUBSET Emails
BY DEF TypeOK, Seats, Active

\* Steps after which no new seat is taken, and only requests that were under
\* way before are.
LEMMA SeatsAreLeft ==
  ASSUME IInv, SInv, overlap' = overlap, Seats' \subseteq Seats,
         \A q \in Requests : \/ reqs'[q].pc = "idle"
                             \/ reqs'[q] = reqs[q] /\ users' \subseteq users
  PROVE  SInv'
<1>1. RequestsAreAlone'
  BY DEF SInv, RequestsAreAlone
<1>2. SeatsAreHeld'
  <2> SUFFICES ASSUME ~overlap
               PROVE  /\ Cardinality(Seats') <= MaxUsers
                      /\ \A r \in Requests :
                           /\ reqs'[r].pc = "limit" =>
                                Cardinality(users') <= reqs'[r].count
                           /\ reqs'[r].pc \in {"find", "insert"} =>
                                Cardinality(Seats') < MaxUsers
                           /\ reqs'[r].pc \in {"accept", "join"} =>
                                Cardinality(Seats' \cup {reqs'[r].email})
                                  <= MaxUsers
    BY DEF SeatsAreHeld
  <2> USE DEF SInv, SeatsAreHeld
  <2>1. Seats \in SUBSET Emails /\ users \in SUBSET Emails /\ MaxUsers \in Nat
    BY SeatsType, MembershipAssumption DEF IInv, TypeOK
  <2>2. /\ Cardinality(Seats') <= Cardinality(Seats)
        /\ Cardinality(Seats') \in Nat /\ Cardinality(Seats) \in Nat
    BY <2>1, PartsAreSmaller
  <2>3. ASSUME NEW r \in Requests
        PROVE  /\ reqs'[r].pc = "limit" =>
                    Cardinality(users') <= reqs'[r].count
               /\ reqs'[r].pc \in {"find", "insert"} =>
                    Cardinality(Seats') < MaxUsers
               /\ reqs'[r].pc \in {"accept", "join"} =>
                    Cardinality(Seats' \cup {reqs'[r].email}) <= MaxUsers
    <3>1. CASE reqs'[r].pc = "idle"
      BY <3>1
    <3>2. CASE reqs'[r].pc # "idle"
      <4>0. reqs'[r] = reqs[r] /\ users' \subseteq users
        BY <3>2
      <4>1. ASSUME reqs[r].pc = "limit"
            PROVE  Cardinality(users') <= reqs'[r].count
        <5>1. /\ Cardinality(users') <= Cardinality(users)
              /\ Cardinality(users') \in Nat /\ Cardinality(users) \in Nat
          BY <2>1, <4>0, PartsAreSmaller
        <5>2. Cardinality(users) <= reqs[r].count /\ reqs[r].count \in Nat
          BY <4>1 DEF IInv, TypeOK, Request
        <5> QED
          BY <4>0, <5>1, <5>2
      <4>2. ASSUME reqs[r].pc \in {"find", "insert"}
            PROVE  Cardinality(Seats') < MaxUsers
        <5>1. Cardinality(Seats) < MaxUsers
          BY <4>2
        <5> QED
          BY <2>1, <2>2, <5>1
      <4>3. ASSUME reqs[r].pc \in {"accept", "join"}
            PROVE  Cardinality(Seats' \cup {reqs[r].email}) <= MaxUsers
        <5>1. reqs[r].email \in Emails
          BY <4>3 DEF IInv, RequestsNameAnAddress
        <5>2. /\ Seats \cup {reqs[r].email} \in SUBSET Emails
              /\ Seats' \cup {reqs[r].email}
                   \in SUBSET (Seats \cup {reqs[r].email})
          BY <2>1, <5>1
        <5>3. /\ Cardinality(Seats' \cup {reqs[r].email})
                   <= Cardinality(Seats \cup {reqs[r].email})
              /\ Cardinality(Seats' \cup {reqs[r].email}) \in Nat
              /\ Cardinality(Seats \cup {reqs[r].email}) \in Nat
          BY <5>2, PartsAreSmaller
        <5>4. Cardinality(Seats \cup {reqs[r].email}) <= MaxUsers
          BY <4>3
        <5> QED
          BY <2>1, <5>3, <5>4
      <4> QED
        BY <4>0, <4>1, <4>2, <4>3
    <3> QED
      BY <3>1, <3>2
  <2> QED
    BY <2>1, <2>2, <2>3
<1> QED
  BY <1>1, <1>2 DEF SInv

\* A request that begins alone relies on what it has counted.
LEMMA SeatsAtBegin ==
  ASSUME IInv, SInv, NEW r \in Requests, NEW e \in Emails, NEW count \in Nat,
         NEW pc \in {"limit", "lookup", "add"}, Begin(r, pc, e, count),
         pc = "limit" => count = Cardinality(users),
         UNCHANGED <<invites, users, direct>>
  PROVE  SInv'
<1>1. reqs'[r] = [pc |-> pc, email |-> e, count |-> count]
      /\ \A q \in Requests \ {r} : reqs'[q] = reqs[q]
  BY DEF Begin, IInv, TypeOK
<1>2. reqs'[r].pc = pc /\ reqs'[r].count = count
  BY <1>1
<1>3. ~overlap' => ~overlap /\ \A q \in Requests : reqs[q].pc = "idle"
  <2>1. ~overlap' => ~overlap /\ \A q \in Requests : reqs[q] = Idle
    BY Zenon DEF Begin
  <2> QED
    BY <2>1 DEF Idle
<1>4. RequestsAreAlone'
  BY <1>1, <1>3 DEF RequestsAreAlone
<1>5. Seats' = Seats
  BY DEF Seats, Active
<1>6. Cardinality(users) \in Nat
  BY UsersAreCounted DEF IInv
<1>7. SeatsAreHeld'
  BY <1>1, <1>2, <1>3, <1>5, <1>6 DEF SInv, SeatsAreHeld
<1> QED
  BY <1>4, <1>7 DEF SInv

\* The request that makes a step is the only one under way.
LEMMA OthersAreIdle ==
  ASSUME IInv, SInv, ~overlap, NEW r \in Requests, reqs[r].pc # "idle"
  PROVE  \A q \in Requests \ {r} : reqs[q].pc = "idle"
BY DEF SInv, RequestsAreAlone

\* Finishing a request.
LEMMA FinishMeans ==
  ASSUME TypeOK, NEW r \in Requests, Finish(r)
  PROVE  /\ reqs'[r].pc = "idle" /\ overlap' = overlap
         /\ \A q \in Requests \ {r} : reqs'[q] = reqs[q]
BY DEF TypeOK, Finish, Idle

\* Going on to another statement.
LEMMA GotoMeans ==
  ASSUME TypeOK, NEW r \in Requests, NEW pc, Goto(r, pc)
  PROVE  /\ reqs'[r].pc = pc /\ reqs'[r].email = reqs[r].email
         /\ overlap' = overlap
         /\ \A q \in Requests \ {r} : reqs'[q] = reqs[q]
BY DEF TypeOK, Goto, Request

\* The step of a request that leaves it under way, without overlap.
LEMMA SeatsAtGoto ==
  ASSUME IInv, SInv, NEW r \in Requests, reqs[r].pc # "idle",
         NEW pc \in PCs \ {"limit"}, Goto(r, pc),
         ~overlap =>
           /\ Cardinality(Seats') <= MaxUsers
           /\ pc \in {"find", "insert"} => Cardinality(Seats') < MaxUsers
           /\ pc \in {"accept", "join"} =>
                Cardinality(Seats' \cup {reqs[r].email}) <= MaxUsers
  PROVE  SInv'
<1>1. /\ reqs'[r].pc = pc /\ reqs'[r].email = reqs[r].email
      /\ overlap' = overlap
      /\ \A q \in Requests \ {r} : reqs'[q] = reqs[q]
  BY GotoMeans DEF IInv
<1>2. ~overlap => \A q \in Requests \ {r} : reqs'[q].pc = "idle"
  BY <1>1, OthersAreIdle
<1>3. RequestsAreAlone'
  BY <1>1, <1>2 DEF RequestsAreAlone
<1>4. SeatsAreHeld'
  BY <1>1, <1>2 DEF SeatsAreHeld
<1> QED
  BY <1>3, <1>4 DEF SInv

\* The last step of a request, without overlap: no other is under way.
LEMMA SeatsAtFinish ==
  ASSUME IInv, SInv, NEW r \in Requests, reqs[r].pc # "idle", Finish(r),
         ~overlap => Cardinality(Seats') <= MaxUsers
  PROVE  SInv'
<1>1. /\ reqs'[r].pc = "idle" /\ overlap' = overlap
      /\ \A q \in Requests \ {r} : reqs'[q] = reqs[q]
  BY FinishMeans DEF IInv
<1>2. ~overlap => \A q \in Requests : reqs'[q].pc = "idle"
  BY <1>1, OthersAreIdle
<1>3. RequestsAreAlone' /\ SeatsAreHeld'
  BY <1>1, <1>2 DEF RequestsAreAlone, SeatsAreHeld
<1> QED
  BY <1>3 DEF SInv

\* Every step keeps the seats.
LEMMA NextSInv == IInv /\ SInv /\ [Next]_vars => SInv'
<1> SUFFICES ASSUME IInv, SInv, [Next]_vars PROVE SInv'
  OBVIOUS
<1>0. /\ Seats \in SUBSET Emails /\ Active \in SUBSET Emails
      /\ users \in SUBSET Emails /\ MaxUsers \in Nat
  BY SeatsType, MembershipAssumption DEF IInv, TypeOK
<1>00. /\ Cardinality(Seats) \in Nat
       /\ ~overlap => Cardinality(Seats) <= MaxUsers
  BY <1>0, PartsAreSmaller DEF SInv, SeatsAreHeld
<1>1. ASSUME NEW r \in Requests, NEW e \in Emails,
             InviteUser(r, e) \/ Register(r, e) \/ CreateUser(r, e)
      PROVE  SInv'
  <2>1. CASE InviteUser(r, e)
    <3>1. PICK c : c = Cardinality(users)
      OBVIOUS
    <3>2. Begin(r, "limit", e, c) /\ c \in Nat
      BY <2>1, <3>1, UsersAreCounted DEF InviteUser, Begin, IInv
    <3> QED
      BY <2>1, <3>1, <3>2, SeatsAtBegin DEF InviteUser
  <2>2. CASE Register(r, e) \/ CreateUser(r, e)
    BY <2>2, SeatsAtBegin DEF Register, CreateUser
  <2> QED
    BY <1>1, <2>1, <2>2
<1>2. ASSUME NEW r \in Requests, UNCHANGED <<invites, users, direct>>,
             reqs[r].pc # "idle", Finish(r)
      PROVE  SInv'
  <2>1. Seats' = Seats
    BY <1>2 DEF Seats, Active
  <2> QED
    BY <1>00, <1>2, <2>1, SeatsAtFinish
<1>3. ASSUME NEW r \in Requests, AssertLimit(r)
      PROVE  SInv'
  <2>1. CASE Finish(r)
    BY <1>2, <1>3, <2>1 DEF AssertLimit
  <2>2. CASE ~Finish(r)
    <3>1. /\ Goto(r, "find") /\ reqs[r].pc = "limit"
          /\ ~(reqs[r].count + Cardinality(Active) >= MaxUsers)
      BY <1>3, <2>2 DEF AssertLimit
    <3>2. Seats' = Seats
      BY <1>3 DEF AssertLimit, Seats, Active
    <3>3. Cardinality(Seats) <= Cardinality(users) + Cardinality(Active)
      <4>1. IsFiniteSet(users) /\ IsFiniteSet(Active)
        BY <1>0, PartsAreSmaller
      <4>2. /\ Cardinality(users \cup Active) =
                 Cardinality(users) + Cardinality(Active)
                   - Cardinality(users \cap Active)
        BY <4>1, FS_Union
      <4>3. users \cup Active \in SUBSET Emails
            /\ Seats \in SUBSET (users \cup Active)
            /\ users \cap Active \in SUBSET Emails
        BY <1>0 DEF Seats
      <4>4. Cardinality(Seats) <= Cardinality(users \cup Active)
            /\ Cardinality(users \cup Active) \in Nat
            /\ Cardinality(users \cap Active) \in Nat
            /\ Cardinality(users) \in Nat /\ Cardinality(Active) \in Nat
        BY <1>0, <4>3, PartsAreSmaller
      <4> QED
        BY <1>00, <4>2, <4>4
    <3>4. ~overlap => Cardinality(Seats) < MaxUsers
      <4>1. /\ reqs[r].count \in Nat /\ Cardinality(users) \in Nat
            /\ Cardinality(Active) \in Nat
        BY <1>0, PartsAreSmaller DEF IInv, TypeOK, Request
      <4>2. ~overlap => Cardinality(users) <= reqs[r].count
        BY <3>1 DEF SInv, SeatsAreHeld
      <4> QED
        BY <1>0, <1>00, <3>1, <3>3, <4>1, <4>2
    <3> QED
      BY <1>00, <3>1, <3>2, <3>4, SeatsAtGoto DEF PCs
  <2> QED
    BY <2>1, <2>2
<1>4. ASSUME NEW r \in Requests, FindByEmail(r)
      PROVE  SInv'
  <2>1. CASE Finish(r)
    BY <1>2, <1>4, <2>1 DEF FindByEmail
  <2>2. CASE ~Finish(r)
    <3>1. Goto(r, "insert") /\ reqs[r].pc = "find"
      BY <1>4, <2>2 DEF FindByEmail
    <3>2. Seats' = Seats
      BY <1>4 DEF FindByEmail, Seats, Active
    <3>3. ~overlap => Cardinality(Seats) < MaxUsers
      BY <3>1 DEF SInv, SeatsAreHeld
    <3> QED
      BY <1>00, <3>1, <3>2, <3>3, SeatsAtGoto DEF PCs
  <2> QED
    BY <2>1, <2>2
<1>5. ASSUME NEW r \in Requests, CreateInvitation(r)
      PROVE  SInv'
  <2>1. /\ reqs[r].pc = "insert" /\ Finish(r) /\ reqs[r].email \in Emails
        /\ UNCHANGED <<users, direct>>
    BY <1>5 DEF CreateInvitation, IInv, RequestsNameAnAddress
  <2>2. PICK e \in Emails : e = reqs[r].email
    BY <2>1
  <2>3. \A d \in Emails : invites'[d] = "active" => invites[d] = "active" \/ d = e
    BY <1>5, <2>2 DEF CreateInvitation, IInv, TypeOK
  <2>4. Seats' \in SUBSET (Seats \cup {e}) /\ Seats \cup {e} \in SUBSET Emails
    BY <1>0, <2>1, <2>3 DEF Seats, Active
  <2>5. /\ Cardinality(Seats') <= Cardinality(Seats \cup {e})
        /\ Cardinality(Seats') \in Nat /\ Cardinality(Seats \cup {e}) \in Nat
    BY <2>4, PartsAreSmaller
  <2>6. Cardinality(Seats \cup {e}) <= Cardinality(Seats) + 1
    BY <1>0, OneMore
  <2>7. ~overlap => Cardinality(Seats) < MaxUsers
    BY <2>1 DEF SInv, SeatsAreHeld
  <2>8. ~overlap => Cardinality(Seats') <= MaxUsers
    BY <1>0, <1>00, <2>5, <2>6, <2>7
  <2> QED
    BY <2>1, <2>8, SeatsAtFinish
<1>6. ASSUME NEW r \in Requests, FindInvitation(r)
      PROVE  SInv'
  <2>1. CASE Finish(r)
    BY <1>2, <1>6, <2>1 DEF FindInvitation
  <2>2. CASE ~Finish(r)
    <3>1. /\ Goto(r, "accept") /\ reqs[r].pc = "lookup"
          /\ invites[reqs[r].email] = "active"
      BY <1>6, <2>2 DEF FindInvitation
    <3>2. Seats' = Seats
      BY <1>6 DEF FindInvitation, Seats, Active
    <3>3. Seats \cup {reqs[r].email} = Seats
      BY <3>1 DEF Seats, Active, IInv, RequestsNameAnAddress
    <3> QED
      BY <1>00, <3>1, <3>2, <3>3, SeatsAtGoto DEF PCs
  <2> QED
    BY <2>1, <2>2
<1>7. ASSUME NEW r \in Requests, AcceptInvitation(r)
      PROVE  SInv'
  <2>1. /\ reqs[r].pc = "accept" /\ Goto(r, "join") /\ reqs[r].email \in Emails
        /\ UNCHANGED <<users, direct>>
    BY <1>7 DEF AcceptInvitation, IInv, RequestsNameAnAddress
  <2>2. \A d \in Emails : invites'[d] = "active" => invites[d] = "active"
    BY <1>7 DEF AcceptInvitation, IInv, TypeOK
  <2>3. PICK T : T = Seats \cup {reqs[r].email}
    OBVIOUS
  <2>4. /\ T \in SUBSET Emails /\ Seats' \in SUBSET T
        /\ Seats' \cup {reqs[r].email} \in SUBSET T
    BY <1>0, <2>1, <2>2, <2>3 DEF Seats, Active
  <2>5. /\ Cardinality(Seats') <= Cardinality(T)
        /\ Cardinality(Seats' \cup {reqs[r].email}) <= Cardinality(T)
        /\ Cardinality(Seats') \in Nat /\ Cardinality(T) \in Nat
        /\ Cardinality(Seats' \cup {reqs[r].email}) \in Nat
    BY <2>4, PartsAreSmaller
  <2>6. ~overlap => Cardinality(T) <= MaxUsers
    BY <2>1, <2>3 DEF SInv, SeatsAreHeld
  <2>7. ~overlap => /\ Cardinality(Seats') <= MaxUsers
                    /\ Cardinality(Seats' \cup {reqs[r].email}) <= MaxUsers
    BY <1>0, <2>5, <2>6
  <2> QED
    BY <2>1, <2>7, SeatsAtGoto DEF PCs
<1>8. ASSUME NEW r \in Requests, CreateJoined(r)
      PROVE  SInv'
  <2>1. /\ reqs[r].pc = "join" /\ Finish(r) /\ reqs[r].email \in Emails
        /\ UNCHANGED <<invites, direct>>
        /\ users' \subseteq users \cup {reqs[r].email}
    BY <1>8 DEF CreateJoined, IInv, RequestsNameAnAddress
  <2>2. PICK T : T = Seats \cup {reqs[r].email}
    OBVIOUS
  <2>3. T \in SUBSET Emails /\ Seats' \in SUBSET T
    BY <1>0, <2>1, <2>2 DEF Seats, Active
  <2>4. /\ Cardinality(Seats') <= Cardinality(T)
        /\ Cardinality(Seats') \in Nat /\ Cardinality(T) \in Nat
    BY <2>3, PartsAreSmaller
  <2>5. ~overlap => Cardinality(T) <= MaxUsers
    BY <2>1, <2>2 DEF SInv, SeatsAreHeld
  <2>6. ~overlap => Cardinality(Seats') <= MaxUsers
    BY <1>0, <2>4, <2>5
  <2> QED
    BY <2>1, <2>6, SeatsAtFinish
<1>9. ASSUME NEW r \in Requests, StoreUser(r)
      PROVE  SInv'
  <2>1. /\ reqs[r].pc = "add" /\ Finish(r) /\ UNCHANGED invites
        /\ users' \ direct' \subseteq users \ direct
    BY <1>9 DEF StoreUser
  <2>2. Seats' \in SUBSET Seats
    BY <2>1 DEF Seats, Active
  <2>3. Cardinality(Seats') <= Cardinality(Seats) /\ Cardinality(Seats') \in Nat
    BY <1>0, <2>2, PartsAreSmaller
  <2>4. ~overlap => Cardinality(Seats') <= MaxUsers
    BY <1>0, <1>00, <2>3
  <2> QED
    BY <2>1, <2>4, SeatsAtFinish
<1>10. ASSUME NEW r \in Requests, Restart(r)
       PROVE  SInv'
  <2>1. /\ Finish(r) /\ UNCHANGED <<invites, users, direct>>
    BY <1>10 DEF Restart
  <2>2. Seats' = Seats
    BY <2>1 DEF Seats, Active
  <2>3. /\ overlap' = overlap
        /\ \A q \in Requests : reqs'[q].pc = "idle" \/ reqs'[q] = reqs[q]
    BY <2>1, FinishMeans DEF IInv
  <2> QED
    BY <2>1, <2>2, <2>3, SeatsAreLeft
<1>11. ASSUME NEW e \in Emails, DeleteUser(e) \/ InvitationExpires(e)
       PROVE  SInv'
  <2>1. UNCHANGED <<reqs, overlap>> /\ users' \subseteq users
    BY <1>11 DEF DeleteUser, InvitationExpires
  <2>2. Seats' \subseteq Seats
    <3>1. CASE DeleteUser(e)
      BY <3>1 DEF DeleteUser, Seats, Active
    <3>2. CASE InvitationExpires(e)
      BY <3>2 DEF InvitationExpires, Seats, Active, IInv, TypeOK
    <3> QED
      BY <1>11, <3>1, <3>2
  <2> QED
    BY <2>1, <2>2, SeatsAreLeft
<1>12. CASE UNCHANGED vars
  <2>1. Seats' = Seats
    BY <1>12 DEF vars, Seats, Active
  <2> QED
    BY <1>12, <2>1, SeatsAreLeft DEF vars
<1> QED
  BY <1>1, <1>3, <1>4, <1>5, <1>6, <1>7, <1>8, <1>9, <1>10, <1>11, <1>12
  DEF Next

\* LicenseGuardianService.assertLimit: as long as requests follow one another,
\* invited users and open invitations fit in the plan, whatever is deleted,
\* expires or is lost between two of their statements.
THEOREM SeatsFitThePlan == Spec => []SeatsAreRespected
<1>1. Init => SInv
  <2> SUFFICES ASSUME Init PROVE SInv
    OBVIOUS
  <2>1. \A r \in Requests : reqs[r].pc = "idle"
    BY DEF Init, Idle
  <2>2. Seats = {}
    BY DEF Init, Seats, Active
  <2>3. Cardinality(Seats) <= MaxUsers
    BY <2>2, FS_EmptySet, MembershipAssumption
  <2> QED
    BY <2>1, <2>3 DEF SInv, RequestsAreAlone, SeatsAreHeld
<1>2. SInv => SeatsAreRespected
  BY DEF SInv, SeatsAreHeld, SeatsAreRespected, Seats
<1> QED
  BY <1>1, <1>2, InitInv, NextInv, NextSInv, PTL DEF Spec

----------------------------------------------------------------------------
(* Onboarding.  What the wizard's row keeps however many requests overlap: *)
(* it is consistent, and every completed step is backed.  Requests write   *)
(* columns they computed from an older row, so the invariant must say the  *)
(* same of every snapshot a request holds, and that what backs a step      *)
(* never goes.                                                             *)

\* Step k needs no data, or is backed by it or by the choice to do it later.
Backed(k) == k \in {2, 5} \/ k \in saved \/ (k = 3 /\ row.agentLater)

\* A wizard that has not started has nothing to lose.
AbsentRowIsBlank == ~row.exists => row = [NewStatus EXCEPT !.exists = FALSE]

\* What a request holds: a backed step, and a snapshot as good as the row.
RequestIsSound(q) ==
  /\ q.pc # "idle" /\ q.step # 0 => Backed(q.step) \/ (q.skip /\ q.step = 3)
  /\ q.pc = "peek" => q.step # 0
  /\ q.pc # "write" => q.completed = {}
  /\ q.pc = "write" =>
       /\ row.exists /\ q.step # 0
       /\ \A k \in q.completed : Backed(k) /\ q.current > k

RequestsAreSound == \A r \in StepRequests : RequestIsSound(wizard[r])

WizardInv ==
  /\ WizardTypeOK /\ AbsentRowIsBlank /\ RequestsAreSound
  /\ StatusIsConsistent /\ CompletedStepsAreSaved

\* Five completed steps are all the steps.
LEMMA FiveStepsAreAll ==
  ASSUME NEW S \in SUBSET Steps
  PROVE  Cardinality(S) >= 5 <=> S = Steps
<1>1. IsFiniteSet(Steps) /\ Cardinality(Steps) = 5
  <2>1. 1 \in Int /\ 5 \in Int
    OBVIOUS
  <2>2. /\ IsFiniteSet(1..5)
        /\ Cardinality(1..5) = IF 1 > 5 THEN 0 ELSE 5 - 1 + 1
    BY <2>1, FS_Interval, Zenon
  <2> QED
    BY <2>2 DEF Steps
<1>2. /\ IsFiniteSet(S) /\ Cardinality(S) <= 5
      /\ Cardinality(S) = 5 => S = Steps
  BY <1>1, FS_Subset
<1>3. Cardinality(S) \in Nat
  BY <1>2, FS_CardinalityType
<1> QED
  BY <1>1, <1>2, <1>3

\* An idle slot holds a sound request.
LEMMA IdleIsSound ==
  /\ NoStep \in StepRequest /\ NoStep.completed = {} /\ NoStep.step = 0
  /\ RequestIsSound(NoStep) /\ RequestIsSound(NoStep)'
BY DEF NoStep, StepRequest, Steps, RequestIsSound

\* The fields of a request that has just begun.
LEMMA PlainRequest ==
  ASSUME NEW k \in 0..5, NEW pc \in {"find", "peek"}
  PROVE  LET q == [NoStep EXCEPT !.pc = pc, !.step = k]
         IN  /\ q \in StepRequest /\ q.pc = pc /\ q.step = k /\ q.completed = {}
BY IdleIsSound DEF StepRequest

\* A request of linkAgent may skip the agent.
LEMMA SkippingRequest ==
  ASSUME NEW p \in StepRequest
  PROVE  LET q == [p EXCEPT !.skip = TRUE]
         IN  /\ q \in StepRequest /\ q.pc = p.pc /\ q.step = p.step
             /\ q.skip = TRUE /\ q.completed = p.completed
BY DEF StepRequest

\* A new organisation satisfies the invariant.
LEMMA InitWizard == WizardInit => WizardInv
<1> SUFFICES ASSUME WizardInit PROVE WizardInv
  OBVIOUS
<1>0. NewStatus \in StatusRows /\ NewStatus.completed = {} /\ NewStatus.complete = FALSE
  BY DEF StatusRows, NewStatus, Steps
<1>1. row \in StatusRows /\ row.completed = {} /\ row.complete = FALSE
  BY <1>0 DEF WizardInit, StatusRows
<1>2. WizardTypeOK
  BY <1>1, IdleIsSound DEF WizardInit, WizardTypeOK
<1>3. AbsentRowIsBlank
  BY DEF WizardInit, AbsentRowIsBlank, NewStatus
<1>4. RequestsAreSound
  BY IdleIsSound DEF WizardInit, RequestsAreSound
<1>5. StatusIsConsistent /\ CompletedStepsAreSaved
  BY <1>1 DEF StatusIsConsistent, CompletedStepsAreSaved, Steps
<1> QED
  BY <1>2, <1>3, <1>4, <1>5 DEF WizardInv

\* A step that leaves the row's progress alone, takes no backing away and
\* gives one slot a sound request.
LEMMA WizardSlot ==
  ASSUME WizardInv, NEW r \in StepRequests, NEW q \in StepRequest,
         wizard' = [wizard EXCEPT ![r] = q], RequestIsSound(q)',
         row' \in StatusRows, row'.exists = row.exists,
         row'.completed = row.completed, row'.current = row.current,
         row'.complete = row.complete,
         row' = row \/ row.exists,
         saved' \in SUBSET Steps, acked' \in SUBSET Steps,
         \A k \in Steps : Backed(k) => Backed(k)'
  PROVE  WizardInv'
<1>1. WizardTypeOK'
  BY DEF WizardInv, WizardTypeOK
<1>2. AbsentRowIsBlank'
  BY DEF WizardInv, AbsentRowIsBlank
<1>3. RequestsAreSound'
  <2> SUFFICES ASSUME NEW p \in StepRequests PROVE RequestIsSound(wizard[p])'
    BY DEF RequestsAreSound
  <2>1. CASE p = r
    BY <2>1 DEF WizardInv, WizardTypeOK, RequestIsSound, Backed
  <2>2. CASE p # r
    <3>1. wizard'[p] = wizard[p] /\ wizard[p] \in StepRequest /\ RequestIsSound(wizard[p])
      BY <2>2 DEF WizardInv, WizardTypeOK, RequestsAreSound
    <3>2. wizard[p].step # 0 => wizard[p].step \in Steps
      BY <3>1 DEF StepRequest, Steps
    <3>3. wizard[p].completed \subseteq Steps
      BY <3>1 DEF StepRequest
    <3>4. \A k \in Steps : Backed(k) => Backed(k)'
      OBVIOUS
    <3> QED
      BY <3>1, <3>2, <3>3, <3>4 DEF RequestIsSound
  <2> QED
    BY <2>1, <2>2
<1>4. StatusIsConsistent'
  BY DEF WizardInv, StatusIsConsistent
<1>5. CompletedStepsAreSaved'
  BY DEF WizardInv, WizardTypeOK, StatusRows, CompletedStepsAreSaved, Backed
<1> QED
  BY <1>1, <1>2, <1>3, <1>4, <1>5 DEF WizardInv

\* Every step preserves the invariant.
LEMMA NextWizard == WizardInv /\ [WizardNext]_wizardVars => WizardInv'
<1> SUFFICES ASSUME WizardInv, [WizardNext]_wizardVars PROVE WizardInv'
  OBVIOUS
<1>0. /\ row \in StatusRows /\ saved \in SUBSET Steps /\ acked \in SUBSET Steps
      /\ \A r \in StepRequests : wizard[r] \in StepRequest
  BY DEF WizardInv, WizardTypeOK
<1>1. ASSUME NEW r \in StepRequests, NEW k \in Steps, Step(r, k)
      PROVE  WizardInv'
  <2> DEFINE q == [NoStep EXCEPT !.pc = "find", !.step = k]
  <2>1. q \in StepRequest /\ q.pc = "find" /\ q.step = k /\ q.completed = {}
    <3>1. k \in 0..5
      BY DEF Steps
    <3> QED
      BY <3>1, IdleIsSound DEF StepRequest
  <2>2. RequestIsSound(q)'
    BY <1>1, <2>1 DEF Step, RequestIsSound, Backed
  <2>3. wizard' = [wizard EXCEPT ![r] = q]
    BY <1>1 DEF Step, BeginStep
  <2> HIDE DEF q
  <2> QED
    BY <1>0, <1>1, <2>1, <2>2, <2>3, WizardSlot DEF Step, Backed
<1>2. ASSUME NEW r \in StepRequests, InviteLater(r)
      PROVE  WizardInv'
  <2> DEFINE q == [NoStep EXCEPT !.pc = "find", !.step = 5]
  <2>1. q \in StepRequest /\ q.pc = "find" /\ q.step = 5 /\ q.completed = {}
    BY PlainRequest
  <2>2. /\ row' \in StatusRows /\ row'.inviteLater /\ row'.exists = row.exists
        /\ row'.completed = row.completed /\ row'.current = row.current
        /\ row'.complete = row.complete /\ row'.agentLater = row.agentLater
    BY <1>0, <1>2 DEF InviteLater, StatusRows
  <2>3. RequestIsSound(q)'
    BY <2>1, <2>2 DEF RequestIsSound, Backed
  <2>4. wizard' = [wizard EXCEPT ![r] = q] /\ row.exists
    BY <1>2 DEF InviteLater, BeginStep
  <2> HIDE DEF q
  <2> QED
    BY <1>0, <1>2, <2>1, <2>2, <2>3, <2>4, WizardSlot DEF InviteLater, Backed
<1>3. ASSUME NEW r \in StepRequests, SkipLater(r)
      PROVE  WizardInv'
  <2>1. PICK p : p = [NoStep EXCEPT !.pc = "find", !.step = 3]
    OBVIOUS
  <2>2. p \in StepRequest /\ p.pc = "find" /\ p.step = 3 /\ p.completed = {}
    BY <2>1, PlainRequest
  <2>3. PICK q : q = [p EXCEPT !.skip = TRUE]
    OBVIOUS
  <2>4. /\ q \in StepRequest /\ q.pc = "find" /\ q.step = 3 /\ q.skip = TRUE
        /\ q.completed = {}
    BY <2>2, <2>3, SkippingRequest
  <2>5. RequestIsSound(q)'
    BY <2>4 DEF RequestIsSound
  <2>6. q = [NoStep EXCEPT !.pc = "find", !.step = 3, !.skip = TRUE]
    BY <2>1, <2>3, IdleIsSound DEF StepRequest
  <2>7. wizard' = [wizard EXCEPT ![r] = q] /\ UNCHANGED <<row, saved, acked>>
    BY <1>3, <2>6 DEF SkipLater, BeginStep
  <2> QED
    BY <1>0, <2>4, <2>5, <2>7, WizardSlot DEF Backed
<1>3a. ASSUME NEW r \in StepRequests, GetStatus(r)
       PROVE  WizardInv'
  <2> DEFINE q == [NoStep EXCEPT !.pc = "find"]
  <2>1. q \in StepRequest /\ q.pc = "find" /\ q.step = 0 /\ q.completed = {}
    BY IdleIsSound DEF StepRequest
  <2>2. RequestIsSound(q)'
    BY <2>1 DEF RequestIsSound
  <2>3. wizard' = [wizard EXCEPT ![r] = q] /\ UNCHANGED <<row, saved, acked>>
    BY <1>3a DEF GetStatus, BeginStep
  <2> HIDE DEF q
  <2> QED
    BY <1>0, <2>1, <2>2, <2>3, WizardSlot DEF Backed
<1>4. ASSUME NEW r \in StepRequests, ApplyAgentConfig(r)
      PROVE  WizardInv'
  <2> DEFINE q == [NoStep EXCEPT !.pc = "peek", !.step = 3]
  <2>1. q \in StepRequest /\ q.pc = "peek" /\ q.step = 3 /\ q.completed = {}
    BY PlainRequest
  <2>2. RequestIsSound(q)'
    BY <1>4, <2>1 DEF ApplyAgentConfig, RequestIsSound, Backed
  <2>3. wizard' = [wizard EXCEPT ![r] = q] /\ saved' \in SUBSET Steps
    BY <1>0, <1>4 DEF ApplyAgentConfig, BeginStep, Steps
  <2> HIDE DEF q
  <2> QED
    BY <1>0, <1>4, <2>1, <2>2, <2>3, WizardSlot DEF ApplyAgentConfig, Backed
<1>5. ASSUME NEW r \in StepRequests, FindStatus(r) \/ PeekStatus(r)
      PROVE  WizardInv'
  <2> DEFINE old == wizard[r]
             snap == [old EXCEPT !.pc = "write", !.completed = row.completed,
                                 !.current = row.current]
             wait == [old EXCEPT !.pc = "create"]
  <2>1. UNCHANGED <<row, saved, acked>>
    BY <1>5 DEF FindStatus, PeekStatus
  <2>2. RequestIsSound(old) /\ old \in StepRequest
    BY <1>0 DEF WizardInv, RequestsAreSound
  <2>3. \/ wizard' = [wizard EXCEPT ![r] = NoStep]
        \/ /\ wizard' = [wizard EXCEPT ![r] = snap]
           /\ row.exists /\ old.step # 0 /\ old.pc # "idle"
        \/ wizard' = [wizard EXCEPT ![r] = wait] /\ old.pc = "find"
    <3>1. CASE FindStatus(r)
      <4>1. CASE ~row.exists
        BY <3>1, <4>1 DEF FindStatus
      <4>2. CASE row.exists /\ old.step = 0
        BY <3>1, <4>2 DEF FindStatus
      <4>3. CASE row.exists /\ old.step # 0
        BY <3>1, <4>3 DEF FindStatus
      <4> QED
        BY <4>1, <4>2, <4>3
    <3>2. CASE PeekStatus(r)
      <4>1. old.step # 0 /\ old.pc = "peek"
        BY <3>2, <2>2 DEF PeekStatus, RequestIsSound
      <4>2. CASE row.exists /\ 3 \notin row.completed /\ ~row.complete
        BY <3>2, <4>1, <4>2 DEF PeekStatus
      <4>3. CASE ~(row.exists /\ 3 \notin row.completed /\ ~row.complete)
        BY <3>2, <4>3 DEF PeekStatus
      <4> QED
        BY <4>2, <4>3
    <3> QED
      BY <1>5, <3>1, <3>2
  <2>4. CASE wizard' = [wizard EXCEPT ![r] = NoStep]
    BY <1>0, <2>1, <2>4, IdleIsSound, WizardSlot DEF Backed
  <2>5. CASE /\ wizard' = [wizard EXCEPT ![r] = snap]
             /\ row.exists /\ old.step # 0 /\ old.pc # "idle"
    <3>0. PICK q : q = snap
      OBVIOUS
    <3>1. /\ q \in StepRequest /\ q.pc = "write" /\ q.step = old.step
          /\ q.skip = old.skip /\ q.completed = row.completed
          /\ q.current = row.current
      BY <1>0, <2>2, <3>0 DEF StepRequest, StatusRows
    <3>2. \A k \in row.completed : Backed(k) /\ row.current > k
      BY DEF WizardInv, StatusIsConsistent, CompletedStepsAreSaved, Backed
    <3>3. RequestIsSound(q)'
      BY <2>1, <2>2, <2>5, <3>1, <3>2 DEF RequestIsSound, Backed
    <3>4. wizard' = [wizard EXCEPT ![r] = q]
      BY <2>5, <3>0
    <3> QED
      BY <1>0, <2>1, <3>1, <3>3, <3>4, WizardSlot DEF Backed
  <2>6. CASE wizard' = [wizard EXCEPT ![r] = wait] /\ old.pc = "find"
    <3>0. PICK q : q = wait
      OBVIOUS
    <3>1. /\ q \in StepRequest /\ q.pc = "create" /\ q.step = old.step
          /\ q.skip = old.skip /\ q.completed = old.completed
      BY <2>2, <3>0 DEF StepRequest
    <3>2. RequestIsSound(q)'
      BY <2>1, <2>2, <2>6, <3>1 DEF RequestIsSound, Backed
    <3>3. wizard' = [wizard EXCEPT ![r] = q]
      BY <2>6, <3>0
    <3> QED
      BY <1>0, <2>1, <3>1, <3>2, <3>3, WizardSlot DEF Backed
  <2> QED
    BY <2>3, <2>4, <2>5, <2>6
<1>6. ASSUME NEW r \in StepRequests, CreateStatus(r)
      PROVE  WizardInv'
  <2> DEFINE old == wizard[r]
             begun == [old EXCEPT !.pc = "write"]
  <2>1. UNCHANGED <<saved, acked>> /\ old.pc = "create"
    BY <1>6 DEF CreateStatus
  <2>2. RequestIsSound(old) /\ old \in StepRequest /\ old.completed = {}
    BY <1>0, <2>1 DEF WizardInv, RequestsAreSound, RequestIsSound
  <2>3. CASE row.exists
    <3>1. row' = row /\ wizard' = [wizard EXCEPT ![r] = NoStep]
      BY <1>6, <2>3 DEF CreateStatus
    <3> QED
      BY <1>0, <2>1, <3>1, IdleIsSound, WizardSlot DEF Backed
  <2>4. CASE ~row.exists
    <3>1. /\ row' = NewStatus /\ row'.exists /\ row'.completed = {}
          /\ row'.complete = FALSE
          /\ ~row.agentLater
      BY <1>6, <2>4 DEF CreateStatus, WizardInv, AbsentRowIsBlank, NewStatus
    <3>2. row' \in StatusRows
      BY <3>1 DEF NewStatus, StatusRows, Steps
    <3>3. \A k \in Steps : Backed(k) => Backed(k)'
      BY <2>1, <3>1 DEF Backed
    <3>4. PICK b : b = begun
      OBVIOUS
    <3>4a. /\ b \in StepRequest /\ b.pc = "write" /\ b.skip = old.skip
           /\ b.step = old.step /\ b.completed = {}
      BY <2>2, <3>4 DEF StepRequest
    <3>5. PICK q \in StepRequest : /\ wizard' = [wizard EXCEPT ![r] = q]
                               /\ RequestIsSound(q)'
      <4>1. CASE old.step = 0
        <5>1. wizard' = [wizard EXCEPT ![r] = NoStep]
          BY <1>6, <4>1 DEF CreateStatus
        <5> QED
          BY <5>1, IdleIsSound
      <4>2. CASE old.step # 0
        <5>1. wizard' = [wizard EXCEPT ![r] = b]
          BY <1>6, <2>4, <3>4, <4>2 DEF CreateStatus
        <5>2. old.step \in Steps
          BY <2>2, <4>2 DEF StepRequest, Steps
        <5>3. RequestIsSound(b)'
          BY <2>1, <2>2, <3>1, <3>3, <3>4a, <4>2, <5>2 DEF RequestIsSound
        <5> QED
          BY <3>4a, <5>1, <5>3
      <4> QED
        BY <4>1, <4>2
    <3>6. WizardTypeOK'
      BY <1>0, <2>1, <3>2, <3>5 DEF WizardInv, WizardTypeOK
    <3>7. AbsentRowIsBlank' /\ CompletedStepsAreSaved'
      BY <3>1 DEF AbsentRowIsBlank, CompletedStepsAreSaved
    <3>8. StatusIsConsistent'
      BY <3>1 DEF StatusIsConsistent, Steps
    <3>9. RequestsAreSound'
      <4> SUFFICES ASSUME NEW p \in StepRequests PROVE RequestIsSound(wizard[p])'
        BY DEF RequestsAreSound
      <4>1. CASE p = r
        BY <3>5, <4>1 DEF WizardInv, WizardTypeOK, RequestIsSound, Backed
      <4>2. CASE p # r
        <5>1. /\ wizard'[p] = wizard[p] /\ wizard[p] \in StepRequest
              /\ RequestIsSound(wizard[p])
          BY <3>5, <4>2 DEF WizardInv, WizardTypeOK, RequestsAreSound
        <5>2. wizard[p].step # 0 => wizard[p].step \in Steps
          BY <5>1 DEF StepRequest, Steps
        <5> QED
          BY <2>4, <3>3, <5>1, <5>2 DEF RequestIsSound
      <4> QED
        BY <4>1, <4>2
    <3> QED
      BY <3>6, <3>7, <3>8, <3>9 DEF WizardInv
  <2> QED
    BY <2>3, <2>4
<1>7. ASSUME NEW r \in StepRequests, WizardRestart(r)
      PROVE  WizardInv'
  BY <1>0, <1>7, IdleIsSound, WizardSlot DEF WizardRestart, FinishStep, Backed
<1>8. ASSUME NEW r \in StepRequests, CompleteStep(r)
      PROVE  WizardInv'
  <2> DEFINE q == wizard[r]
             done == q.completed \cup {q.step}
  <2>1. /\ q \in StepRequest /\ q.pc = "write" /\ q.step # 0 /\ row.exists
        /\ Backed(q.step) \/ (q.skip /\ q.step = 3)
        /\ \A k \in q.completed : Backed(k) /\ q.current > k
    BY <1>0, <1>8 DEF CompleteStep, WizardInv, RequestsAreSound, RequestIsSound
  <2>2. /\ q.step \in Steps /\ q.current \in 1..6 /\ q.skip \in BOOLEAN
        /\ done \in SUBSET Steps
    BY <2>1 DEF StepRequest, Steps
  <2>3. /\ Later(q.current, q.step) \in 1..6
        /\ \A k \in done : Later(q.current, q.step) > k
    BY <2>1, <2>2 DEF Later, Steps
  <2>4. /\ row' = [row EXCEPT !.completed = done,
                      !.current = Later(q.current, q.step),
                      !.complete = Cardinality(done) >= 5,
                      !.agentLater = @ \/ q.skip]
        /\ acked' \in SUBSET Steps /\ saved' = saved
        /\ wizard' = [wizard EXCEPT ![r] = NoStep]
    BY <1>0, <1>8, <2>2 DEF CompleteStep, Acknowledge, FinishStep
  <2>5. Cardinality(done) >= 5 <=> done = Steps
    BY <2>2, FiveStepsAreAll
  <2>6. (Cardinality(done) >= 5) \in BOOLEAN
    OBVIOUS
  <2> HIDE DEF done
  <2>7. /\ row' \in StatusRows /\ row'.exists /\ row'.completed = done
        /\ row'.current = Later(q.current, q.step)
        /\ row'.complete = (Cardinality(done) >= 5)
        /\ row'.agentLater = (row.agentLater \/ q.skip)
        /\ row'.inviteLater = row.inviteLater
    BY <1>0, <2>1, <2>2, <2>3, <2>4, <2>6 DEF StatusRows
  <2>8. \A k \in Steps : Backed(k) => Backed(k)'
    BY <2>4, <2>7 DEF Backed
  <2>9. \A k \in done : Backed(k)'
    BY <2>1, <2>2, <2>7, <2>8 DEF Backed, done
  <2>10. WizardTypeOK'
    BY <1>0, <2>2, <2>4, <2>7, IdleIsSound DEF WizardInv, WizardTypeOK
  <2>11. AbsentRowIsBlank'
    BY <2>7 DEF AbsentRowIsBlank
  <2>12. StatusIsConsistent'
    BY <2>3, <2>5, <2>7 DEF StatusIsConsistent
  <2>13. CompletedStepsAreSaved'
    BY <2>7, <2>9 DEF CompletedStepsAreSaved, Backed
  <2>14. RequestsAreSound'
    <3> SUFFICES ASSUME NEW p \in StepRequests PROVE RequestIsSound(wizard[p])'
      BY DEF RequestsAreSound
    <3>1. CASE p = r
      BY <2>4, <3>1, IdleIsSound DEF WizardInv, WizardTypeOK, RequestIsSound, Backed
    <3>2. CASE p # r
      <4>1. /\ wizard'[p] = wizard[p] /\ wizard[p] \in StepRequest
            /\ RequestIsSound(wizard[p])
        BY <2>4, <3>2 DEF WizardInv, WizardTypeOK, RequestsAreSound
      <4>2. /\ wizard[p].step # 0 => wizard[p].step \in Steps
            /\ wizard[p].completed \subseteq Steps
        BY <4>1 DEF StepRequest, Steps
      <4> QED
        BY <2>7, <2>8, <4>1, <4>2 DEF RequestIsSound
    <3> QED
      BY <3>1, <3>2
  <2> QED
    BY <2>10, <2>11, <2>12, <2>13, <2>14 DEF WizardInv
<1>10. CASE UNCHANGED wizardVars
  BY <1>10 DEF wizardVars, WizardInv, WizardTypeOK, AbsentRowIsBlank, RequestsAreSound,
               RequestIsSound, StatusIsConsistent, CompletedStepsAreSaved,
               Backed
<1> QED
  BY <1>1, <1>2, <1>3, <1>3a, <1>4, <1>5, <1>6, <1>7, <1>8, <1>10 DEF WizardNext

\* Every reachable state of the wizard satisfies the inductive invariant.
THEOREM WizardInvariance == WizardSpec => []WizardInv
BY InitWizard, NextWizard, PTL DEF WizardSpec

\* The wizard's row and the requests under way are well formed: the next step
\* is never beyond the sixth.
THEOREM WizardTypeCorrect == WizardSpec => []WizardTypeOK
<1>1. WizardInv => WizardTypeOK
  BY DEF WizardInv
<1> QED
  BY <1>1, WizardInvariance, PTL

\* Whatever requests overlap and crash, isComplete says that the five steps are
\* completed, and currentStep lies beyond each completed one.
THEOREM StatusStaysConsistent == WizardSpec => []StatusIsConsistent
<1>1. WizardInv => StatusIsConsistent
  BY DEF WizardInv
<1> QED
  BY <1>1, WizardInvariance, PTL

\* No crash and no overlap completes step 1, 3 or 4 without its data, except
\* step 3 by the choice to link the agent later.
THEOREM CompletedStepsAreBacked == WizardSpec => []CompletedStepsAreSaved
<1>1. WizardInv => CompletedStepsAreSaved
  BY DEF WizardInv
<1> QED
  BY <1>1, WizardInvariance, PTL

----------------------------------------------------------------------------
(* Acknowledged steps.  A request overwrites the column with its snapshot, *)
(* so whatever is on record must be in every snapshot that is still to be  *)
(* written; that is why a request goes on record only when there is none.  *)

SnapshotsKeepAcked ==
  \A r \in StepRequests : wizard[r].pc = "write" => acked \subseteq wizard[r].completed

AckInv == WizardInv /\ AckedStepsStay /\ SnapshotsKeepAcked

\* A step that leaves the completed steps and the record alone, and gives one
\* slot a request without snapshot or with all that is on record.
LEMMA SlotAck ==
  ASSUME AckInv, NEW r \in StepRequests, NEW q,
         wizard' = [wizard EXCEPT ![r] = q],
         q.pc = "write" => acked \subseteq q.completed,
         row'.completed = row.completed, acked' = acked
  PROVE  AckedStepsStay' /\ SnapshotsKeepAcked'
<1>1. AckedStepsStay'
  BY DEF AckInv, AckedStepsStay
<1>2. wizard \in [StepRequests -> StepRequest]
  BY DEF AckInv, WizardInv, WizardTypeOK
<1>3. SnapshotsKeepAcked'
  BY <1>2 DEF AckInv, SnapshotsKeepAcked
<1> QED
  BY <1>1, <1>3

\* Every step keeps what is on record.
LEMMA NextAck == AckInv /\ [WizardNext]_wizardVars => AckInv'
<1> SUFFICES ASSUME AckInv, [WizardNext]_wizardVars
             PROVE  AckedStepsStay' /\ SnapshotsKeepAcked'
  BY NextWizard DEF AckInv
<1>0. /\ row \in StatusRows /\ wizard \in [StepRequests -> StepRequest] /\ AbsentRowIsBlank
      /\ RequestsAreSound /\ AckedStepsStay /\ SnapshotsKeepAcked
  BY DEF AckInv, WizardInv, WizardTypeOK
<1>2. ASSUME NEW r \in StepRequests, wizard' = [wizard EXCEPT ![r] = NoStep],
             row'.completed = row.completed, acked' = acked
      PROVE  AckedStepsStay' /\ SnapshotsKeepAcked'
  BY <1>2, SlotAck DEF NoStep
<1>3. ASSUME NEW r \in StepRequests, NEW k \in Steps, Step(r, k)
      PROVE  AckedStepsStay' /\ SnapshotsKeepAcked'
  <2>1. [NoStep EXCEPT !.pc = "find", !.step = k].pc = "find"
    BY DEF NoStep
  <2> QED
    BY <1>3, <2>1, SlotAck DEF Step, BeginStep
<1>4. ASSUME NEW r \in StepRequests, InviteLater(r)
      PROVE  AckedStepsStay' /\ SnapshotsKeepAcked'
  <2>1. row'.completed = row.completed
    BY <1>0, <1>4 DEF InviteLater, StatusRows
  <2>2. [NoStep EXCEPT !.pc = "find", !.step = 5].pc = "find"
    BY DEF NoStep
  <2> QED
    BY <1>4, <2>1, <2>2, SlotAck DEF InviteLater, BeginStep
<1>5. ASSUME NEW r \in StepRequests, SkipLater(r)
      PROVE  AckedStepsStay' /\ SnapshotsKeepAcked'
  <2>1. [NoStep EXCEPT !.pc = "find", !.step = 3, !.skip = TRUE].pc = "find"
    BY DEF NoStep
  <2> QED
    BY <1>5, <2>1, SlotAck DEF SkipLater, BeginStep
<1>6. ASSUME NEW r \in StepRequests, GetStatus(r)
      PROVE  AckedStepsStay' /\ SnapshotsKeepAcked'
  <2>1. [NoStep EXCEPT !.pc = "find"].pc = "find"
    BY DEF NoStep
  <2> QED
    BY <1>6, <2>1, SlotAck DEF GetStatus, BeginStep
<1>7. ASSUME NEW r \in StepRequests, ApplyAgentConfig(r)
      PROVE  AckedStepsStay' /\ SnapshotsKeepAcked'
  <2>1. [NoStep EXCEPT !.pc = "peek", !.step = 3].pc = "peek"
    BY DEF NoStep
  <2> QED
    BY <1>7, <2>1, SlotAck DEF ApplyAgentConfig, BeginStep
<1>8. ASSUME NEW r \in StepRequests, FindStatus(r) \/ PeekStatus(r)
      PROVE  AckedStepsStay' /\ SnapshotsKeepAcked'
  <2> DEFINE old == wizard[r]
             snap == [old EXCEPT !.pc = "write", !.completed = row.completed,
                                 !.current = row.current]
             wait == [old EXCEPT !.pc = "create"]
  <2>1. old \in StepRequest /\ UNCHANGED <<row, acked>>
    BY <1>0, <1>8 DEF FindStatus, PeekStatus
  <2>2. PICK q \in {NoStep, snap, wait} : wizard' = [wizard EXCEPT ![r] = q]
    <3>1. CASE FindStatus(r)
      <4>1. CASE ~row.exists
        BY <3>1, <4>1 DEF FindStatus
      <4>2. CASE row.exists /\ old.step = 0
        BY <3>1, <4>2 DEF FindStatus
      <4>3. CASE row.exists /\ old.step # 0
        BY <3>1, <4>3 DEF FindStatus
      <4> QED
        BY <4>1, <4>2, <4>3
    <3>2. CASE PeekStatus(r)
      <4>1. CASE row.exists /\ 3 \notin row.completed /\ ~row.complete
        BY <3>2, <4>1 DEF PeekStatus
      <4>2. CASE ~(row.exists /\ 3 \notin row.completed /\ ~row.complete)
        BY <3>2, <4>2 DEF PeekStatus
      <4> QED
        BY <4>1, <4>2
    <3> QED
      BY <1>8, <3>1, <3>2
  <2>3. /\ NoStep.pc # "write" /\ wait.pc # "write"
        /\ snap.completed = row.completed
    BY <2>1 DEF NoStep, StepRequest
  <2>4. q.pc = "write" => acked \subseteq q.completed
    BY <1>0, <2>2, <2>3 DEF AckedStepsStay
  <2> QED
    BY <2>1, <2>2, <2>4, SlotAck
<1>9. ASSUME NEW r \in StepRequests, CreateStatus(r)
      PROVE  AckedStepsStay' /\ SnapshotsKeepAcked'
  <2>1. CASE row.exists
    BY <1>2, <1>9, <2>1 DEF CreateStatus
  <2>2. CASE ~row.exists
    <3>1. row.completed = {} /\ row'.completed = {} /\ acked = {} /\ acked' = {}
      BY <1>0, <1>9, <2>2
         DEF CreateStatus, AbsentRowIsBlank, NewStatus, AckedStepsStay
    <3> QED
      BY <3>1 DEF AckedStepsStay, SnapshotsKeepAcked
  <2> QED
    BY <2>1, <2>2
<1>10. ASSUME NEW r \in StepRequests, CompleteStep(r)
       PROVE  AckedStepsStay' /\ SnapshotsKeepAcked'
  <2> DEFINE q == wizard[r]
  <2>1. /\ row'.completed = q.completed \cup {q.step}
        /\ wizard' = [wizard EXCEPT ![r] = NoStep]
        /\ acked' = IF Alone(r) THEN acked \cup {q.step} ELSE acked
    BY <1>0, <1>10 DEF CompleteStep, Acknowledge, FinishStep, StatusRows
  <2>2. acked \subseteq q.completed
    BY <1>0, <1>10 DEF CompleteStep, SnapshotsKeepAcked
  <2>3. AckedStepsStay'
    BY <2>1, <2>2 DEF AckedStepsStay
  <2>4. SnapshotsKeepAcked'
    <3> SUFFICES ASSUME NEW p \in StepRequests, wizard'[p].pc = "write"
                 PROVE  acked' \subseteq wizard'[p].completed
      BY DEF SnapshotsKeepAcked
    <3>1. p # r /\ wizard'[p] = wizard[p] /\ wizard[p].pc = "write"
      BY <1>0, <2>1 DEF NoStep
    <3>2. acked' = acked
      BY <2>1, <3>1 DEF Alone
    <3> QED
      BY <1>0, <3>1, <3>2 DEF SnapshotsKeepAcked
  <2> QED
    BY <2>3, <2>4
<1>11. ASSUME NEW r \in StepRequests, WizardRestart(r)
       PROVE  AckedStepsStay' /\ SnapshotsKeepAcked'
  BY <1>2, <1>11 DEF WizardRestart, FinishStep
<1>12. CASE UNCHANGED wizardVars
  BY <1>0, <1>12 DEF wizardVars, AckedStepsStay, SnapshotsKeepAcked
<1> QED
  BY <1>3, <1>4, <1>5, <1>6, <1>7, <1>8, <1>9, <1>10, <1>11, <1>12 DEF WizardNext

\* What completeStep has reported complete while no other request was between
\* its read and its write stays complete, through every later overlap and crash.
THEOREM AcknowledgedStepsStay == WizardSpec => []AckedStepsStay
<1>1. WizardInit => AckInv
  <2>1. WizardInit => AckedStepsStay /\ SnapshotsKeepAcked
    BY DEF WizardInit, AckedStepsStay, SnapshotsKeepAcked
  <2> QED
    BY <2>1, InitWizard DEF AckInv
<1>2. AckInv => AckedStepsStay
  BY DEF AckInv
<1> QED
  BY <1>1, <1>2, NextAck, PTL DEF WizardSpec

----------------------------------------------------------------------------
(* Billing.  AccessIsInvoiced is not inductive alone: a cancellation must  *)
(* find a subscription that was paid for, which needs that nothing but a   *)
(* charge ends the blank row, that a charge the webhook handles was made,  *)
(* and that cancelSubscription calls under way began with a row.           *)

\* Events of charges the provider made.
RealEvents == {e \in Events : e.kind = "charge" => e.tx \in charged}

\* What waits for delivery is real.
EventsAreReal == events \in Seq(RealEvents)

\* Without a subscription nothing is known of one, and nothing is invoiced.
NewIsBlank == sub.status = "NONE" => sub = NoRow /\ invoices = {}

\* A cancellation began with a subscription, and calls the provider only for
\* one the provider knows.
CallsKnowTheRow ==
  \A c \in Cancels :
    /\ calls[c].step # "idle" => sub.status # "NONE"
    /\ calls[c].step = "put" => calls[c].fw \in Subs

\* Whatever was paid has a plan.
PaidHavePlans ==
  \A s \in Subs : provider[s].state # "unborn" => provider[s].plan \in Plans

BillingInv ==
  /\ BillingTypeOK /\ EventsAreReal /\ NewIsBlank
  /\ CallsKnowTheRow /\ PaidHavePlans /\ AccessIsInvoiced

\* One invoice is one.
LEMMA OneInvoice == ASSUME NEW t PROVE Cardinality({t}) = 1
BY FS_Singleton

\* An acknowledged event leaves the others as they are.
LEMMA RemoveAtType ==
  ASSUME NEW S, NEW s \in Seq(S), NEW i \in DOMAIN s
  PROVE  RemoveAt(s, i) \in Seq(S)
<1>1. /\ i \in 1..Len(s) /\ Len(s) \in Nat
      /\ \A k \in 1..Len(s) : s[k] \in S
  OBVIOUS
<1>2. SubSeq(s, 1, i - 1) \in Seq(S)
  BY <1>1, SubSeqProperties
<1>3. SubSeq(s, i + 1, Len(s)) \in Seq(S)
  BY <1>1, SubSeqProperties
<1> QED
  BY <1>2, <1>3 DEF RemoveAt

\* A sequence over a set is one over any larger set.
LEMMA SeqOfMore ==
  ASSUME NEW S, NEW T, S \subseteq T, NEW s \in Seq(S)
  PROVE  s \in Seq(T)
<1>1. \A k \in 1..Len(s) : s[k] \in T
  OBVIOUS
<1> QED
  BY <1>1

\* A charge is made and told.
LEMMA EmitMeans ==
  ASSUME EventsAreReal, charged \subseteq Charges,
         NEW s \in Subs, NEW t \in Charges, NEW p \in Plans,
         EmitCharge(s, t, p)
  PROVE  /\ charged \subseteq charged' /\ charged' \subseteq Charges
         /\ EventsAreReal'
<1>1. charged' = charged \cup {t}
  BY DEF EmitCharge
<1>2. PICK fw \in {s, Null}, meta \in BOOLEAN :
        events' = Append(events, [kind |-> "charge", tx |-> t, fw |-> fw,
                                  of |-> s, plan |-> p, meta |-> meta])
  BY DEF EmitCharge
<1> DEFINE e == [kind |-> "charge", tx |-> t, fw |-> fw, of |-> s, plan |-> p,
                 meta |-> meta]
<1>3. e \in RealEvents'
  BY <1>1 DEF RealEvents, Events
<1>4. RealEvents \subseteq RealEvents'
  BY <1>1 DEF RealEvents
<1>5. events \in Seq(RealEvents')
  BY <1>4, SeqOfMore DEF EventsAreReal
<1> HIDE DEF e
<1>6. Append(events, e) \in Seq(RealEvents')
  BY <1>3, <1>5
<1>7. events' = Append(events, e)
  BY <1>2 DEF e
<1> QED
  BY <1>1, <1>6, <1>7 DEF EventsAreReal

\* A subscription ends at the provider, and that is told.
LEMMA EndMeans ==
  ASSUME EventsAreReal, PaidHavePlans, BillingTypeOK, NEW s \in Subs, End(s)
  PROVE  /\ provider' \in [Subs -> [state : {"unborn", "live", "cancelled"},
                                    plan : Plans \cup {Null}]]
         /\ charged' = charged /\ EventsAreReal' /\ PaidHavePlans'
<1>1. charged' = charged
  BY DEF End
<1>2. [kind |-> "cancelled", fw |-> s] \in RealEvents
  BY DEF RealEvents, Events
<1>3. Append(events, [kind |-> "cancelled", fw |-> s]) \in Seq(RealEvents)
  BY <1>2 DEF EventsAreReal
<1>4. EventsAreReal'
  BY <1>1, <1>3 DEF End, EventsAreReal, RealEvents
<1>5. /\ provider' \in [Subs -> [state : {"unborn", "live", "cancelled"},
                                 plan : Plans \cup {Null}]]
      /\ PaidHavePlans'
  BY DEF End, BillingTypeOK, PaidHavePlans
<1> QED
  BY <1>1, <1>4, <1>5

\* The provider's steps leave our tables alone.
LEMMA TheirStep ==
  ASSUME BillingInv, UNCHANGED <<sub, invoices, orgPlan, links, calls>>,
         charged \subseteq charged', charged' \subseteq Charges,
         provider' \in [Subs -> [state : {"unborn", "live", "cancelled"},
                                 plan : Plans \cup {Null}]],
         EventsAreReal', PaidHavePlans'
  PROVE  BillingInv'
<1>1. \A i \in DOMAIN events' : events'[i] \in Events
  <2>1. \A i \in DOMAIN events' : events'[i] \in RealEvents'
    BY DEF EventsAreReal
  <2> QED
    BY <2>1 DEF RealEvents
<1>2. BillingTypeOK'
  BY <1>1 DEF BillingInv, BillingTypeOK
<1>3. NewIsBlank' /\ CallsKnowTheRow' /\ AccessIsInvoiced'
  BY DEF BillingInv, NewIsBlank, CallsKnowTheRow, AccessIsInvoiced
<1> QED
  BY <1>2, <1>3 DEF BillingInv

\* Our steps leave the provider's subscriptions and charges alone.
LEMMA OurStep ==
  ASSUME BillingInv, UNCHANGED <<provider, charged>>, EventsAreReal',
         sub' \in Rows, invoices' \subseteq Charges,
         orgPlan' \in Plans \cup {Null}, links' \subseteq Plans,
         calls' \in [Cancels -> CallStates],
         NewIsBlank', CallsKnowTheRow', AccessIsInvoiced'
  PROVE  BillingInv'
<1>1. \A i \in DOMAIN events' : events'[i] \in Events
  <2>1. \A i \in DOMAIN events' : events'[i] \in RealEvents'
    BY DEF EventsAreReal
  <2> QED
    BY <2>1 DEF RealEvents
<1>2. BillingTypeOK'
  BY <1>1 DEF BillingInv, BillingTypeOK
<1>3. PaidHavePlans'
  BY DEF BillingInv, PaidHavePlans
<1> QED
  BY <1>2, <1>3 DEF BillingInv

\* The webhook's charge is one the provider made, and pays for what it opens.
LEMMA ChargeKeeps ==
  ASSUME BillingInv, NEW e \in RealEvents, e.kind = "charge",
         HandleChargeCompleted(e), e.meta,
         UNCHANGED <<links, calls, provider, charged>>,
         EventsAreReal'
  PROVE  BillingInv'
<1>1. /\ e.tx \in Charges /\ e.tx \in charged /\ e.plan \in Plans
      /\ e.fw \in Subs \cup {Null}
  BY DEF RealEvents, Events
<1>2. /\ sub \in Rows /\ invoices \subseteq Charges /\ links \subseteq Plans
      /\ calls \in [Cancels -> CallStates] /\ invoices \subseteq charged
  BY DEF BillingInv, BillingTypeOK, AccessIsInvoiced
<1>3. /\ sub' \in Rows /\ sub'.plan = e.plan
      /\ sub'.status = IF sub.status = "NONE" THEN "TRIALING" ELSE "ACTIVE"
      /\ invoices' = invoices \cup {e.tx} /\ orgPlan' = e.plan
  <2>1. /\ sub' = [status |-> IF sub.status = "NONE" THEN "TRIALING"
                              ELSE "ACTIVE",
                   fw |-> IF e.fw = Null THEN sub.fw ELSE e.fw,
                   plan |-> e.plan, atEnd |-> FALSE]
        /\ invoices' = invoices \cup {e.tx} /\ orgPlan' = e.plan
    BY DEF HandleChargeCompleted
  <2> QED
    BY <1>1, <1>2, <2>1 DEF Rows, Statuses
<1>4. NewIsBlank' /\ CallsKnowTheRow'
  BY <1>3 DEF BillingInv, NewIsBlank, CallsKnowTheRow
<1>5. sub'.status = "TRIALING" => Cardinality(invoices') = 1
  <2> SUFFICES ASSUME sub'.status = "TRIALING"
               PROVE  Cardinality(invoices') = 1
    OBVIOUS
  <2>1. invoices = {}
    BY <1>3 DEF BillingInv, NewIsBlank
  <2>2. invoices' = {e.tx}
    BY <1>3, <2>1
  <2> QED
    BY <2>2, OneInvoice
<1>6. AccessIsInvoiced'
  BY <1>1, <1>2, <1>3, <1>5 DEF AccessIsInvoiced
<1> QED
  BY <1>1, <1>2, <1>3, <1>4, <1>6, OurStep

\* Calls move on, and with them at most the row of a known subscription.
LEMMA CallKeeps ==
  ASSUME BillingInv,
         UNCHANGED <<invoices, orgPlan, links, provider, charged, events>>,
         calls' \in [Cancels -> CallStates], CallsKnowTheRow',
         \/ sub' = sub
         \/ /\ sub.status # "NONE"
            /\ \/ sub' = [sub EXCEPT !.status = "CANCELLED"]
               \/ sub' = [sub EXCEPT !.atEnd = TRUE]
  PROVE  BillingInv'
<1>1. /\ sub \in Rows /\ invoices \subseteq Charges /\ links \subseteq Plans
      /\ orgPlan \in Plans \cup {Null}
  BY DEF BillingInv, BillingTypeOK
<1>2. /\ sub' \in Rows /\ sub'.plan = sub.plan
      /\ \/ sub' = sub
         \/ sub.status # "NONE" /\ sub'.status \in {sub.status, "CANCELLED"}
  BY <1>1 DEF Rows, Statuses
<1>3. EventsAreReal'
  BY DEF BillingInv, EventsAreReal, RealEvents
<1>4. NewIsBlank' /\ AccessIsInvoiced'
  BY <1>2 DEF BillingInv, NewIsBlank, AccessIsInvoiced
<1> QED
  BY <1>1, <1>2, <1>3, <1>4, OurStep

\* An organisation without a subscription satisfies the invariant.
LEMMA InitBilling == BillingInit => BillingInv
<1> SUFFICES ASSUME BillingInit PROVE BillingInv
  OBVIOUS
<1>1. NoRow \in Rows
  BY DEF NoRow, Rows, Statuses
<1>2. events \in Seq(RealEvents) /\ \A i \in DOMAIN events : events[i] \in Events
  BY DEF BillingInit
<1>3. BillingTypeOK
  BY <1>1, <1>2 DEF BillingInit, BillingTypeOK, CallStates
<1>4. NoRow.status = "NONE"
  BY DEF NoRow
<1>5. EventsAreReal /\ NewIsBlank /\ CallsKnowTheRow /\ PaidHavePlans
  BY <1>2 DEF BillingInit, EventsAreReal, NewIsBlank, CallsKnowTheRow, PaidHavePlans
<1>6. AccessIsInvoiced
  BY <1>4 DEF BillingInit, AccessIsInvoiced
<1> QED
  BY <1>3, <1>5, <1>6 DEF BillingInv

\* Every step preserves the invariant.
LEMMA NextBilling ==
  ASSUME BillingInv, [BillingNext]_billingVars
  PROVE  BillingInv'
<1> USE DEF theirs, ours
<1>0. /\ sub \in Rows /\ links \subseteq Plans
      /\ calls \in [Cancels -> CallStates]
      /\ provider \in [Subs -> [state : {"unborn", "live", "cancelled"},
                                plan : Plans \cup {Null}]]
      /\ charged \subseteq Charges
      /\ EventsAreReal /\ CallsKnowTheRow /\ PaidHavePlans /\ BillingTypeOK
  BY DEF BillingInv, BillingTypeOK
<1>1. ASSUME NEW p \in Plans, CreateCheckoutSession(p)
      PROVE  BillingInv'
  <2>1. EventsAreReal'
    BY <1>0, <1>1 DEF CreateCheckoutSession, EventsAreReal, RealEvents
  <2>2. NewIsBlank' /\ CallsKnowTheRow' /\ AccessIsInvoiced'
    BY <1>1 DEF CreateCheckoutSession, BillingInv, NewIsBlank,
                CallsKnowTheRow, AccessIsInvoiced
  <2> QED
    BY <1>0, <1>1, <2>1, <2>2, OurStep DEF CreateCheckoutSession, BillingTypeOK
<1>1a. ASSUME NEW p \in Plans, SelectPlan(p)
       PROVE  BillingInv'
  <2>1. EventsAreReal'
    BY <1>0, <1>1a DEF SelectPlan, EventsAreReal, RealEvents
  <2>2. NewIsBlank' /\ CallsKnowTheRow' /\ AccessIsInvoiced'
    BY <1>1a DEF SelectPlan, BillingInv, NewIsBlank, CallsKnowTheRow,
                 AccessIsInvoiced
  <2> QED
    BY <1>0, <1>1a, <2>1, <2>2, OurStep DEF SelectPlan, BillingTypeOK
<1>2. ASSUME NEW s \in Subs, NEW t \in Charges, Renew(s, t)
      PROVE  BillingInv'
  <2>1. provider[s].plan \in Plans
    BY <1>0, <1>2 DEF Renew, PaidHavePlans
  <2>2. /\ charged \subseteq charged' /\ charged' \subseteq Charges
        /\ EventsAreReal'
    BY <1>0, <1>2, <2>1, EmitMeans DEF Renew
  <2>3. PaidHavePlans'
    BY <1>0, <1>2 DEF Renew, PaidHavePlans
  <2> QED
    BY <1>0, <1>2, <2>2, <2>3, TheirStep DEF Renew
<1>3. ASSUME NEW s \in Subs, NEW t \in Charges, NEW p \in Plans, Pay(s, t, p)
      PROVE  BillingInv'
  <2>1. /\ charged \subseteq charged' /\ charged' \subseteq Charges
        /\ EventsAreReal'
    BY <1>0, <1>3, EmitMeans DEF Pay
  <2>2. /\ provider' \in [Subs -> [state : {"unborn", "live", "cancelled"},
                                   plan : Plans \cup {Null}]]
        /\ PaidHavePlans'
    BY <1>0, <1>3 DEF Pay, PaidHavePlans
  <2> QED
    BY <1>3, <2>1, <2>2, TheirStep DEF Pay
<1>4. ASSUME NEW s \in Subs, ProviderCancels(s)
      PROVE  BillingInv'
  <2>1. /\ provider' \in [Subs -> [state : {"unborn", "live", "cancelled"},
                                   plan : Plans \cup {Null}]]
        /\ charged' = charged /\ EventsAreReal' /\ PaidHavePlans'
    BY <1>0, <1>4, EndMeans DEF ProviderCancels
  <2> QED
    BY <1>0, <1>4, <2>1, TheirStep DEF ProviderCancels
<1>5. ASSUME NEW c \in Cancels, NEW now \in BOOLEAN, CancelSubscription(c, now)
      PROVE  BillingInv'
  <2>1. sub.fw \in Subs \cup {Null}
    BY <1>0 DEF Rows
  <2>2. calls' \in [Cancels -> CallStates] /\ CallsKnowTheRow'
    BY <1>0, <1>5, <2>1 DEF CancelSubscription, CallStates, CallsKnowTheRow
  <2> QED
    BY <1>5, <2>2, CallKeeps DEF CancelSubscription
<1>6. ASSUME NEW c \in Cancels, PutCancel(c)
      PROVE  BillingInv'
  <2>1. calls[c].fw \in Subs /\ sub.status # "NONE"
    BY <1>0, <1>6 DEF PutCancel, CallsKnowTheRow
  <2>2. /\ calls' \in [Cancels -> CallStates] /\ CallsKnowTheRow'
    BY <1>0, <1>6, <2>1 DEF PutCancel, CallStates, CallsKnowTheRow
  <2>3. CASE End(calls[c].fw)
    <3>1. /\ provider' \in [Subs -> [state : {"unborn", "live", "cancelled"},
                                     plan : Plans \cup {Null}]]
          /\ charged' = charged /\ EventsAreReal' /\ PaidHavePlans'
      BY <1>0, <2>1, <2>3, EndMeans
    <3>2. \A i \in DOMAIN events' : events'[i] \in Events
      <4>1. \A i \in DOMAIN events' : events'[i] \in RealEvents'
        BY <3>1 DEF EventsAreReal
      <4> QED
        BY <4>1 DEF RealEvents
    <3>3. BillingTypeOK'
      BY <1>0, <1>6, <2>2, <3>1, <3>2 DEF PutCancel, BillingTypeOK
    <3>4. NewIsBlank' /\ AccessIsInvoiced'
      BY <1>6, <3>1 DEF PutCancel, BillingInv, NewIsBlank, AccessIsInvoiced
    <3> QED
      BY <2>2, <3>1, <3>3, <3>4 DEF BillingInv
  <2>4. CASE UNCHANGED theirs
    BY <1>6, <2>2, <2>4, CallKeeps DEF PutCancel
  <2> QED
    BY <1>6, <2>3, <2>4 DEF PutCancel
<1>7. ASSUME NEW c \in Cancels, WriteCancelled(c)
      PROVE  BillingInv'
  <2>1. sub.status # "NONE" /\ sub' = [sub EXCEPT !.status = "CANCELLED"]
    BY <1>0, <1>7 DEF WriteCancelled, CallsKnowTheRow
  <2>2. calls' \in [Cancels -> CallStates]
    BY <1>0, <1>7 DEF WriteCancelled, CallStates
  <2>3. sub'.status = "CANCELLED"
    BY <1>0, <2>1 DEF Rows
  <2>4. CallsKnowTheRow'
    BY <1>0, <1>7, <2>3 DEF WriteCancelled, CallStates, CallsKnowTheRow
  <2> QED
    BY <1>7, <2>1, <2>2, <2>4, CallKeeps DEF WriteCancelled
<1>8. ASSUME NEW c \in Cancels, MarkAtPeriodEnd(c)
      PROVE  BillingInv'
  <2>1. sub.status # "NONE" /\ sub' = [sub EXCEPT !.atEnd = TRUE]
    BY <1>0, <1>8 DEF MarkAtPeriodEnd, CallsKnowTheRow
  <2>2. calls' \in [Cancels -> CallStates]
    BY <1>0, <1>8 DEF MarkAtPeriodEnd, CallStates
  <2>3. sub'.status = sub.status
    BY <1>0, <2>1 DEF Rows
  <2>4. CallsKnowTheRow'
    BY <1>0, <1>8, <2>1, <2>3 DEF MarkAtPeriodEnd, CallStates, CallsKnowTheRow
  <2> QED
    BY <1>8, <2>1, <2>2, <2>4, CallKeeps DEF MarkAtPeriodEnd
<1>9. ASSUME NEW i \in DOMAIN events, HandleEvent(i)
      PROVE  BillingInv'
  <2>1. events[i] \in RealEvents
    BY <1>0 DEF EventsAreReal
  <2>2. EventsAreReal'
    <3>1. RealEvents' = RealEvents
      BY <1>9 DEF HandleEvent, RealEvents
    <3>2. RemoveAt(events, i) \in Seq(RealEvents)
      BY <1>0, RemoveAtType DEF EventsAreReal
    <3>3. events' \in Seq(RealEvents)
      BY <1>0, <1>9, <3>2 DEF HandleEvent, EventsAreReal
    <3> QED
      BY <3>1, <3>3 DEF EventsAreReal
  <2>3. CASE events[i].kind = "charge" /\ HandleChargeCompleted(events[i])
    <3>1. CASE events[i].meta
      BY <1>9, <2>1, <2>2, <2>3, <3>1, ChargeKeeps DEF HandleEvent
    <3>2. CASE ~events[i].meta
      <4>1. UNCHANGED <<sub, invoices, orgPlan>>
        BY <2>3, <3>2 DEF HandleChargeCompleted
      <4>2. UNCHANGED <<links, calls, provider, charged>>
        BY <1>9 DEF HandleEvent
      <4>3. NewIsBlank' /\ CallsKnowTheRow' /\ AccessIsInvoiced'
        BY <4>1, <4>2 DEF BillingInv, NewIsBlank, CallsKnowTheRow,
                          AccessIsInvoiced
      <4> QED
        BY <1>0, <2>2, <4>1, <4>2, <4>3, OurStep DEF BillingTypeOK
    <3> QED
      BY <3>1, <3>2
  <2>4. CASE /\ events[i].kind = "cancelled"
             /\ HandleSubscriptionCancelled(events[i])
    <3>1. events[i].fw \in Subs
      BY <2>1, <2>4 DEF RealEvents, Events
    <3>2. sub.fw = events[i].fw => sub.status # "NONE"
      BY <3>1, BillingAssumption DEF BillingInv, NewIsBlank, NoRow
    <3>3. /\ sub' \in Rows /\ sub'.plan = sub.plan
          /\ \/ sub' = sub
             \/ sub.status # "NONE" /\ sub'.status = "CANCELLED"
      BY <1>0, <2>4, <3>2 DEF HandleSubscriptionCancelled, Rows, Statuses
    <3>4. NewIsBlank' /\ AccessIsInvoiced'
      BY <1>9, <2>4, <3>3 DEF HandleEvent, HandleSubscriptionCancelled,
           BillingInv, NewIsBlank, AccessIsInvoiced
    <3>5. CallsKnowTheRow'
      BY <1>0, <1>9, <3>3 DEF HandleEvent, CallsKnowTheRow
    <3> QED
      BY <1>0, <1>9, <2>2, <2>4, <3>3, <3>4, <3>5, OurStep
         DEF HandleEvent, HandleSubscriptionCancelled, BillingTypeOK
  <2> QED
    BY <1>9, <2>3, <2>4 DEF HandleEvent
<1>10. ASSUME BillingRestart
       PROVE  BillingInv'
  <2>1. calls' \in [Cancels -> CallStates] /\ CallsKnowTheRow'
    BY <1>0, <1>10 DEF BillingRestart, CallStates, CallsKnowTheRow
  <2> QED
    BY <1>10, <2>1, CallKeeps DEF BillingRestart
<1>11. CASE UNCHANGED billingVars
  <2>1. CallsKnowTheRow' /\ UNCHANGED <<sub, calls>>
    BY <1>0, <1>11 DEF billingVars, CallsKnowTheRow
  <2> QED
    BY <1>0, <1>11, <2>1, CallKeeps DEF billingVars
<1> QED
  BY <1>1, <1>1a, <1>2, <1>3, <1>4, <1>5, <1>6, <1>7, <1>8, <1>9, <1>10, <1>11
  DEF BillingNext

\* The invariant holds throughout.
THEOREM BillingInvariance == BillingSpec => []BillingInv
<1>1. BillingInv /\ [BillingNext]_billingVars => BillingInv'
  BY NextBilling
<1> QED
  BY <1>1, InitBilling, PTL DEF BillingSpec

\* The tables of BillingService and of the webhook hold what they are meant
\* to hold.
THEOREM BillingTypeCorrect == BillingSpec => []BillingTypeOK
<1>1. BillingInv => BillingTypeOK
  BY DEF BillingInv
<1> QED
  BY <1>1, BillingInvariance, PTL

\* handleChargeCompleted and the cancellations never leave access without an
\* invoice of a real charge, or a trial of more than one payment.
THEOREM AccessStaysInvoiced == BillingSpec => []AccessIsInvoiced
<1>1. BillingInv => AccessIsInvoiced
  BY DEF BillingInv
<1> QED
  BY <1>1, BillingInvariance, PTL

=============================================================================
