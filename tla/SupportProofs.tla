--------------------------- MODULE SupportProofs ---------------------------
(***************************************************************************)
(* Theorems about Support, for any number of requests, days, releases and  *)
(* file names, and ids of any base and width.                              *)
(***************************************************************************)
EXTENDS Support, FiniteSetTheorems, WellFoundedInduction, TLAPS

----------------------------------------------------------------------------
(* The inductive invariant: bugs                                           *)

IsFiling(r) == reqs[r].pc \in {"move", "insert"}

\* A report that is alone is the only one being filed.
LoneFiling ==
  \A r, q \in Requests : IsFiling(r) /\ IsFiling(q) /\ reqs[r].alone => r = q

\* Numbers do not run ahead of the reports.
NumbersAreBounded ==
  /\ \A r \in Requests : IsFiling(r) =>
       reqs[r].number <= reqs[r].by /\ reqs[r].by <= made
  /\ \A d \in Days : \A n \in Filed(d) :
       n <= bugs[d][n].by /\ bugs[d][n].by <= made

\* Nobody files a report under the id of a bug that was filed alone.
LoneIdsAreTaken ==
  \A r \in Requests :
    /\ IsFiling(r) /\ reqs[r].number < Limit
    /\ bugs[reqs[r].day][reqs[r].number] # None
    => ~bugs[reqs[r].day][reqs[r].number].alone

\* The attachment a lone report has moved is where it was moved to.
MovedAreThere ==
  \A r \in Requests :
    reqs[r].pc = "insert" /\ reqs[r].moved /\ reqs[r].alone =>
      files[reqs[r].day][reqs[r].number] = reqs[r].by

\* A bug about to be resolved is in the table.
ResolvingAreFiled ==
  \A r \in Requests : reqs[r].pc = "status" =>
    bugs[reqs[r].day][reqs[r].number] # None

BugInv == /\ LoneFiling
          /\ NumbersAreBounded
          /\ LoneIdsAreTaken
          /\ MovedAreThere
          /\ ResolvingAreFiled
          /\ AttachmentsAreTheirs
          /\ LoneReportsAreStored

----------------------------------------------------------------------------
(* The inductive invariant: releases                                       *)

\* There is a free row for every upload under way.
RoomIsKept == Cardinality(Registering) <= Cardinality(Free)

Created(i) == releases[i].life # "none"
IsRegistering(r) == reqs[r].pc = "register"

\* A file name that was given once is that of one release, or of one upload.
NamesAreCounted ==
  /\ \A i \in DOMAIN releases : Created(i) =>
       releases[i].key \in Keys /\ uses[releases[i].key] >= 1
  /\ \A r \in Requests : IsRegistering(r) => uses[reqs[r].key] >= 1
  /\ \A i, j \in DOMAIN releases :
       /\ Created(i) /\ Created(j) /\ releases[i].key = releases[j].key
       /\ uses[releases[i].key] = 1
       => i = j
  /\ \A r, q \in Requests :
       /\ IsRegistering(r) /\ IsRegistering(q) /\ reqs[r].key = reqs[q].key
       /\ uses[reqs[r].key] = 1
       => r = q
  /\ \A i \in DOMAIN releases, r \in Requests :
       ~ /\ Created(i) /\ IsRegistering(r) /\ releases[i].key = reqs[r].key
         /\ uses[reqs[r].key] = 1

\* A file is erased after its release.
ErasedAreGone ==
  \A r \in Requests : reqs[r].pc = "erase" =>
    \E i \in DOMAIN releases :
      releases[i].life = "gone" /\ releases[i].key = reqs[r].key

\* The file is stored before the release is registered.
UploadsAreStored ==
  \A r \in Requests :
    IsRegistering(r) /\ uses[reqs[r].key] = 1 => reqs[r].key \in store

IsChoosing(r) == reqs[r].pc \in {"reset", "mark"}

\* A choice that is alone is the only one, and has cleared the others when it
\* comes to mark its own.
LoneChoice ==
  /\ \A r, q \in Requests :
       IsChoosing(r) /\ IsChoosing(q) /\ reqs[r].alone => r = q
  /\ \A r \in Requests : reqs[r].pc = "mark" /\ reqs[r].alone =>
       \A i \in DOMAIN releases : ~releases[i].latest

LatestIsUnique ==
  ~raced => \A i, j \in DOMAIN releases :
              releases[i].latest /\ releases[j].latest => i = j

ReleaseInv == /\ RoomIsKept
              /\ NamesAreCounted
              /\ ErasedAreGone
              /\ UploadsAreStored
              /\ ReleasesHaveFiles
              /\ LoneChoice
              /\ LatestIsUnique

IInv == TypeOK /\ BugInv /\ ReleaseInv

----------------------------------------------------------------------------
(* Numbers and ids                                                         *)

\* A set of naturals has a least element (the free row that Min chooses).
LEMMA LeastNatural ==
  ASSUME NEW S \in SUBSET Nat, S # {}
  PROVE  \E x \in S : \A y \in S : x <= y
<1> DEFINE R == OpToRel(<, Nat)
<1>1. IsWellFoundedOn(R, Nat)
  BY NatLessThanWellFounded
<1>2. \E x \in S : \A y \in S : <<y, x>> \notin R
  <2> HIDE DEF R
  <2> QED
    BY <1>1, WFMin
<1>3. \A x, y \in Nat : <<y, x>> \notin R => x <= y
  BY DEF OpToRel
<1> QED
  BY <1>2, <1>3

\* A bounded set of naturals has a greatest element.
LEMMA GreatestNatural ==
  ASSUME NEW S \in SUBSET Nat, S # {}, NEW b \in Nat, \A s \in S : s <= b
  PROVE  \E x \in S : \A y \in S : y <= x
<1> DEFINE T == {b - s : s \in S}
<1>1. T \in SUBSET Nat /\ T # {}
  <2>1. \A s \in S : b - s \in Nat
    OBVIOUS
  <2>2. PICK s \in S : TRUE
    OBVIOUS
  <2>3. b - s \in T
    OBVIOUS
  <2> QED
    BY <2>1, <2>3
<1>2. PICK t \in T : \A u \in T : t <= u
  <2> HIDE DEF T
  <2> QED
    BY <1>1, LeastNatural
<1>3. PICK x \in S : t = b - x
  OBVIOUS
<1>4. \A y \in S : y <= x
  <2> TAKE y \in S
  <2>1. b - x <= b - y
    BY <1>2, <1>3
  <2>2. x \in Nat /\ y \in Nat
    OBVIOUS
  <2> HIDE DEF T
  <2> QED
    BY <2>1, <2>2
<1> QED
  BY <1>4

\* Min returns an element of a set of naturals that has one.
LEMMA MinIsIn ==
  ASSUME NEW S \in SUBSET Nat, S # {}
  PROVE  Min(S) \in S
BY LeastNatural DEF Min

\* The first number of Width + 1 digits.
LEMMA LimitType == Limit \in Nat
BY SupportAssumption DEF Limit

\* Products of naturals.
LEMMA Monotone ==
  \A m, n, b \in Nat : /\ m * b \in Nat
                       /\ m <= n => m * b <= n * b
                       /\ m < n /\ b > 0 => m * b < n * b
                       /\ b > 0 => m <= m * b
<1> SUFFICES ASSUME NEW m \in Nat, NEW n \in Nat, NEW b \in Nat
             PROVE  /\ m * b \in Nat
                    /\ m <= n => m * b <= n * b
                    /\ m < n /\ b > 0 => m * b < n * b
                    /\ b > 0 => m <= m * b
  OBVIOUS
<1>1. m * b \in Nat
  OBVIOUS
<1>2. m <= n => m * b <= n * b
  OBVIOUS
<1>3. m < n /\ b > 0 => m * b < n * b
  OBVIOUS
<1>4. b > 0 => m <= m * b
  OBVIOUS
<1> QED
  BY <1>1, <1>2, <1>3, <1>4

\* Of some filed numbers one has the last id.
LEMMA LastId ==
  ASSUME NEW F \in SUBSET Numbers, F # {}
  PROVE  \E m \in F : \A k \in F \ {m} : TextBefore(k, m)
<1>0. Base \in Nat /\ Base > 0 /\ MaxRequests \in Nat /\ F \subseteq Nat
  BY SupportAssumption DEF Numbers
<1>1. \A n \in F : Aligned(n) \in Nat /\ Aligned(n) <= MaxRequests * Base
  <2> TAKE n \in F
  <2>1. n \in Nat /\ n <= MaxRequests
    BY <1>0 DEF Numbers
  <2>2. n * Base \in Nat /\ n * Base <= MaxRequests * Base /\ n <= n * Base
        /\ MaxRequests * Base \in Nat
    BY <1>0, <2>1, Monotone
  <2>3. Aligned(n) = n \/ Aligned(n) = n * Base
    BY DEF Aligned
  <2> QED
    BY <2>1, <2>2, <2>3
<1> DEFINE A == {Aligned(n) : n \in F}
<1>2. PICK v \in A : \A w \in A : w <= v
  <2>1. A \in SUBSET Nat /\ A # {} /\ \A w \in A : w <= MaxRequests * Base
    BY <1>1
  <2>2. MaxRequests * Base \in Nat
    BY <1>0, Monotone
  <2> HIDE DEF A
  <2> QED
    BY <2>1, <2>2, GreatestNatural
<1> DEFINE G == {n \in F : Aligned(n) = v}
<1>3. PICK m \in G : \A k \in G : k <= m
  <2>1. G \in SUBSET Nat /\ G # {} /\ \A k \in G : k <= MaxRequests
    BY <1>0 DEF Numbers
  <2> HIDE DEF G
  <2> QED
    BY <1>0, <2>1, GreatestNatural
<1>4. ASSUME NEW k \in F \ {m}
      PROVE  TextBefore(k, m)
  <2>1. Aligned(k) <= v /\ Aligned(k) \in Nat /\ v \in Nat /\ Aligned(m) = v
    BY <1>1, <1>2
  <2>2. Aligned(k) = v => k < m
    BY <1>0, <1>3
  <2> QED
    BY <2>1, <2>2 DEF TextBefore
<1> QED
  BY <1>4

\* The number create gives is one, or follows the last id of the day.
LEMMA NextNumberMeans ==
  ASSUME NEW d \in Days
  PROVE  \/ Filed(d) = {} /\ NextNumber(d) = 1
         \/ \E m \in Filed(d) : /\ NextNumber(d) = 1 + m
                                /\ \A k \in Filed(d) \ {m} : TextBefore(k, m)
<1>1. Filed(d) \in SUBSET Numbers
  BY DEF Filed
<1>2. CASE Filed(d) = {}
  BY <1>2 DEF NextNumber
<1>3. CASE Filed(d) # {}
  <2> DEFINE m == CHOOSE n \in Filed(d) :
                    \A k \in Filed(d) \ {n} : TextBefore(k, n)
  <2>1. m \in Filed(d) /\ \A k \in Filed(d) \ {m} : TextBefore(k, m)
    BY <1>1, <1>3, LastId
  <2>2. NextNumber(d) = 1 + m
    BY <1>3 DEF NextNumber
  <2> HIDE DEF m
  <2> QED
    BY <2>1, <2>2
<1> QED
  BY <1>2, <1>3

\* While numbers have Width digits, the number create gives is free: an id
\* that follows the last one in the order of texts is not taken.
LEMMA NextNumberIsFree ==
  ASSUME NEW d \in Days, NextNumber(d) < Limit
  PROVE  NextNumber(d) \notin Filed(d)
<1>0. Base \in Nat /\ Base > 0 /\ Limit \in Nat
  BY SupportAssumption, LimitType
<1>1. ASSUME NEW m \in Filed(d), NextNumber(d) = 1 + m,
             \A k \in Filed(d) \ {m} : TextBefore(k, m), 1 + m \in Filed(d)
      PROVE  FALSE
  <2>1. m \in Nat /\ 1 + m # m /\ m < 1 + m /\ ~(1 + m < m)
    BY DEF Filed, Numbers
  <2>2. TextBefore(1 + m, m)
    BY <1>1, <2>1
  <2>3. Aligned(1 + m) = (1 + m) * Base /\ Aligned(m) = m * Base
    BY <1>0, <1>1, <2>1 DEF Aligned
  <2>4. m * Base < (1 + m) * Base /\ m * Base \in Nat /\ (1 + m) * Base \in Nat
    BY <1>0, <2>1, Monotone
  <2> HIDE DEF Limit
  <2> QED
    BY <2>1, <2>2, <2>3, <2>4 DEF TextBefore
<1> QED
  BY <1>1, NextNumberMeans

----------------------------------------------------------------------------
(* Requests                                                                *)

\* What a request in each state is.
LEMMA RequestForms ==
  ASSUME NEW q \in Request
  PROVE  /\ q.pc \in {"move", "insert"} => q \in Filing
         /\ q.pc = "status" => q \in [pc : {"status"}, day : Days,
                                      number : Numbers]
         /\ q.pc \in {"register", "erase"} =>
              q \in [pc : {"register", "erase"}, key : Keys]
         /\ q.pc \in {"reset", "mark"} =>
              q \in [pc : {"reset", "mark"}, id : 1..MaxReleases,
                     alone : BOOLEAN]
         /\ q.pc = "idle" => q = Idle
BY DEF Request, Filing, Idle

\* The reports being filed are the requests in state "move" or "insert".
LEMMA FilingForms ==
  ASSUME NEW q \in Request
  PROVE  q \in Filing <=> q.pc \in {"move", "insert"}
BY RequestForms DEF Filing

\* Requests are counted up to the bound, and numbered from one.
LEMMA CountType ==
  ASSUME made \in 0..MaxRequests, Count
  PROVE  made' \in 0..MaxRequests /\ made + 1 \in 1..MaxRequests
BY SupportAssumption DEF Count

\* What BeginAmong does to each request.
LEMMA BeginAmongType ==
  ASSUME reqs \in [Requests -> Request], NEW r \in Requests,
         NEW locals \in Request, NEW pcs,
         pcs = {"move", "insert"} \/ pcs = {"reset", "mark"},
         BeginAmong(r, pcs, locals)
  PROVE  /\ reqs' \in [Requests -> Request]
         /\ reqs'[r] = locals
         /\ \A q \in Requests \ {r} :
              IF reqs[q].pc \in pcs
                THEN reqs'[q] = [reqs[q] EXCEPT !.alone = FALSE]
                ELSE reqs'[q] = reqs[q]
<1>1. /\ reqs'[r] = locals
      /\ \A q \in Requests \ {r} :
           IF reqs[q].pc \in pcs
             THEN reqs'[q] = [reqs[q] EXCEPT !.alone = FALSE]
             ELSE reqs'[q] = reqs[q]
  BY DEF BeginAmong, Crowded
<1>2. \A q \in Requests : reqs[q].pc \in pcs =>
        [reqs[q] EXCEPT !.alone = FALSE] \in Request
  <2> TAKE q \in Requests
  <2>1. CASE reqs[q].pc \in {"move", "insert"}
    <3>1. reqs[q] \in Filing
      BY <2>1, RequestForms
    <3>2. [reqs[q] EXCEPT !.alone = FALSE] \in Filing
      BY <3>1 DEF Filing
    <3> QED
      BY <3>2 DEF Request
  <2>2. CASE reqs[q].pc \in {"reset", "mark"}
    <3> DEFINE C == [pc : {"reset", "mark"}, id : 1..MaxReleases,
                     alone : BOOLEAN]
    <3>1. reqs[q] \in C
      BY <2>2, RequestForms
    <3>2. [reqs[q] EXCEPT !.alone = FALSE] \in C
      BY <3>1
    <3> QED
      BY <3>2 DEF Request
  <2> QED
    BY <2>1, <2>2
<1>3. \A q \in Requests : reqs'[q] \in Request
  BY <1>1, <1>2
<1>4. reqs' = [q \in Requests |-> reqs'[q]]
  BY DEF BeginAmong
<1>5. reqs' \in [Requests -> Request]
  BY <1>3, <1>4
<1> QED
  BY <1>1, <1>5

\* What Begin does to each request.
LEMMA BeginType ==
  ASSUME reqs \in [Requests -> Request], NEW r \in Requests,
         NEW locals \in Request, Begin(r, locals)
  PROVE  /\ reqs' \in [Requests -> Request]
         /\ reqs'[r] = locals
         /\ \A q \in Requests \ {r} : reqs'[q] = reqs[q]
BY DEF Begin

\* What Finish does to each request.
LEMMA FinishType ==
  ASSUME reqs \in [Requests -> Request], NEW r \in Requests, Finish(r)
  PROVE  /\ reqs' \in [Requests -> Request]
         /\ reqs'[r] = Idle
         /\ \A q \in Requests \ {r} : reqs'[q] = reqs[q]
<1>1. Idle \in Request
  BY DEF Request
<1> QED
  BY <1>1 DEF Finish

\* Rows and requests have their types.
LEMMA Types ==
  ASSUME TypeOK
  PROVE  /\ \A d \in Days : \A n \in Numbers :
              bugs[d][n] \in Bug \cup {None} /\ files[d][n] \in 0..MaxRequests
         /\ \A d \in Days : \A n \in Filed(d) : n \in Numbers /\ bugs[d][n] \in Bug
         /\ DOMAIN releases = 1..MaxReleases
         /\ \A i \in 1..MaxReleases : releases[i] \in Release
         /\ \A r \in Requests : reqs[r] \in Request
         /\ \A k \in Keys : uses[k] \in Nat
         /\ made \in Nat /\ made <= MaxRequests
         /\ {MaxRequests, MaxReleases, MaxDays} \subseteq Nat
<1>1. {MaxRequests, MaxReleases, MaxDays} \subseteq Nat
  BY SupportAssumption
<1>2. \A d \in Days : \A n \in Numbers :
        bugs[d][n] \in Bug \cup {None} /\ files[d][n] \in 0..MaxRequests
  BY DEF TypeOK
<1>3. \A d \in Days : \A n \in Filed(d) : n \in Numbers /\ bugs[d][n] \in Bug
  BY <1>2 DEF Filed
<1> QED
  BY <1>1, <1>2, <1>3 DEF TypeOK

\* A report being filed has a day and a number of the tables.
LEMMA FilingPlace ==
  ASSUME TypeOK, NumbersAreBounded, NEW r \in Requests, IsFiling(r)
  PROVE  /\ reqs[r] \in Filing
         /\ reqs[r].day \in Days /\ reqs[r].number \in Numbers
         /\ reqs[r].by \in 1..MaxRequests
         /\ reqs[r].moved \in BOOLEAN /\ reqs[r].alone \in BOOLEAN
<1>1. reqs[r] \in Filing
  BY Types, RequestForms DEF IsFiling
<1>2. /\ reqs[r].day \in Days /\ reqs[r].by \in 1..MaxRequests
      /\ reqs[r].number \in 1..MaxRequests + 1
      /\ reqs[r].moved \in BOOLEAN /\ reqs[r].alone \in BOOLEAN
  BY <1>1 DEF Filing
<1>3. reqs[r].number <= reqs[r].by
  BY DEF NumbersAreBounded
<1>4. reqs[r].number \in Numbers
  BY <1>2, <1>3, Types DEF Numbers
<1> QED
  BY <1>1, <1>2, <1>4

----------------------------------------------------------------------------
(* Steps that leave the bugs or the releases alone                         *)

\* Steps that write no bug and no attachment, and begin no report.
LEMMA BugsAreLeft ==
  ASSUME IInv, bugs' = bugs, files' = files, made' \in Nat, made <= made',
         \A q \in Requests :
           \/ reqs'[q] = reqs[q]
           \/ reqs'[q].pc \notin {"move", "insert", "status"}
           \/ /\ reqs'[q].pc = "status"
              /\ bugs[reqs'[q].day][reqs'[q].number] # None
  PROVE  BugInv'
<1> USE DEF IInv, BugInv
<1>0. \A q \in Requests : IsFiling(q)' => IsFiling(q) /\ reqs'[q] = reqs[q]
  BY DEF IsFiling
<1>1. LoneFiling'
  BY <1>0 DEF LoneFiling
<1>2. NumbersAreBounded'
  <2>1. \A r \in Requests : IsFiling(r)' =>
          reqs'[r].number <= reqs'[r].by /\ reqs'[r].by <= made'
    <3> TAKE r \in Requests
    <3> HAVE IsFiling(r)'
    <3>1. reqs[r].by \in Nat
      BY <1>0, FilingPlace, Types
    <3> QED
      BY <1>0, <3>1, Types DEF NumbersAreBounded
  <2>2. \A d \in Days : \A n \in Filed(d) : bugs[d][n].by \in Nat
    BY Types DEF Bug
  <2>3. \A d \in Days : Filed(d)' = Filed(d)
    BY DEF Filed
  <2> QED
    BY <2>1, <2>2, <2>3, Types DEF NumbersAreBounded
<1>3. LoneIdsAreTaken'
  BY <1>0 DEF LoneIdsAreTaken
<1>4. MovedAreThere'
  BY <1>0 DEF MovedAreThere, IsFiling
<1>5. ResolvingAreFiled'
  BY DEF ResolvingAreFiled
<1>6. AttachmentsAreTheirs'
  BY DEF AttachmentsAreTheirs, Filed
<1>7. LoneReportsAreStored'
  BY <1>0 DEF LoneReportsAreStored, IsFiling, Filing
<1> QED
  BY <1>1, <1>2, <1>3, <1>4, <1>5, <1>6, <1>7

\* No upload is added: there is room for those that are left.
LEMMA FewerUploads ==
  ASSUME IInv, Cardinality(Free)' = Cardinality(Free),
         Registering' \subseteq Registering
  PROVE  RoomIsKept'
<1>1. IsFiniteSet(Registering)
  BY SupportAssumption, FS_Subset DEF Registering
<1>2. Cardinality(Registering') <= Cardinality(Registering)
      /\ Cardinality(Registering') \in Nat /\ Cardinality(Registering) \in Nat
  BY <1>1, FS_Subset, FS_CardinalityType
<1>3. Cardinality(Free) \in Nat
  <2>1. IsFiniteSet(1..MaxReleases)
    BY SupportAssumption, FS_Interval
  <2> QED
    BY <2>1, FS_Subset, FS_CardinalityType, Types DEF IInv, Free
<1> QED
  BY <1>2, <1>3 DEF IInv, ReleaseInv, RoomIsKept

\* Steps that write no release and no release file, and begin nothing there.
LEMMA ReleasesAreLeft ==
  ASSUME IInv, UNCHANGED agents,
         \A q \in Requests :
           \/ reqs'[q] = reqs[q]
           \/ reqs'[q].pc \notin {"register", "erase", "reset", "mark"}
  PROVE  ReleaseInv'
<1> USE DEF IInv, ReleaseInv, agents
<1>1. RoomIsKept'
  <2>1. Registering' \subseteq Registering
    BY DEF Registering
  <2> QED
    BY <2>1, FewerUploads DEF Free
<1>2. NamesAreCounted'
  BY DEF NamesAreCounted, Created, IsRegistering
<1>3. ErasedAreGone'
  BY DEF ErasedAreGone
<1>4. UploadsAreStored'
  BY DEF UploadsAreStored, IsRegistering
<1>5. ReleasesHaveFiles'
  BY DEF ReleasesHaveFiles, Here
<1>6. LoneChoice'
  BY DEF LoneChoice, IsChoosing
<1>7. LatestIsUnique'
  BY DEF LatestIsUnique
<1> QED
  BY <1>1, <1>2, <1>3, <1>4, <1>5, <1>6, <1>7

----------------------------------------------------------------------------
(* Steps of the bug tracker                                                *)

\* create: a lone report is given a free number.
LEMMA CreateBugIInv ==
  ASSUME IInv, NEW r \in Requests, CreateBug(r)
  PROVE  IInv'
<1> USE DEF IInv
<1> DEFINE G == {"move", "insert"}
           n0 == NextNumber(today)
           lone == Nobody(G)
<1>0. lone \in BOOLEAN
  BY Zenon DEF Nobody
<1>1. today \in Days /\ made \in 0..MaxRequests
  BY DEF TypeOK
<1>2. /\ Count
      /\ made + 1 \in 1..MaxRequests /\ made' = made + 1 /\ made' \in Nat
  <2>1. Count
    BY DEF CreateBug, BeginAmong
  <2> QED
    BY <1>1, <2>1, CountType, Types DEF Count
<1>3. n0 \in 1..MaxRequests + 1 /\ n0 <= made + 1
  <2>1. \A m \in Filed(today) : m \in Numbers /\ m <= made
    <3> TAKE m \in Filed(today)
    <3>1. m \in Numbers /\ bugs[today][m].by \in Nat
      BY <1>1, Types DEF Bug
    <3> QED
      BY <1>1, <3>1, Types DEF BugInv, NumbersAreBounded, Numbers
  <2> HIDE DEF n0
  <2>2. n0 = 1 \/ \E m \in Filed(today) : n0 = 1 + m
    BY <1>1, NextNumberMeans DEF n0
  <2> QED
    BY <1>1, <2>1, <2>2, Types DEF Numbers
<1>4. n0 < Limit => bugs[today][n0] = None
  <2>1. n0 \in Numbers
    <3> HIDE DEF n0
    <3> QED
      BY <1>1, <1>2, <1>3, Types DEF Numbers
  <2> QED
    BY <1>1, <2>1, NextNumberIsFree DEF Filed
<1> HIDE DEF n0, lone
<1>5. PICK pc \in G :
        BeginAmong(r, G, [pc |-> pc, by |-> made + 1, day |-> today,
                          number |-> n0, moved |-> FALSE, alone |-> lone])
  BY DEF CreateBug, n0, lone
<1> DEFINE L == [pc |-> pc, by |-> made + 1, day |-> today,
                 number |-> n0, moved |-> FALSE, alone |-> lone]
<1>6. L \in Filing /\ L \in Request
  <2>1. L \in Filing
    BY <1>0, <1>1, <1>2, <1>3 DEF Filing
  <2> QED
    BY <2>1 DEF Request
<1>7. /\ reqs' \in [Requests -> Request]
      /\ reqs'[r] = L
      /\ \A q \in Requests \ {r} :
              IF reqs[q].pc \in G
                THEN reqs'[q] = [reqs[q] EXCEPT !.alone = FALSE]
                ELSE reqs'[q] = reqs[q]
  <2>1. PICK l : l = L
    OBVIOUS
  <2>2. l \in Request
    BY <1>6, <2>1
  <2>3. BeginAmong(r, G, l)
    BY <1>5, <2>1 DEF BeginAmong
  <2>4. /\ reqs' \in [Requests -> Request]
        /\ reqs'[r] = l
        /\ \A q \in Requests \ {r} :
              IF reqs[q].pc \in G
                THEN reqs'[q] = [reqs[q] EXCEPT !.alone = FALSE]
                ELSE reqs'[q] = reqs[q]
    <3>1. reqs \in [Requests -> Request]
      BY DEF TypeOK
    <3>2. G = {"move", "insert"}
      OBVIOUS
    <3> HIDE DEF L, G
    <3> QED
      BY <2>2, <2>3, <3>1, <3>2, BeginAmongType
  <2> QED
    BY <2>1, <2>4
<1>8. \A q \in Requests \ {r} : IsFiling(q) =>
        /\ reqs'[q].alone = FALSE /\ reqs'[q].pc = reqs[q].pc
        /\ reqs'[q].by = reqs[q].by /\ reqs'[q].day = reqs[q].day
        /\ reqs'[q].number = reqs[q].number /\ reqs'[q].moved = reqs[q].moved
  <2> TAKE q \in Requests \ {r}
  <2> HAVE IsFiling(q)
  <2>1. reqs[q] \in Filing
    BY FilingPlace DEF BugInv
  <2>2. reqs'[q] = [reqs[q] EXCEPT !.alone = FALSE]
    BY <1>7 DEF IsFiling
  <2> QED
    BY <2>1, <2>2 DEF Filing
<1>9. \A q \in Requests \ {r} : ~IsFiling(q) => reqs'[q] = reqs[q]
  BY <1>7 DEF IsFiling
<1>10. \A q \in Requests \ {r} : IsFiling(q)' <=> IsFiling(q)
  BY <1>8, <1>9 DEF IsFiling
<1>11. UNCHANGED <<tracker, agents>>
  BY DEF CreateBug
<1>12. /\ reqs'[r].pc \in G /\ reqs'[r].by = made + 1 /\ reqs'[r].day = today
       /\ reqs'[r].number = n0 /\ reqs'[r].moved = FALSE
       /\ reqs'[r].alone = lone /\ reqs'[r] \in Filing
  BY <1>6, <1>7
<1> HIDE DEF L
<1>13. TypeOK'
  <2>1. made' \in 0..MaxRequests
    BY <1>2
  <2> QED
    BY <1>7, <1>11, <2>1 DEF TypeOK, tracker, agents
<1>14. BugInv'
  <2> USE DEF BugInv, tracker
  <2>1. LoneFiling'
    <3> SUFFICES ASSUME NEW a \in Requests, NEW b \in Requests,
                        IsFiling(a)', IsFiling(b)', reqs'[a].alone
                 PROVE  a = b
      BY DEF LoneFiling
    <3>1. a = r
      BY <1>8, <1>10
    <3>2. b = r
      BY <1>10, <1>12, <3>1 DEF lone, Nobody, IsFiling
    <3> QED
      BY <3>1, <3>2
  <2>2. NumbersAreBounded'
    <3>1. ASSUME NEW q \in Requests, IsFiling(q)'
          PROVE  reqs'[q].number <= reqs'[q].by /\ reqs'[q].by <= made'
      <4>1. CASE q = r
        BY <1>2, <1>3, <1>12, <4>1
      <4>2. CASE q # r
        <5>1. reqs[q].by \in Nat
          BY <1>10, <3>1, <4>2, FilingPlace, Types
        <5> QED
          BY <1>2, <1>8, <1>10, <3>1, <4>2, <5>1, Types DEF NumbersAreBounded
      <4> QED
        BY <4>1, <4>2
    <3>2. ASSUME NEW d \in Days, NEW n \in Filed(d)
          PROVE  n <= bugs[d][n].by /\ bugs[d][n].by <= made'
      <4>1. bugs[d][n].by \in Nat
        BY Types DEF Bug
      <4> QED
        BY <1>2, <4>1, Types DEF NumbersAreBounded
    <3>3. \A d \in Days : Filed(d)' = Filed(d)
      BY <1>11 DEF Filed
    <3> QED
      BY <1>11, <3>1, <3>2, <3>3 DEF NumbersAreBounded
  <2>3. LoneIdsAreTaken'
    BY <1>4, <1>8, <1>10, <1>11, <1>12 DEF LoneIdsAreTaken, Limit
  <2>4. MovedAreThere'
    BY <1>8, <1>10, <1>12 DEF MovedAreThere, IsFiling
  <2>5. ResolvingAreFiled'
    <3>1. \A q \in Requests : reqs'[q].pc = "status" => reqs'[q] = reqs[q]
      BY <1>8, <1>9, <1>12 DEF IsFiling
    <3> QED
      BY <1>11, <3>1 DEF ResolvingAreFiled
  <2>6. AttachmentsAreTheirs'
    BY <1>11 DEF AttachmentsAreTheirs, Filed, Limit
  <2>7. LoneReportsAreStored'
    <3>1. \A q \in Requests : reqs'[q] \in Filing /\ reqs'[q].alone => q = r
      BY <1>8, <1>10 DEF IsFiling, Filing
    <3> QED
      BY <1>4, <1>11, <1>12, <3>1 DEF LoneReportsAreStored, Limit
  <2> QED
    BY <2>1, <2>2, <2>3, <2>4, <2>5, <2>6, <2>7
<1>15. ReleaseInv'
  <2>1. \A q \in Requests :
          \/ reqs'[q] = reqs[q]
          \/ reqs'[q].pc \notin {"register", "erase", "reset", "mark"}
    BY <1>8, <1>9, <1>12 DEF IsFiling
  <2> QED
    BY <1>11, <2>1, ReleasesAreLeft
<1> QED
  BY <1>13, <1>14, <1>15

\* confirmUploads: nobody's attachment is overwritten but that of a report
\* which was not alone.
LEMMA ConfirmUploadsIInv ==
  ASSUME IInv, NEW r \in Requests, ConfirmUploads(r)
  PROVE  IInv'
<1> USE DEF IInv
<1>1. PICK copied \in BOOLEAN, moved \in BOOLEAN :
        /\ moved => copied
        /\ files' = IF copied
                      THEN [files EXCEPT ![reqs[r].day][reqs[r].number] =
                              reqs[r].by]
                      ELSE files
        /\ reqs' = [reqs EXCEPT ![r].pc = "insert", ![r].moved = moved]
  BY DEF ConfirmUploads
<1>2. IsFiling(r) /\ reqs[r].pc = "move"
  BY DEF ConfirmUploads, IsFiling
<1>3. /\ reqs[r] \in Filing
      /\ reqs[r].day \in Days /\ reqs[r].number \in Numbers
      /\ reqs[r].by \in 1..MaxRequests
  BY <1>2, FilingPlace DEF BugInv
<1>4. UNCHANGED <<today, bugs, agents, made>>
  BY DEF ConfirmUploads
<1> DEFINE L == [reqs[r] EXCEPT !.pc = "insert", !.moved = moved]
<1>5. L \in Filing /\ L \in Request
  <2>1. L \in Filing
    BY <1>3 DEF Filing
  <2> QED
    BY <2>1 DEF Request
<1>6. /\ L.pc = "insert" /\ L.by = reqs[r].by /\ L.day = reqs[r].day
      /\ L.number = reqs[r].number /\ L.moved = moved
      /\ L.alone = reqs[r].alone
  BY <1>3 DEF Filing
<1>7. /\ reqs' = [reqs EXCEPT ![r] = L] /\ reqs \in [Requests -> Request]
  BY <1>1 DEF TypeOK
<1>8. /\ reqs' \in [Requests -> Request] /\ reqs'[r] = L
      /\ \A q \in Requests \ {r} : reqs'[q] = reqs[q]
  <2> HIDE DEF L
  <2> QED
    BY <1>5, <1>7
<1>9. /\ reqs'[r].pc = "insert" /\ reqs'[r].by = reqs[r].by
      /\ reqs'[r].day = reqs[r].day /\ reqs'[r].number = reqs[r].number
      /\ reqs'[r].moved = moved /\ reqs'[r].alone = reqs[r].alone
  BY <1>6, <1>8
<1> HIDE DEF L
<1>10. \A q \in Requests : IsFiling(q)' <=> IsFiling(q)
  BY <1>2, <1>8, <1>9 DEF IsFiling
<1>11. \A d \in Days, n \in Numbers :
         files'[d][n] = IF copied /\ d = reqs[r].day /\ n = reqs[r].number
                          THEN reqs[r].by ELSE files[d][n]
  BY <1>1, <1>3 DEF TypeOK
<1>12. \A d \in Days : Filed(d)' = Filed(d) /\ Filed(d) \subseteq Numbers
  BY <1>4 DEF Filed
<1>13. TypeOK'
  <2>1. files' \in [Days -> [Numbers -> 0..MaxRequests]]
    BY <1>1, <1>3, Types DEF TypeOK
  <2> QED
    BY <1>4, <1>8, <2>1 DEF TypeOK, agents
<1>14. BugInv'
  <2> USE DEF BugInv
  <2>1. LoneFiling'
    BY <1>8, <1>9, <1>10 DEF LoneFiling
  <2>2. NumbersAreBounded'
    BY <1>4, <1>8, <1>9, <1>10, <1>12 DEF NumbersAreBounded
  <2>3. LoneIdsAreTaken'
    BY <1>4, <1>8, <1>9, <1>10 DEF LoneIdsAreTaken, Limit
  <2>4. MovedAreThere'
    <3> SUFFICES ASSUME NEW q \in Requests, reqs'[q].pc = "insert",
                        reqs'[q].moved, reqs'[q].alone
                 PROVE  files'[reqs'[q].day][reqs'[q].number] = reqs'[q].by
      BY DEF MovedAreThere
    <3>1. IsFiling(q) /\ reqs[q].alone
      BY <1>8, <1>9, <1>10 DEF IsFiling
    <3>2. q = r
      BY <1>2, <3>1 DEF LoneFiling
    <3> QED
      BY <1>1, <1>3, <1>9, <1>11, <3>2
  <2>5. ResolvingAreFiled'
    BY <1>4, <1>8, <1>9 DEF ResolvingAreFiled
  <2>6. AttachmentsAreTheirs'
    <3> SUFFICES ASSUME NEW d \in Days, NEW n \in Filed(d),
                        bugs[d][n].moved, bugs[d][n].alone, n < Limit
                 PROVE  files'[d][n] = bugs[d][n].by
      BY <1>4, <1>12 DEF AttachmentsAreTheirs, Limit
    <3>1. n \in Numbers /\ bugs[d][n] # None
      BY DEF Filed
    <3>2. ~(d = reqs[r].day /\ n = reqs[r].number)
      BY <1>2, <3>1 DEF LoneIdsAreTaken
    <3> QED
      BY <1>11, <3>1, <3>2 DEF AttachmentsAreTheirs
  <2>7. LoneReportsAreStored'
    BY <1>2, <1>3, <1>4, <1>8, <1>9 DEF LoneReportsAreStored, Limit
  <2> QED
    BY <2>1, <2>2, <2>3, <2>4, <2>5, <2>6, <2>7
<1>15. ReleaseInv'
  <2>1. \A q \in Requests :
          \/ reqs'[q] = reqs[q]
          \/ reqs'[q].pc \notin {"register", "erase", "reset", "mark"}
    BY <1>8, <1>9
  <2> QED
    BY <1>4, <2>1, ReleasesAreLeft
<1> QED
  BY <1>13, <1>14, <1>15

\* Writing one row of the table of bugs changes no other.
LEMMA RowWritten ==
  ASSUME TypeOK, NEW d \in Days, NEW n \in Numbers, NEW row \in Bug,
         bugs' = [bugs EXCEPT ![d][n] = row]
  PROVE  /\ bugs' \in [Days -> [Numbers -> Bug \cup {None}]]
         /\ bugs'[d][n] = row
         /\ \A c \in Days, m \in Numbers :
              c # d \/ m # n => bugs'[c][m] = bugs[c][m]
         /\ \A c \in Days : \A m \in Filed(c)' :
              m \in Numbers /\ (m \in Filed(c) \/ (c = d /\ m = n))
<1>1. bugs \in [Days -> [Numbers -> Bug \cup {None}]]
  BY DEF TypeOK
<1>2. /\ bugs' \in [Days -> [Numbers -> Bug \cup {None}]]
      /\ bugs'[d][n] = row
  BY <1>1
<1>3. \A c \in Days, m \in Numbers :
        c # d \/ m # n => bugs'[c][m] = bugs[c][m]
  BY <1>1
<1>4. ASSUME NEW c \in Days, NEW m \in Filed(c)'
      PROVE  m \in Numbers /\ (m \in Filed(c) \/ (c = d /\ m = n))
  <2>1. m \in Numbers /\ bugs'[c][m] # None
    BY DEF Filed
  <2>2. c # d \/ m # n => bugs[c][m] # None
    BY <1>3, <2>1
  <2> QED
    BY <2>1, <2>2 DEF Filed
<1> QED
  BY <1>2, <1>3, <1>4

\* InsertBug: the id is free, and what the report moved is there.
LEMMA InsertBugIInv ==
  ASSUME IInv, NEW r \in Requests, InsertBug(r)
  PROVE  IInv'
<1> USE DEF IInv
<1>1. IsFiling(r) /\ reqs[r].pc = "insert" /\ Finish(r)
  BY DEF InsertBug, IsFiling
<1>2. /\ reqs[r] \in Filing
      /\ reqs[r].day \in Days /\ reqs[r].number \in Numbers
      /\ reqs[r].by \in 1..MaxRequests
      /\ reqs[r].moved \in BOOLEAN /\ reqs[r].alone \in BOOLEAN
  BY <1>1, FilingPlace DEF BugInv
<1>3. UNCHANGED <<today, files, agents, made>>
  BY DEF InsertBug, Finish
<1>4. /\ reqs' \in [Requests -> Request] /\ reqs'[r] = Idle
      /\ \A q \in Requests \ {r} : reqs'[q] = reqs[q]
  BY <1>1, FinishType DEF TypeOK
<1>5. \A q \in Requests : reqs'[q] = reqs[q] \/ reqs'[q].pc = "idle"
  BY <1>4 DEF Idle
<1>6. ReleaseInv'
  <2>1. \A q \in Requests :
          \/ reqs'[q] = reqs[q]
          \/ reqs'[q].pc \notin {"register", "erase", "reset", "mark"}
    BY <1>5
  <2> QED
    BY <1>3, <2>1, ReleasesAreLeft
<1>7. CASE bugs[reqs[r].day][reqs[r].number] # None
  <2>1. bugs' = bugs
    BY <1>7 DEF InsertBug
  <2>2. TypeOK'
    BY <1>3, <1>4, <2>1 DEF TypeOK, agents
  <2>3. BugInv'
    BY <1>3, <1>5, <2>1, BugsAreLeft, Types
  <2> QED
    BY <1>6, <2>2, <2>3
<1>8. CASE bugs[reqs[r].day][reqs[r].number] = None
  <2> DEFINE row == [by |-> reqs[r].by, moved |-> reqs[r].moved,
                     alone |-> reqs[r].alone, resolved |-> FALSE,
                     assigned |-> FALSE]
             d0 == reqs[r].day
             n0 == reqs[r].number
  <2>1. row \in Bug
    BY <1>2 DEF Bug
  <2>2. bugs' = [bugs EXCEPT ![d0][n0] = row]
    BY <1>8 DEF InsertBug
  <2>3. /\ bugs' \in [Days -> [Numbers -> Bug \cup {None}]]
        /\ bugs'[d0][n0] = row
        /\ \A c \in Days, m \in Numbers :
             c # d0 \/ m # n0 => bugs'[c][m] = bugs[c][m]
        /\ \A c \in Days : \A m \in Filed(c)' :
             m \in Numbers /\ (m \in Filed(c) \/ (c = d0 /\ m = n0))
    <3>1. PICK d, n, w : d = d0 /\ n = n0 /\ w = row
      OBVIOUS
    <3>2. d \in Days /\ n \in Numbers /\ w \in Bug
          /\ bugs' = [bugs EXCEPT ![d][n] = w]
      BY <1>2, <2>1, <2>2, <3>1
    <3> HIDE DEF row, d0, n0
    <3>3. /\ bugs' \in [Days -> [Numbers -> Bug \cup {None}]]
          /\ bugs'[d][n] = w
          /\ \A c \in Days, m \in Numbers :
               c # d \/ m # n => bugs'[c][m] = bugs[c][m]
          /\ \A c \in Days : \A m \in Filed(c)' :
               m \in Numbers /\ (m \in Filed(c) \/ (c = d /\ m = n))
      BY <3>2, RowWritten
    <3> QED
      BY <3>1, <3>3
  <2>4. /\ bugs'[d0][n0].by = reqs[r].by /\ bugs'[d0][n0].moved = reqs[r].moved
        /\ bugs'[d0][n0].alone = reqs[r].alone
        /\ bugs'[d0][n0].resolved = FALSE /\ bugs'[d0][n0].assigned = FALSE
    BY <2>3
  <2> HIDE DEF row
  <2>5. \A q \in Requests : IsFiling(q)' =>
          IsFiling(q) /\ q # r /\ reqs'[q] = reqs[q]
          /\ q \in Requests \ {r} /\ ~reqs[q].alone
    BY <1>1, <1>4 DEF IsFiling, Idle, BugInv, LoneFiling
  <2>6. TypeOK'
    BY <1>3, <1>4, <2>3 DEF TypeOK, agents
  <2>7. BugInv'
    <3> USE DEF BugInv
    <3>1. LoneFiling'
      BY <2>5 DEF LoneFiling
    <3>2. NumbersAreBounded'
      <4>1. \A q \in Requests : IsFiling(q)' =>
              reqs'[q].number <= reqs'[q].by /\ reqs'[q].by <= made'
        BY <1>3, <2>5 DEF NumbersAreBounded
      <4>2. ASSUME NEW d \in Days, NEW n \in Filed(d)'
            PROVE  n <= bugs'[d][n].by /\ bugs'[d][n].by <= made'
        <5>1. CASE d = d0 /\ n = n0
          BY <1>1, <1>3, <2>4, <5>1 DEF NumbersAreBounded
        <5>2. CASE ~(d = d0 /\ n = n0)
          BY <1>3, <2>3, <5>2 DEF NumbersAreBounded
        <5> QED
          BY <5>1, <5>2
      <4> QED
        BY <4>1, <4>2 DEF NumbersAreBounded
    <3>3. LoneIdsAreTaken'
      <4> SUFFICES ASSUME NEW q \in Requests, IsFiling(q)',
                          reqs'[q].number < Limit,
                          bugs'[reqs'[q].day][reqs'[q].number] # None
                   PROVE  ~bugs'[reqs'[q].day][reqs'[q].number].alone
        BY DEF LoneIdsAreTaken, Limit
      <4>1. /\ reqs'[q] = reqs[q] /\ IsFiling(q) /\ reqs[q].day \in Days
            /\ reqs[q].number \in Numbers
        BY <2>5, FilingPlace
      <4>2. CASE reqs[q].day = d0 /\ reqs[q].number = n0
        <5>1. ~reqs[r].alone
          BY <1>1, <2>5, <4>1 DEF LoneFiling
        <5> QED
          BY <2>4, <4>1, <4>2, <5>1
      <4>3. CASE ~(reqs[q].day = d0 /\ reqs[q].number = n0)
        BY <2>3, <4>1, <4>3 DEF LoneIdsAreTaken
      <4> QED
        BY <4>2, <4>3
    <3>4. MovedAreThere'
      BY <2>5 DEF MovedAreThere, IsFiling
    <3>5. ResolvingAreFiled'
      <4> SUFFICES ASSUME NEW q \in Requests, reqs'[q].pc = "status"
                   PROVE  bugs'[reqs'[q].day][reqs'[q].number] # None
        BY DEF ResolvingAreFiled
      <4>1. reqs'[q] = reqs[q]
        BY <1>5
      <4>2. reqs[q].day \in Days /\ reqs[q].number \in Numbers
        BY <4>1, RequestForms, Types
      <4>3. bugs[reqs[q].day][reqs[q].number] # None
        BY <4>1 DEF ResolvingAreFiled
      <4> QED
        BY <1>8, <2>3, <4>1, <4>2, <4>3
    <3>6. AttachmentsAreTheirs'
      <4> SUFFICES ASSUME NEW d \in Days, NEW n \in Filed(d)',
                          bugs'[d][n].moved, bugs'[d][n].alone, n < Limit
                   PROVE  files[d][n] = bugs'[d][n].by
        BY <1>3 DEF AttachmentsAreTheirs, Limit
      <4>1. CASE d = d0 /\ n = n0
        BY <1>1, <2>4, <4>1 DEF MovedAreThere
      <4>2. CASE ~(d = d0 /\ n = n0)
        BY <2>3, <4>2 DEF AttachmentsAreTheirs
      <4> QED
        BY <4>1, <4>2
    <3>7. LoneReportsAreStored'
      BY <2>5 DEF LoneReportsAreStored, Filing, IsFiling
    <3> QED
      BY <3>1, <3>2, <3>3, <3>4, <3>5, <3>6, <3>7
  <2> QED
    BY <1>6, <2>6, <2>7
<1> QED
  BY <1>7, <1>8


\* Assigning, resolving or reopening a bug: the row keeps its report.
LEMMA RowEdited ==
  ASSUME IInv, NEW d \in Days, NEW n \in Numbers, bugs[d][n] # None,
         NEW row \in Bug, bugs' = [bugs EXCEPT ![d][n] = row],
         row.by = bugs[d][n].by, row.moved = bugs[d][n].moved,
         row.alone = bugs[d][n].alone,
         files' = files, made' \in Nat, made <= made',
         \A q \in Requests : reqs'[q] = reqs[q] \/ reqs'[q].pc = "idle"
  PROVE  /\ bugs' \in [Days -> [Numbers -> Bug \cup {None}]]
         /\ BugInv'
<1> USE DEF IInv, BugInv
<1>1. /\ bugs' \in [Days -> [Numbers -> Bug \cup {None}]]
      /\ bugs'[d][n] = row
      /\ \A c \in Days, m \in Numbers :
           c # d \/ m # n => bugs'[c][m] = bugs[c][m]
      /\ \A c \in Days : \A m \in Filed(c)' :
           m \in Numbers /\ (m \in Filed(c) \/ (c = d /\ m = n))
  BY RowWritten
<1>2. n \in Filed(d) /\ bugs[d][n] \in Bug /\ row # None
  BY Types, NoBugAssumption DEF Filed
<1>3. ASSUME NEW c \in Days, NEW m \in Numbers
      PROVE  /\ bugs'[c][m] = None <=> bugs[c][m] = None
             /\ bugs'[c][m].by = bugs[c][m].by
             /\ bugs'[c][m].moved = bugs[c][m].moved
             /\ bugs'[c][m].alone = bugs[c][m].alone
  <2>1. CASE c = d /\ m = n
    BY <1>1, <1>2, <2>1
  <2>2. CASE ~(c = d /\ m = n)
    BY <1>1, <2>2
  <2> QED
    BY <2>1, <2>2
<1>4. \A c \in Days : Filed(c)' = Filed(c) /\ Filed(c) \subseteq Numbers
  BY <1>3 DEF Filed
<1>5. \A q \in Requests : IsFiling(q)' => IsFiling(q) /\ reqs'[q] = reqs[q]
  BY DEF IsFiling
<1>6. \A q \in Requests : IsFiling(q) =>
        reqs[q].day \in Days /\ reqs[q].number \in Numbers
  BY FilingPlace
<1>7. LoneFiling'
  BY <1>5 DEF LoneFiling
<1>8. NumbersAreBounded'
  <2>1. ASSUME NEW r \in Requests, IsFiling(r)'
        PROVE  reqs'[r].number <= reqs'[r].by /\ reqs'[r].by <= made'
    <3>1. reqs[r].by \in Nat
      BY <1>5, <2>1, FilingPlace, Types
    <3> QED
      BY <1>5, <2>1, <3>1, Types DEF NumbersAreBounded
  <2>2. ASSUME NEW c \in Days, NEW m \in Filed(c)
        PROVE  m <= bugs'[c][m].by /\ bugs'[c][m].by <= made'
    <3>1. bugs[c][m].by \in Nat
      BY Types DEF Bug
    <3> QED
      BY <1>3, <1>4, <3>1, Types DEF NumbersAreBounded
  <2> QED
    BY <1>4, <2>1, <2>2 DEF NumbersAreBounded
<1>9. LoneIdsAreTaken'
  BY <1>3, <1>5, <1>6 DEF LoneIdsAreTaken, Limit
<1>10. MovedAreThere'
  BY <1>5 DEF MovedAreThere, IsFiling
<1>11. ResolvingAreFiled'
  <2> SUFFICES ASSUME NEW q \in Requests, reqs'[q].pc = "status"
               PROVE  bugs'[reqs'[q].day][reqs'[q].number] # None
    BY DEF ResolvingAreFiled
  <2>1. reqs'[q] = reqs[q]
    OBVIOUS
  <2>2. reqs[q].day \in Days /\ reqs[q].number \in Numbers
    BY <2>1, RequestForms, Types
  <2> QED
    BY <1>3, <2>1, <2>2 DEF ResolvingAreFiled
<1>12. AttachmentsAreTheirs'
  BY <1>3, <1>4 DEF AttachmentsAreTheirs, Limit
<1>13. LoneReportsAreStored'
  <2>1. \A q \in Requests : reqs'[q] \in Filing =>
          IsFiling(q) /\ reqs'[q] = reqs[q]
    BY <1>5 DEF IsFiling, Filing
  <2> QED
    BY <1>3, <1>6, <2>1 DEF LoneReportsAreStored, Limit
<1> QED
  BY <1>1, <1>7, <1>8, <1>9, <1>10, <1>11, <1>12, <1>13

\* assign: the row keeps its report.
LEMMA AssignIInv ==
  ASSUME IInv, NEW d \in Days, NEW n \in Numbers, Assign(d, n)
  PROVE  IInv'
<1> USE DEF IInv
<1>1. PICK to \in BOOLEAN : bugs' = [bugs EXCEPT ![d][n].assigned = to]
  BY DEF Assign
<1>2. /\ bugs[d][n] # None /\ bugs[d][n] \in Bug
      /\ bugs \in [Days -> [Numbers -> Bug \cup {None}]]
  BY Types DEF Assign, TypeOK
<1>3. PICK row : row = [bugs[d][n] EXCEPT !.assigned = to]
  OBVIOUS
<1>4. bugs' = [bugs EXCEPT ![d][n] = row]
  BY <1>1, <1>2, <1>3 DEF Bug
<1>5. /\ row \in Bug
      /\ row.by = bugs[d][n].by /\ row.moved = bugs[d][n].moved
      /\ row.alone = bugs[d][n].alone
  BY <1>2, <1>3 DEF Bug
<1>6. UNCHANGED <<today, files, agents, reqs>> /\ Count
  BY DEF Assign
<1>7. made' \in 0..MaxRequests /\ made' \in Nat /\ made <= made'
  BY <1>6, CountType, Types DEF TypeOK, Count
<1>8. bugs' \in [Days -> [Numbers -> Bug \cup {None}]] /\ BugInv'
  BY <1>2, <1>4, <1>5, <1>6, <1>7, RowEdited
<1>9. TypeOK'
  BY <1>6, <1>7, <1>8 DEF TypeOK, agents
<1>10. ReleaseInv'
  BY <1>6, ReleasesAreLeft
<1> QED
  BY <1>8, <1>9, <1>10

\* updateStatus to another status: the row keeps its report.
LEMMA ReopenIInv ==
  ASSUME IInv, NEW d \in Days, NEW n \in Numbers, Reopen(d, n)
  PROVE  IInv'
<1> USE DEF IInv
<1>1. bugs' = [bugs EXCEPT ![d][n].resolved = FALSE]
  BY DEF Reopen
<1>2. /\ bugs[d][n] # None /\ bugs[d][n] \in Bug
      /\ bugs \in [Days -> [Numbers -> Bug \cup {None}]]
  BY Types DEF Reopen, TypeOK
<1>3. PICK row : row = [bugs[d][n] EXCEPT !.resolved = FALSE]
  OBVIOUS
<1>4. bugs' = [bugs EXCEPT ![d][n] = row]
  BY <1>1, <1>2, <1>3 DEF Bug
<1>5. /\ row \in Bug
      /\ row.by = bugs[d][n].by /\ row.moved = bugs[d][n].moved
      /\ row.alone = bugs[d][n].alone
  BY <1>2, <1>3 DEF Bug
<1>6. UNCHANGED <<today, files, agents, reqs>> /\ Count
  BY DEF Reopen
<1>7. made' \in 0..MaxRequests /\ made' \in Nat /\ made <= made'
  BY <1>6, CountType, Types DEF TypeOK, Count
<1>8. bugs' \in [Days -> [Numbers -> Bug \cup {None}]] /\ BugInv'
  BY <1>2, <1>4, <1>5, <1>6, <1>7, RowEdited
<1>9. TypeOK'
  BY <1>6, <1>7, <1>8 DEF TypeOK, agents
<1>10. ReleaseInv'
  BY <1>6, ReleasesAreLeft
<1> QED
  BY <1>8, <1>9, <1>10

\* updateStatus to "resolu", the write: the row keeps its report.
LEMMA ResolveIInv ==
  ASSUME IInv, NEW r \in Requests, Resolve(r)
  PROVE  IInv'
<1> USE DEF IInv
<1>1. PICK d, n : d = reqs[r].day /\ n = reqs[r].number
  OBVIOUS
<1>2. d \in Days /\ n \in Numbers
  BY <1>1, RequestForms, Types DEF Resolve
<1>3. bugs' = [bugs EXCEPT ![d][n].resolved = TRUE]
  BY <1>1 DEF Resolve
<1>4. bugs[d][n] # None
  BY <1>1 DEF Resolve, BugInv, ResolvingAreFiled
<1>5. /\ bugs[d][n] \in Bug
      /\ bugs \in [Days -> [Numbers -> Bug \cup {None}]]
  BY <1>2, <1>4, Types DEF TypeOK
<1>6. PICK row : row = [bugs[d][n] EXCEPT !.resolved = TRUE]
  OBVIOUS
<1>7. bugs' = [bugs EXCEPT ![d][n] = row]
  BY <1>2, <1>3, <1>5, <1>6 DEF Bug
<1>8. /\ row \in Bug
      /\ row.by = bugs[d][n].by /\ row.moved = bugs[d][n].moved
      /\ row.alone = bugs[d][n].alone
  BY <1>5, <1>6 DEF Bug
<1>9. UNCHANGED <<today, files, agents, made>> /\ Finish(r)
  BY DEF Resolve, Finish
<1>10. /\ reqs' \in [Requests -> Request]
       /\ \A q \in Requests : reqs'[q] = reqs[q] \/ reqs'[q].pc = "idle"
  BY <1>9, FinishType DEF TypeOK, Idle
<1>11. bugs' \in [Days -> [Numbers -> Bug \cup {None}]] /\ BugInv'
  <2>1. made' \in Nat /\ made <= made'
    BY <1>9, Types
  <2> QED
    BY <1>2, <1>4, <1>7, <1>8, <1>9, <1>10, <2>1, RowEdited
<1>12. TypeOK'
  BY <1>9, <1>10, <1>11 DEF TypeOK, agents
<1>13. ReleaseInv'
  <2>1. \A q \in Requests :
          \/ reqs'[q] = reqs[q]
          \/ reqs'[q].pc \notin {"register", "erase", "reset", "mark"}
    BY <1>10
  <2> QED
    BY <1>9, <2>1, ReleasesAreLeft
<1> QED
  BY <1>11, <1>12, <1>13

\* updateStatus to "resolu", the read: the bug is there.
LEMMA UpdateStatusIInv ==
  ASSUME IInv, NEW r \in Requests, NEW d \in Days, NEW n \in Numbers,
         UpdateStatus(r, d, n)
  PROVE  IInv'
<1> USE DEF IInv
<1>1. bugs[d][n] # None
  BY DEF UpdateStatus
<1> DEFINE L == [pc |-> "status", day |-> d, number |-> n]
<1>2. L \in Request
  BY DEF Request
<1>3. Begin(r, L) /\ UNCHANGED <<tracker, agents>>
  BY DEF UpdateStatus
<1>4. /\ reqs' \in [Requests -> Request] /\ reqs'[r] = L
      /\ \A q \in Requests \ {r} : reqs'[q] = reqs[q]
  <2>1. reqs \in [Requests -> Request]
    BY DEF TypeOK
  <2> HIDE DEF L
  <2> QED
    BY <1>2, <1>3, <2>1, BeginType
<1>5. made' \in 0..MaxRequests /\ made' \in Nat /\ made <= made'
  BY <1>3, CountType, Types DEF TypeOK, Begin, Count
<1>6. reqs'[r].pc = "status" /\ reqs'[r].day = d /\ reqs'[r].number = n
  BY <1>4
<1> HIDE DEF L
<1>7. TypeOK'
  BY <1>3, <1>4, <1>5 DEF TypeOK, tracker, agents
<1>8. BugInv'
  <2>1. \A q \in Requests :
           \/ reqs'[q] = reqs[q]
           \/ reqs'[q].pc \notin {"move", "insert", "status"}
           \/ /\ reqs'[q].pc = "status"
              /\ bugs[reqs'[q].day][reqs'[q].number] # None
    BY <1>1, <1>4, <1>6
  <2>2. bugs' = bugs /\ files' = files
    BY <1>3 DEF tracker
  <2> QED
    BY <1>5, <2>1, <2>2, BugsAreLeft
<1>9. ReleaseInv'
  <2>1. \A q \in Requests :
          \/ reqs'[q] = reqs[q]
          \/ reqs'[q].pc \notin {"register", "erase", "reset", "mark"}
    BY <1>4, <1>6
  <2> QED
    BY <1>3, <2>1, ReleasesAreLeft
<1> QED
  BY <1>7, <1>8, <1>9

\* The day changes: no report changes its day.
LEMMA MidnightIInv ==
  ASSUME IInv, Midnight
  PROVE  IInv'
<1> USE DEF IInv
<1>1. today' \in Days
  BY SupportAssumption DEF Midnight, TypeOK, Days
<1>2. UNCHANGED <<bugs, files, agents, reqs, made>>
  BY DEF Midnight
<1>3. TypeOK'
  BY <1>1, <1>2 DEF TypeOK, agents
<1>4. BugInv' /\ ReleaseInv'
  BY <1>2, BugsAreLeft, ReleasesAreLeft, Types
<1> QED
  BY <1>3, <1>4


----------------------------------------------------------------------------
(* Steps of the releases                                                   *)

\* The sets whose sizes RoomIsKept compares are finite.
LEMMA Finite ==
  ASSUME TypeOK
  PROVE  /\ IsFiniteSet(Free) /\ Cardinality(Free) \in Nat
         /\ IsFiniteSet(Registering) /\ Cardinality(Registering) \in Nat
         /\ Free \in SUBSET Nat /\ Registering \subseteq Requests
<1>1. IsFiniteSet(1..MaxReleases) /\ Free \subseteq 1..MaxReleases
  BY SupportAssumption, FS_Interval, Types DEF Free
<1>2. IsFiniteSet(Requests) /\ Registering \subseteq Requests
  BY SupportAssumption DEF Registering
<1>3. IsFiniteSet(Free) /\ IsFiniteSet(Registering)
  BY <1>1, <1>2, FS_Subset
<1>4. Free \in SUBSET Nat
  BY <1>1
<1> QED
  BY <1>2, <1>3, <1>4, FS_CardinalityType

\* NewRelease fills a free row; the others stay as they are.
LEMMA NewReleaseMeans ==
  ASSUME TypeOK, Free # {}, NEW k \in Keys, NEW blind \in BOOLEAN,
         NewRelease(k, blind)
  PROVE  /\ releases' \in [1..MaxReleases -> Release]
         /\ Cardinality(Free)' = Cardinality(Free) - 1
         /\ \E i \in 1..MaxReleases :
              /\ releases[i].life = "none"
              /\ releases'[i].life = "here" /\ releases'[i].key = k
              /\ releases'[i].latest = FALSE /\ releases'[i].blind = blind
              /\ \A j \in (1..MaxReleases) \ {i} : releases'[j] = releases[j]
<1>1. PICK i : i = Min(Free)
  OBVIOUS
<1>2. i \in Free /\ i \in 1..MaxReleases /\ releases[i].life = "none"
  <2>1. i \in Free
    BY <1>1, MinIsIn, Finite
  <2> QED
    BY <2>1, Types DEF Free
<1> DEFINE new == [life |-> "here", key |-> k, latest |-> FALSE,
                   blind |-> blind]
<1>3. new \in Release
  BY DEF Release
<1>4. /\ releases' = [releases EXCEPT ![i] = new]
      /\ releases \in [1..MaxReleases -> Release]
  BY <1>1 DEF NewRelease, TypeOK
<1>5. /\ releases' \in [1..MaxReleases -> Release] /\ releases'[i] = new
      /\ \A j \in (1..MaxReleases) \ {i} : releases'[j] = releases[j]
  <2> HIDE DEF new
  <2> QED
    BY <1>2, <1>3, <1>4
<1>6. /\ releases'[i].life = "here" /\ releases'[i].key = k
      /\ releases'[i].latest = FALSE /\ releases'[i].blind = blind
  BY <1>5
<1> HIDE DEF new
<1>7. Free' = Free \ {i}
  <2>1. DOMAIN releases' = 1..MaxReleases /\ DOMAIN releases = 1..MaxReleases
    BY <1>4, <1>5
  <2> QED
    BY <1>2, <1>5, <1>6, <2>1 DEF Free
<1>8. Cardinality(Free \ {i}) = Cardinality(Free) - 1
  BY <1>2, Finite, FS_RemoveElement
<1> QED
  BY <1>2, <1>5, <1>6, <1>7, <1>8

\* Requests that are counted.
LEMMA CountGrows ==
  ASSUME TypeOK, Count
  PROVE  made' \in 0..MaxRequests /\ made' \in Nat /\ made <= made'
BY CountType, Types DEF TypeOK, Count

\* uploadRelease, the file: the name is used once more, and the file is there.
LEMMA UploadReleaseIInv ==
  ASSUME IInv, NEW r \in Requests, NEW k \in Keys, UploadRelease(r, k)
  PROVE  IInv'
<1> USE DEF IInv
<1>1. /\ Room /\ Use(k) /\ store' = store \cup {k}
      /\ UNCHANGED <<tracker, releases, raced>>
      /\ Begin(r, [pc |-> "register", key |-> k])
      /\ Count /\ reqs[r] = Idle
  BY DEF UploadRelease, Begin
<1> DEFINE L == [pc |-> "register", key |-> k]
<1>2. L \in Request
  BY DEF Request
<1>3. /\ reqs' \in [Requests -> Request] /\ reqs'[r] = L
      /\ \A q \in Requests \ {r} : reqs'[q] = reqs[q]
  <2>1. reqs \in [Requests -> Request] /\ Begin(r, L)
    BY <1>1 DEF TypeOK
  <2> HIDE DEF L
  <2> QED
    BY <1>2, <2>1, BeginType
<1>4. /\ reqs'[r].pc = "register" /\ reqs'[r].key = k
      /\ reqs[r].pc = "idle"
  BY <1>1, <1>3 DEF Idle
<1> HIDE DEF L
<1>5. made' \in 0..MaxRequests /\ made' \in Nat /\ made <= made'
  BY <1>1, CountGrows
<1>6. /\ uses' \in [Keys -> Nat] /\ uses'[k] = uses[k] + 1
      /\ uses[k] \in Nat
      /\ \A c \in Keys \ {k} : uses'[c] = uses[c]
  BY <1>1 DEF Use, TypeOK
<1>7. TypeOK'
  BY <1>1, <1>3, <1>5, <1>6 DEF TypeOK, tracker
<1>8. BugInv'
  <2>1. \A q \in Requests :
           \/ reqs'[q] = reqs[q]
           \/ reqs'[q].pc \notin {"move", "insert", "status"}
    BY <1>3, <1>4
  <2>2. bugs' = bugs /\ files' = files
    BY <1>1 DEF tracker
  <2> QED
    BY <1>5, <2>1, <2>2, BugsAreLeft
<1>9. ReleaseInv'
  <2> USE DEF ReleaseInv
  <2>0. /\ \A i \in DOMAIN releases : Created(i) =>
             releases[i].key \in Keys /\ uses[releases[i].key] >= 1
        /\ \A q \in Requests \ {r} : IsRegistering(q) =>
             reqs[q].key \in Keys /\ uses[reqs[q].key] >= 1
    BY RequestForms, Types DEF NamesAreCounted, IsRegistering
  <2>1. RoomIsKept'
    <3>1. Registering' = Registering \cup {r} /\ r \notin Registering
      BY <1>3, <1>4 DEF Registering
    <3>2. Cardinality(Registering \cup {r}) = Cardinality(Registering) + 1
      BY <3>1, Finite, FS_AddElement
    <3>3. Free' = Free
      BY <1>1 DEF Free
    <3> QED
      BY <1>1, <3>1, <3>2, <3>3, Finite DEF Room, RoomIsKept
  <2>2. NamesAreCounted'
    <3>1. \A c \in Keys : uses[c] >= 1 => uses'[c] >= 1 /\ (c = k => uses'[c] # 1)
                                          /\ (uses'[c] = 1 => uses[c] = 1)
      BY <1>6, Types
    <3>2. /\ \A i \in DOMAIN releases : Created(i) =>
               releases[i].key \in Keys /\ uses'[releases[i].key] >= 1
          /\ \A q \in Requests : IsRegistering(q)' => uses'[reqs'[q].key] >= 1
      BY <1>3, <1>4, <1>6, <2>0, <3>1 DEF IsRegistering
    <3>3. \A i, j \in DOMAIN releases :
            /\ Created(i) /\ Created(j) /\ releases[i].key = releases[j].key
            /\ uses'[releases[i].key] = 1
            => i = j
      BY <2>0, <3>1 DEF NamesAreCounted
    <3>4. \A p, q \in Requests :
            /\ IsRegistering(p)' /\ IsRegistering(q)'
            /\ reqs'[p].key = reqs'[q].key /\ uses'[reqs'[p].key] = 1
            => p = q
      BY <1>3, <1>4, <2>0, <3>1 DEF NamesAreCounted, IsRegistering
    <3>5. \A i \in DOMAIN releases, q \in Requests :
            ~ /\ Created(i) /\ IsRegistering(q)'
              /\ releases[i].key = reqs'[q].key /\ uses'[reqs'[q].key] = 1
      BY <1>3, <1>4, <2>0, <3>1 DEF NamesAreCounted, IsRegistering
    <3> QED
      BY <1>1, <3>2, <3>3, <3>4, <3>5 DEF NamesAreCounted, Created
  <2>3. ErasedAreGone'
    BY <1>1, <1>3, <1>4 DEF ErasedAreGone
  <2>4. UploadsAreStored'
    BY <1>1, <1>3, <1>4, <1>6, <2>0 DEF UploadsAreStored, IsRegistering
  <2>5. ReleasesHaveFiles'
    BY <1>1, <1>6, <2>0, Types DEF ReleasesHaveFiles, Here, Created
  <2>6. LoneChoice'
    BY <1>1, <1>3, <1>4 DEF LoneChoice, IsChoosing
  <2>7. LatestIsUnique'
    BY <1>1 DEF LatestIsUnique
  <2> QED
    BY <2>1, <2>2, <2>3, <2>4, <2>5, <2>6, <2>7
<1> QED
  BY <1>7, <1>8, <1>9

\* uploadRelease, the row: the file was stored before.
LEMMA InsertReleaseIInv ==
  ASSUME IInv, NEW r \in Requests, InsertRelease(r)
  PROVE  IInv'
<1> USE DEF IInv
<1>1. /\ reqs[r].pc = "register" /\ Finish(r)
      /\ NewRelease(reqs[r].key, FALSE)
      /\ UNCHANGED <<tracker, store, uses, raced, made>>
  BY DEF InsertRelease, Finish
<1>2. PICK k : k = reqs[r].key
  OBVIOUS
<1>3. k \in Keys
  BY <1>1, <1>2, RequestForms, Types
<1>4. /\ reqs' \in [Requests -> Request]
      /\ reqs'[r].pc = "idle"
      /\ \A q \in Requests \ {r} : reqs'[q] = reqs[q]
  BY <1>1, FinishType DEF TypeOK, Idle
<1>5. /\ Registering' = Registering \ {r} /\ r \in Registering
      /\ Cardinality(Registering \ {r}) = Cardinality(Registering) - 1
  <2>1. Registering' = Registering \ {r} /\ r \in Registering
    BY <1>1, <1>4 DEF Registering
  <2> QED
    BY <2>1, Finite, FS_RemoveElement
<1>6. Cardinality(Free) \in Nat /\ Cardinality(Free) > 0 /\ Free # {}
  <2>1. Cardinality(Registering) > 0
    BY <1>5, Finite, FS_EmptySet
  <2>2. Cardinality(Free) > 0
    BY <2>1, Finite DEF ReleaseInv, RoomIsKept
  <2> QED
    BY <2>2, Finite, FS_EmptySet
<1>7. /\ releases' \in [1..MaxReleases -> Release]
      /\ Cardinality(Free)' = Cardinality(Free) - 1
      /\ \E i \in 1..MaxReleases :
           /\ releases[i].life = "none"
           /\ releases'[i].life = "here" /\ releases'[i].key = k
           /\ releases'[i].latest = FALSE /\ releases'[i].blind = FALSE
           /\ \A j \in (1..MaxReleases) \ {i} : releases'[j] = releases[j]
  <2>1. NewRelease(k, FALSE)
    BY <1>1, <1>2 DEF NewRelease
  <2> QED
    BY <1>3, <1>6, <2>1, NewReleaseMeans
<1>8. PICK i0 \in 1..MaxReleases :
        /\ releases[i0].life = "none"
        /\ releases'[i0].life = "here" /\ releases'[i0].key = k
        /\ releases'[i0].latest = FALSE /\ releases'[i0].blind = FALSE
        /\ \A j \in (1..MaxReleases) \ {i0} : releases'[j] = releases[j]
  BY <1>7
<1>9. DOMAIN releases = 1..MaxReleases /\ DOMAIN releases' = 1..MaxReleases
  BY <1>7, Types
<1>10. TypeOK'
  BY <1>1, <1>4, <1>7 DEF TypeOK, tracker
<1>11. BugInv'
  <2>1. \A q \in Requests :
           \/ reqs'[q] = reqs[q]
           \/ reqs'[q].pc \notin {"move", "insert", "status"}
    BY <1>4
  <2>2. bugs' = bugs /\ files' = files /\ made' \in Nat /\ made <= made'
    BY <1>1, Types DEF tracker
  <2> QED
    BY <2>1, <2>2, BugsAreLeft
<1>12. ReleaseInv'
  <2> USE DEF ReleaseInv
  <2>0. /\ \A q \in Requests : IsRegistering(q)' =>
             IsRegistering(q) /\ q # r /\ reqs'[q] = reqs[q]
        /\ \A i \in 1..MaxReleases : Created(i)' =>
             i = i0 \/ (Created(i) /\ releases'[i] = releases[i])
        /\ IsRegistering(r)
    BY <1>1, <1>4, <1>8 DEF IsRegistering, Created
  <2>1. RoomIsKept'
    BY <1>5, <1>6, <1>7, Finite DEF RoomIsKept
  <2>2. NamesAreCounted'
    <3>1. /\ \A i \in 1..MaxReleases : Created(i)' =>
               releases'[i].key \in Keys /\ uses[releases'[i].key] >= 1
          /\ \A q \in Requests : IsRegistering(q)' => uses[reqs'[q].key] >= 1
      BY <1>2, <1>3, <1>8, <1>9, <2>0 DEF NamesAreCounted
    <3>2. \A i, j \in 1..MaxReleases :
            /\ Created(i)' /\ Created(j)' /\ releases'[i].key = releases'[j].key
            /\ uses[releases'[i].key] = 1
            => i = j
      BY <1>2, <1>8, <1>9, <2>0 DEF NamesAreCounted
    <3>3. \A p, q \in Requests :
            /\ IsRegistering(p)' /\ IsRegistering(q)'
            /\ reqs'[p].key = reqs'[q].key /\ uses[reqs'[p].key] = 1
            => p = q
      BY <2>0 DEF NamesAreCounted
    <3>4. \A i \in 1..MaxReleases, q \in Requests :
            ~ /\ Created(i)' /\ IsRegistering(q)'
              /\ releases'[i].key = reqs'[q].key /\ uses[reqs'[q].key] = 1
      BY <1>2, <1>8, <1>9, <2>0 DEF NamesAreCounted
    <3> QED
      BY <1>1, <1>9, <3>1, <3>2, <3>3, <3>4 DEF NamesAreCounted
  <2>3. ErasedAreGone'
    BY <1>4, <1>8, <1>9 DEF ErasedAreGone
  <2>4. UploadsAreStored'
    BY <1>1, <2>0 DEF UploadsAreStored
  <2>5. ReleasesHaveFiles'
    <3> SUFFICES ASSUME NEW i \in Here', uses[releases'[i].key] = 1,
                        ~releases'[i].blind
                 PROVE  releases'[i].key \in store
      BY <1>1 DEF ReleasesHaveFiles
    <3>1. i \in 1..MaxReleases /\ releases'[i].life = "here"
      BY <1>9 DEF Here
    <3>2. CASE i = i0
      BY <1>2, <1>8, <2>0, <3>2 DEF UploadsAreStored
    <3>3. CASE i # i0
      BY <1>8, <1>9, <3>1, <3>3 DEF ReleasesHaveFiles, Here
    <3> QED
      BY <3>2, <3>3
  <2>6. LoneChoice'
    BY <1>4, <1>8, <1>9 DEF LoneChoice, IsChoosing
  <2>7. LatestIsUnique'
    BY <1>1, <1>8, <1>9 DEF LatestIsUnique
  <2> QED
    BY <2>1, <2>2, <2>3, <2>4, <2>5, <2>6, <2>7
<1> QED
  BY <1>10, <1>11, <1>12


\* The upload through an address of getPresignedUpload adds a file.
LEMMA DirectUploadIInv ==
  ASSUME IInv, NEW k \in Keys, DirectUpload(k)
  PROVE  IInv'
<1> USE DEF IInv
<1>1. /\ Count /\ store' = store \cup {k}
      /\ UNCHANGED <<tracker, releases, uses, raced, reqs>>
  BY DEF DirectUpload
<1>2. made' \in 0..MaxRequests /\ made' \in Nat /\ made <= made'
  BY <1>1, CountGrows
<1>3. TypeOK'
  BY <1>1, <1>2 DEF TypeOK, tracker
<1>4. BugInv'
  BY <1>1, <1>2, BugsAreLeft DEF tracker
<1>5. ReleaseInv'
  <2> USE <1>1 DEF ReleaseInv
  <2>1. RoomIsKept' /\ NamesAreCounted' /\ ErasedAreGone'
    BY DEF RoomIsKept, Free, Registering, NamesAreCounted, Created,
           IsRegistering, ErasedAreGone
  <2>2. UploadsAreStored' /\ ReleasesHaveFiles'
    BY DEF UploadsAreStored, ReleasesHaveFiles, IsRegistering, Here
  <2>3. LoneChoice' /\ LatestIsUnique'
    BY DEF LoneChoice, LatestIsUnique, IsChoosing
  <2> QED
    BY <2>1, <2>2, <2>3
<1> QED
  BY <1>3, <1>4, <1>5

\* confirmRelease: a row is filled and the name is used once more.
LEMMA ConfirmReleaseIInv ==
  ASSUME IInv, NEW k \in Keys, ConfirmRelease(k)
  PROVE  IInv'
<1> USE DEF IInv
<1> DEFINE b == k \notin store
<1>0. b \in BOOLEAN
  BY Zenon
<1>1. /\ Count /\ Room /\ Use(k) /\ NewRelease(k, b)
      /\ UNCHANGED <<tracker, store, raced, reqs>>
  BY DEF ConfirmRelease
<1>2. made' \in 0..MaxRequests /\ made' \in Nat /\ made <= made'
  BY <1>1, CountGrows
<1>3. /\ uses' \in [Keys -> Nat] /\ uses'[k] = uses[k] + 1
      /\ uses[k] \in Nat
      /\ \A c \in Keys \ {k} : uses'[c] = uses[c]
  BY <1>1 DEF Use, TypeOK
<1>4. Free # {}
  BY <1>1, Finite, FS_EmptySet DEF Room
<1>5. PICK blind : blind = b
  OBVIOUS
<1>6. /\ releases' \in [1..MaxReleases -> Release]
      /\ Cardinality(Free)' = Cardinality(Free) - 1
      /\ \E i \in 1..MaxReleases :
           /\ releases[i].life = "none"
           /\ releases'[i].life = "here" /\ releases'[i].key = k
           /\ releases'[i].latest = FALSE /\ releases'[i].blind = blind
           /\ \A j \in (1..MaxReleases) \ {i} : releases'[j] = releases[j]
  <2>1. NewRelease(k, blind) /\ blind \in BOOLEAN
    BY <1>0, <1>1, <1>5 DEF NewRelease
  <2> HIDE DEF b
  <2>2. CASE blind = TRUE
    <3>1. NewRelease(k, TRUE)
      BY <2>1, <2>2
    <3>2. /\ releases' \in [1..MaxReleases -> Release]
          /\ Cardinality(Free)' = Cardinality(Free) - 1
          /\ \E i \in 1..MaxReleases :
               /\ releases[i].life = "none"
               /\ releases'[i].life = "here" /\ releases'[i].key = k
               /\ releases'[i].latest = FALSE /\ releases'[i].blind = TRUE
               /\ \A j \in (1..MaxReleases) \ {i} : releases'[j] = releases[j]
      BY <1>4, <3>1, NewReleaseMeans
    <3> QED
      BY <2>2, <3>2
  <2>3. CASE blind = FALSE
    <3>1. NewRelease(k, FALSE)
      BY <2>1, <2>3
    <3>2. /\ releases' \in [1..MaxReleases -> Release]
          /\ Cardinality(Free)' = Cardinality(Free) - 1
          /\ \E i \in 1..MaxReleases :
               /\ releases[i].life = "none"
               /\ releases'[i].life = "here" /\ releases'[i].key = k
               /\ releases'[i].latest = FALSE /\ releases'[i].blind = FALSE
               /\ \A j \in (1..MaxReleases) \ {i} : releases'[j] = releases[j]
      BY <1>4, <3>1, NewReleaseMeans
    <3> QED
      BY <2>3, <3>2
  <2> QED
    BY <2>1, <2>2, <2>3
<1>7. PICK i0 \in 1..MaxReleases :
        /\ releases[i0].life = "none"
        /\ releases'[i0].life = "here" /\ releases'[i0].key = k
        /\ releases'[i0].latest = FALSE /\ releases'[i0].blind = blind
        /\ \A j \in (1..MaxReleases) \ {i0} : releases'[j] = releases[j]
  BY <1>6
<1>8. DOMAIN releases = 1..MaxReleases /\ DOMAIN releases' = 1..MaxReleases
  BY <1>6, Types
<1>9. TypeOK'
  BY <1>1, <1>2, <1>3, <1>6 DEF TypeOK, tracker
<1>10. BugInv'
  BY <1>1, <1>2, BugsAreLeft DEF tracker
<1>11. ReleaseInv'
  <2> USE DEF ReleaseInv
  <2>0. /\ \A i \in 1..MaxReleases : Created(i) =>
             releases[i].key \in Keys /\ uses[releases[i].key] >= 1
        /\ \A q \in Requests : IsRegistering(q) =>
             reqs[q].key \in Keys /\ uses[reqs[q].key] >= 1
        /\ \A q \in Requests : IsRegistering(q)' <=> IsRegistering(q)
        /\ \A i \in 1..MaxReleases : Created(i)' =>
             i = i0 \/ (Created(i) /\ releases'[i] = releases[i])
    <3>1. \A i \in 1..MaxReleases : Created(i) =>
             releases[i].key \in Keys /\ uses[releases[i].key] >= 1
      BY <1>8 DEF NamesAreCounted
    <3>2. \A q \in Requests : IsRegistering(q) =>
             reqs[q].key \in Keys /\ uses[reqs[q].key] >= 1
      BY RequestForms, Types DEF NamesAreCounted, IsRegistering
    <3>3. \A i \in 1..MaxReleases : Created(i)' =>
             i = i0 \/ (Created(i) /\ releases'[i] = releases[i])
      BY <1>7 DEF Created
    <3> QED
      BY <1>1, <3>1, <3>2, <3>3 DEF IsRegistering
  <2>00. \A c \in Keys : uses[c] >= 1 => uses'[c] >= 1 /\ (c = k => uses'[c] # 1)
                                         /\ (uses'[c] = 1 => uses[c] = 1)
    BY <1>3, Types
  <2>1. RoomIsKept'
    <3>1. Registering' = Registering
      BY <1>1 DEF Registering
    <3> QED
      BY <1>1, <1>6, <3>1, Finite DEF RoomIsKept, Room
  <2>2. NamesAreCounted'
    <3>1. /\ \A i \in 1..MaxReleases : Created(i)' =>
               releases'[i].key \in Keys /\ uses'[releases'[i].key] >= 1
          /\ \A q \in Requests : IsRegistering(q) => uses'[reqs[q].key] >= 1
      BY <1>3, <1>7, <2>0, <2>00
    <3>2. \A i, j \in 1..MaxReleases :
            /\ Created(i)' /\ Created(j)' /\ releases'[i].key = releases'[j].key
            /\ uses'[releases'[i].key] = 1
            => i = j
      BY <1>7, <1>8, <2>0, <2>00 DEF NamesAreCounted
    <3>3. \A p, q \in Requests :
            /\ IsRegistering(p) /\ IsRegistering(q)
            /\ reqs[p].key = reqs[q].key /\ uses'[reqs[p].key] = 1
            => p = q
      BY <2>0, <2>00 DEF NamesAreCounted
    <3>4. \A i \in 1..MaxReleases, q \in Requests :
            ~ /\ Created(i)' /\ IsRegistering(q)
              /\ releases'[i].key = reqs[q].key /\ uses'[reqs[q].key] = 1
      BY <1>7, <1>8, <2>0, <2>00 DEF NamesAreCounted
    <3> QED
      BY <1>1, <1>8, <2>0, <3>1, <3>2, <3>3, <3>4 DEF NamesAreCounted
  <2>3. ErasedAreGone'
    BY <1>1, <1>7, <1>8 DEF ErasedAreGone
  <2>4. UploadsAreStored'
    BY <1>1, <2>0, <2>00 DEF UploadsAreStored
  <2>5. ReleasesHaveFiles'
    <3> SUFFICES ASSUME NEW i \in Here', uses'[releases'[i].key] = 1,
                        ~releases'[i].blind
                 PROVE  releases'[i].key \in store
      BY <1>1 DEF ReleasesHaveFiles
    <3>1. i \in 1..MaxReleases /\ releases'[i].life = "here"
      BY <1>8 DEF Here
    <3>2. CASE i = i0
      BY <1>5, <1>7, <3>2
    <3>3. CASE i # i0
      <4>1. releases'[i] = releases[i] /\ Created(i) /\ i \in Here
        BY <1>7, <1>8, <3>1, <3>3 DEF Here, Created
      <4> QED
        BY <2>0, <2>00, <3>1, <4>1 DEF ReleasesHaveFiles
    <3> QED
      BY <3>2, <3>3
  <2>6. LoneChoice'
    BY <1>1, <1>7, <1>8 DEF LoneChoice, IsChoosing
  <2>7. LatestIsUnique'
    BY <1>1, <1>7, <1>8 DEF LatestIsUnique
  <2> QED
    BY <2>1, <2>2, <2>3, <2>4, <2>5, <2>6, <2>7
<1> QED
  BY <1>9, <1>10, <1>11

\* deleteRelease, the row: its file is erased when it is gone.
LEMMA DeleteReleaseIInv ==
  ASSUME IInv, NEW r \in Requests, NEW i0 \in DOMAIN releases,
         DeleteRelease(r, i0)
  PROVE  IInv'
<1> USE DEF IInv
<1>1. /\ releases[i0].life = "here"
      /\ releases' = [releases EXCEPT ![i0].life = "gone", ![i0].latest = FALSE]
      /\ Begin(r, [pc |-> "erase", key |-> releases[i0].key])
      /\ Count /\ reqs[r] = Idle
      /\ UNCHANGED <<tracker, store, uses, raced>>
  BY DEF DeleteRelease, Begin
<1>2. /\ i0 \in 1..MaxReleases /\ releases[i0] \in Release
      /\ DOMAIN releases = 1..MaxReleases
      /\ releases \in [1..MaxReleases -> Release]
  BY Types DEF TypeOK
<1> DEFINE new == [releases[i0] EXCEPT !.life = "gone", !.latest = FALSE]
<1>3. /\ new \in Release /\ new.life = "gone" /\ new.latest = FALSE
      /\ new.key = releases[i0].key
  BY <1>2 DEF Release
<1>4. /\ releases' \in [1..MaxReleases -> Release] /\ releases'[i0] = new
      /\ \A j \in (1..MaxReleases) \ {i0} : releases'[j] = releases[j]
  <2>1. releases' = [releases EXCEPT ![i0] = new]
    BY <1>1, <1>2
  <2> HIDE DEF new
  <2> QED
    BY <1>2, <1>3, <2>1
<1> HIDE DEF new
<1>5. PICK k : k = releases[i0].key
  OBVIOUS
<1>6. k \in Keys
  BY <1>1, <1>5 DEF ReleaseInv, NamesAreCounted, Created
<1> DEFINE L == [pc |-> "erase", key |-> k]
<1>7. L \in Request
  BY <1>6 DEF Request
<1>8. /\ reqs' \in [Requests -> Request] /\ reqs'[r] = L
      /\ \A q \in Requests \ {r} : reqs'[q] = reqs[q]
  <2>1. reqs \in [Requests -> Request] /\ Begin(r, L)
    BY <1>1, <1>5 DEF TypeOK, Begin
  <2> HIDE DEF L
  <2> QED
    BY <1>7, <2>1, BeginType
<1>9. reqs'[r].pc = "erase" /\ reqs'[r].key = k
  BY <1>8
<1> HIDE DEF L
<1>10. made' \in 0..MaxRequests /\ made' \in Nat /\ made <= made'
  BY <1>1, CountGrows
<1>11. DOMAIN releases' = 1..MaxReleases
  BY <1>4
<1>12. TypeOK'
  BY <1>1, <1>4, <1>8, <1>10 DEF TypeOK, tracker
<1>13. BugInv'
  <2>1. \A q \in Requests :
           \/ reqs'[q] = reqs[q]
           \/ reqs'[q].pc \notin {"move", "insert", "status"}
    BY <1>8, <1>9
  <2>2. bugs' = bugs /\ files' = files
    BY <1>1 DEF tracker
  <2> QED
    BY <1>10, <2>1, <2>2, BugsAreLeft
<1>14. ReleaseInv'
  <2> USE DEF ReleaseInv
  <2>0. /\ \A q \in Requests : IsRegistering(q)' =>
             IsRegistering(q) /\ reqs'[q] = reqs[q]
        /\ \A i \in 1..MaxReleases : releases'[i].key = releases[i].key
        /\ \A i \in 1..MaxReleases : Created(i)' <=> Created(i)
    <3>1. \A q \in Requests : IsRegistering(q)' =>
             IsRegistering(q) /\ reqs'[q] = reqs[q]
      BY <1>8, <1>9 DEF IsRegistering
    <3> QED
      BY <1>1, <1>3, <1>4, <3>1 DEF Created
  <2>1. RoomIsKept'
    <3>1. Free' = Free
      BY <1>1, <1>2, <1>3, <1>4, <1>11 DEF Free
    <3>2. Registering' \subseteq Registering
      BY <2>0 DEF Registering, IsRegistering
    <3> QED
      BY <3>1, <3>2, FewerUploads
  <2>2. NamesAreCounted'
    BY <1>1, <1>2, <1>11, <2>0 DEF NamesAreCounted
  <2>3. ErasedAreGone'
    <3> SUFFICES ASSUME NEW q \in Requests, reqs'[q].pc = "erase"
                 PROVE  \E i \in 1..MaxReleases :
                          releases'[i].life = "gone"
                          /\ releases'[i].key = reqs'[q].key
      BY <1>11 DEF ErasedAreGone
    <3>1. CASE q = r
      BY <1>2, <1>3, <1>4, <1>5, <1>9, <3>1
    <3>2. CASE q # r
      <4>1. PICK i \in 1..MaxReleases :
              releases[i].life = "gone" /\ releases[i].key = reqs[q].key
        BY <1>2, <1>8, <3>2 DEF ErasedAreGone
      <4>2. i # i0 /\ reqs'[q] = reqs[q]
        BY <1>1, <1>8, <3>2, <4>1
      <4> QED
        BY <1>4, <4>1, <4>2
    <3> QED
      BY <3>1, <3>2
  <2>4. UploadsAreStored'
    BY <1>1, <2>0 DEF UploadsAreStored
  <2>5. ReleasesHaveFiles'
    BY <1>1, <1>2, <1>3, <1>4, <1>11 DEF ReleasesHaveFiles, Here
  <2>6. LoneChoice'
    BY <1>2, <1>3, <1>4, <1>8, <1>9, <1>11 DEF LoneChoice, IsChoosing
  <2>7. LatestIsUnique'
    BY <1>1, <1>2, <1>3, <1>4, <1>11 DEF LatestIsUnique
  <2> QED
    BY <2>1, <2>2, <2>3, <2>4, <2>5, <2>6, <2>7
<1> QED
  BY <1>12, <1>13, <1>14

\* deleteRelease, the file: a name that was used once is that of a release
\* which is gone.
LEMMA DeleteFileIInv ==
  ASSUME IInv, NEW r \in Requests, DeleteFile(r)
  PROVE  IInv'
<1> USE DEF IInv
<1>1. /\ reqs[r].pc = "erase" /\ Finish(r)
      /\ store' \subseteq store /\ store \subseteq store' \cup {reqs[r].key}
      /\ UNCHANGED <<tracker, releases, uses, raced, made>>
  BY DEF DeleteFile, Finish
<1>2. /\ reqs' \in [Requests -> Request]
      /\ reqs'[r].pc = "idle"
      /\ \A q \in Requests \ {r} : reqs'[q] = reqs[q]
  BY <1>1, FinishType DEF TypeOK, Idle
<1>3. PICK g \in DOMAIN releases :
        releases[g].life = "gone" /\ releases[g].key = reqs[r].key
  BY <1>1 DEF ReleaseInv, ErasedAreGone
<1>4. TypeOK'
  BY <1>1, <1>2 DEF TypeOK, tracker
<1>5. BugInv'
  <2>1. \A q \in Requests :
           \/ reqs'[q] = reqs[q]
           \/ reqs'[q].pc \notin {"move", "insert", "status"}
    BY <1>2
  <2>2. bugs' = bugs /\ files' = files /\ made' \in Nat /\ made <= made'
    BY <1>1, Types DEF tracker
  <2> QED
    BY <2>1, <2>2, BugsAreLeft
<1>6. ReleaseInv'
  <2> USE DEF ReleaseInv
  <2>0. /\ \A q \in Requests : IsRegistering(q)' =>
             IsRegistering(q) /\ reqs'[q] = reqs[q]
        /\ \A i \in DOMAIN releases : Created(i)' <=> Created(i)
    BY <1>1, <1>2 DEF IsRegistering, Created
  <2>1. RoomIsKept'
    <3>1. Free' = Free
      BY <1>1 DEF Free
    <3>2. Registering' \subseteq Registering
      BY <2>0 DEF Registering, IsRegistering
    <3> QED
      BY <3>1, <3>2, FewerUploads
  <2>2. NamesAreCounted'
    BY <1>1, <2>0 DEF NamesAreCounted
  <2>3. ErasedAreGone'
    BY <1>1, <1>2 DEF ErasedAreGone
  <2>4. UploadsAreStored'
    <3> SUFFICES ASSUME NEW q \in Requests, IsRegistering(q)',
                        uses[reqs'[q].key] = 1
                 PROVE  reqs'[q].key \in store'
      BY <1>1 DEF UploadsAreStored
    <3>1. reqs[q].key # reqs[r].key
      BY <1>3, <2>0 DEF NamesAreCounted, Created
    <3> QED
      BY <1>1, <2>0, <3>1 DEF UploadsAreStored
  <2>5. ReleasesHaveFiles'
    <3> SUFFICES ASSUME NEW i \in Here, uses[releases[i].key] = 1,
                        ~releases[i].blind
                 PROVE  releases[i].key \in store'
      BY <1>1 DEF ReleasesHaveFiles, Here
    <3>1. i \in DOMAIN releases /\ releases[i].life = "here"
      BY DEF Here
    <3>2. releases[i].key # reqs[r].key
      BY <1>3, <3>1 DEF NamesAreCounted, Created
    <3> QED
      BY <1>1, <3>2 DEF ReleasesHaveFiles
  <2>6. LoneChoice'
    BY <1>1, <1>2 DEF LoneChoice, IsChoosing
  <2>7. LatestIsUnique'
    BY <1>1 DEF LatestIsUnique
  <2> QED
    BY <2>1, <2>2, <2>3, <2>4, <2>5, <2>6, <2>7
<1> QED
  BY <1>4, <1>5, <1>6


\* Steps of setLatest write nothing but which releases are the latest.
LEMMA ChoiceKeepsNames ==
  ASSUME IInv, UNCHANGED <<store, uses>>,
         DOMAIN releases' = 1..MaxReleases,
         \A i \in 1..MaxReleases :
           /\ releases'[i].life = releases[i].life
           /\ releases'[i].key = releases[i].key
           /\ releases'[i].blind = releases[i].blind,
         \A q \in Requests :
           \/ reqs'[q] = reqs[q]
           \/ reqs'[q].pc \notin {"register", "erase"}
  PROVE  /\ RoomIsKept' /\ NamesAreCounted' /\ ErasedAreGone'
         /\ UploadsAreStored' /\ ReleasesHaveFiles'
<1> USE DEF IInv, ReleaseInv
<1>0. DOMAIN releases = 1..MaxReleases
  BY Types
<1>1. /\ \A q \in Requests : IsRegistering(q)' =>
           IsRegistering(q) /\ reqs'[q] = reqs[q]
      /\ \A i \in 1..MaxReleases : Created(i)' <=> Created(i)
  BY DEF IsRegistering, Created
<1>2. RoomIsKept'
  <2>1. Free' = Free
    BY <1>0 DEF Free
  <2>2. Registering' \subseteq Registering
    BY <1>1 DEF Registering, IsRegistering
  <2> QED
    BY <2>1, <2>2, FewerUploads
<1>3. NamesAreCounted'
  BY <1>0, <1>1 DEF NamesAreCounted
<1>4. ErasedAreGone'
  BY <1>0 DEF ErasedAreGone
<1>5. UploadsAreStored'
  BY <1>1 DEF UploadsAreStored
<1>6. ReleasesHaveFiles'
  BY <1>0 DEF ReleasesHaveFiles, Here
<1> QED
  BY <1>2, <1>3, <1>4, <1>5, <1>6

\* setLatest, the read: a choice that begins alone is the only one.
LEMMA SetLatestIInv ==
  ASSUME IInv, NEW r \in Requests, NEW i0 \in DOMAIN releases, SetLatest(r, i0)
  PROVE  IInv'
<1> USE DEF IInv
<1> DEFINE G == {"reset", "mark"}
           lone == Nobody(G)
<1>0. lone \in BOOLEAN
  BY Zenon DEF Nobody
<1>1. /\ BeginAmong(r, G, [pc |-> "reset", id |-> i0, alone |-> lone])
      /\ UNCHANGED <<tracker, agents>>
  BY DEF SetLatest
<1>2. Count /\ i0 \in 1..MaxReleases /\ DOMAIN releases = 1..MaxReleases
  BY <1>1, Types DEF BeginAmong
<1> HIDE DEF lone
<1> DEFINE L == [pc |-> "reset", id |-> i0, alone |-> lone]
           C == [pc : {"reset", "mark"}, id : 1..MaxReleases, alone : BOOLEAN]
<1>3. L \in C /\ C \subseteq Request
  BY <1>0, <1>2 DEF Request
<1>4. /\ reqs' \in [Requests -> Request]
      /\ reqs'[r] = L
      /\ \A q \in Requests \ {r} :
              IF reqs[q].pc \in G
                THEN reqs'[q] = [reqs[q] EXCEPT !.alone = FALSE]
                ELSE reqs'[q] = reqs[q]
  <2>1. PICK l : l = L
    OBVIOUS
  <2>2. l \in Request
    BY <1>3, <2>1
  <2>3. BeginAmong(r, G, l)
    BY <1>1, <2>1 DEF BeginAmong
  <2>4. /\ reqs' \in [Requests -> Request]
        /\ reqs'[r] = l
        /\ \A q \in Requests \ {r} :
              IF reqs[q].pc \in G
                THEN reqs'[q] = [reqs[q] EXCEPT !.alone = FALSE]
                ELSE reqs'[q] = reqs[q]
    <3>1. reqs \in [Requests -> Request]
      BY DEF TypeOK
    <3>2. G = {"reset", "mark"}
      OBVIOUS
    <3> HIDE DEF L, G
    <3> QED
      BY <2>2, <2>3, <3>1, <3>2, BeginAmongType
  <2> QED
    BY <2>1, <2>4
<1>5. reqs'[r].pc = "reset" /\ reqs'[r].alone = lone
  BY <1>4
<1>6. \A q \in Requests \ {r} : IsChoosing(q) =>
        reqs'[q].pc = reqs[q].pc /\ reqs'[q].alone = FALSE
  <2> TAKE q \in Requests \ {r}
  <2> HAVE IsChoosing(q)
  <2>1. reqs[q] \in C
    BY RequestForms, Types DEF IsChoosing
  <2>2. reqs'[q] = [reqs[q] EXCEPT !.alone = FALSE]
    BY <1>4 DEF IsChoosing
  <2> QED
    BY <2>1, <2>2
<1>7. \A q \in Requests \ {r} : ~IsChoosing(q) => reqs'[q] = reqs[q]
  BY <1>4 DEF IsChoosing
<1> HIDE DEF L, C
<1>8. \A q \in Requests \ {r} : IsChoosing(q)' <=> IsChoosing(q)
  BY <1>6, <1>7 DEF IsChoosing
<1>9. made' \in 0..MaxRequests /\ made' \in Nat /\ made <= made'
  BY <1>2, CountGrows
<1>10. TypeOK'
  BY <1>1, <1>4, <1>9 DEF TypeOK, tracker, agents
<1>11. \A q \in Requests :
         \/ reqs'[q] = reqs[q]
         \/ reqs'[q].pc \in {"reset", "mark"}
  BY <1>5, <1>6, <1>7 DEF IsChoosing
<1>12. BugInv'
  <2>1. \A q \in Requests :
           \/ reqs'[q] = reqs[q]
           \/ reqs'[q].pc \notin {"move", "insert", "status"}
    BY <1>11
  <2>2. bugs' = bugs /\ files' = files
    BY <1>1 DEF tracker
  <2> QED
    BY <1>9, <2>1, <2>2, BugsAreLeft
<1>13. ReleaseInv'
  <2>1. /\ RoomIsKept' /\ NamesAreCounted' /\ ErasedAreGone'
        /\ UploadsAreStored' /\ ReleasesHaveFiles'
    <3>1. \A q \in Requests :
            reqs'[q] = reqs[q] \/ reqs'[q].pc \notin {"register", "erase"}
      BY <1>11
    <3> QED
      BY <1>1, <1>2, <3>1, ChoiceKeepsNames DEF agents
  <2>2. LoneChoice'
    <3>1. ASSUME NEW a \in Requests, NEW b \in Requests,
                 IsChoosing(a)', IsChoosing(b)', reqs'[a].alone
          PROVE  a = b
      <4>1. a = r
        BY <1>6, <1>8, <3>1
      <4>2. b = r
        BY <1>5, <1>8, <3>1, <4>1 DEF lone, Nobody, IsChoosing
      <4> QED
        BY <4>1, <4>2
    <3>2. ASSUME NEW a \in Requests, reqs'[a].pc = "mark", reqs'[a].alone
          PROVE  FALSE
      BY <1>5, <1>6, <1>8, <3>2 DEF IsChoosing
    <3> QED
      BY <3>1, <3>2 DEF LoneChoice
  <2>3. LatestIsUnique'
    BY <1>1 DEF ReleaseInv, LatestIsUnique, agents
  <2> QED
    BY <2>1, <2>2, <2>3 DEF ReleaseInv
<1> QED
  BY <1>10, <1>12, <1>13

\* setLatest, the reset: no release is the latest.
LEMMA ResetIInv ==
  ASSUME IInv, NEW r \in Requests, Reset(r)
  PROVE  IInv'
<1> USE DEF IInv
<1>1. /\ reqs[r].pc = "reset"
      /\ releases' = [i \in DOMAIN releases |->
                        [releases[i] EXCEPT !.latest = FALSE]]
      /\ reqs' = [reqs EXCEPT ![r].pc = "mark"]
      /\ UNCHANGED <<tracker, store, uses, raced, made>>
  BY DEF Reset
<1>2. ASSUME NEW i \in 1..MaxReleases
      PROVE  /\ releases'[i] \in Release /\ releases'[i].latest = FALSE
             /\ releases'[i].life = releases[i].life
             /\ releases'[i].key = releases[i].key
             /\ releases'[i].blind = releases[i].blind
  <2>1. releases[i] \in Release
    BY Types
  <2>2. releases'[i] = [releases[i] EXCEPT !.latest = FALSE]
    BY <1>1, Types
  <2> QED
    BY <2>1, <2>2 DEF Release
<1>3. releases' \in [1..MaxReleases -> Release] /\ DOMAIN releases' = 1..MaxReleases
  <2>1. releases' = [i \in 1..MaxReleases |-> releases'[i]]
    BY <1>1, Types
  <2> QED
    BY <1>2, <2>1
<1> DEFINE C == [pc : {"reset", "mark"}, id : 1..MaxReleases, alone : BOOLEAN]
           L == [reqs[r] EXCEPT !.pc = "mark"]
<1>4. reqs[r] \in C
  BY <1>1, RequestForms, Types
<1>5. /\ L \in C /\ C \subseteq Request
      /\ L.pc = "mark" /\ L.alone = reqs[r].alone
  BY <1>4 DEF Request
<1>6. /\ reqs' = [reqs EXCEPT ![r] = L] /\ reqs \in [Requests -> Request]
  BY <1>1 DEF TypeOK
<1>7. /\ reqs' \in [Requests -> Request]
      /\ reqs'[r].pc = "mark" /\ reqs'[r].alone = reqs[r].alone
      /\ \A q \in Requests \ {r} : reqs'[q] = reqs[q]
  <2> HIDE DEF L, C
  <2> QED
    BY <1>5, <1>6
<1> HIDE DEF L, C
<1>8. TypeOK'
  BY <1>1, <1>3, <1>7 DEF TypeOK, tracker
<1>9. BugInv'
  <2>1. \A q \in Requests :
           \/ reqs'[q] = reqs[q]
           \/ reqs'[q].pc \notin {"move", "insert", "status"}
    BY <1>7
  <2>2. bugs' = bugs /\ files' = files /\ made' \in Nat /\ made <= made'
    BY <1>1, Types DEF tracker
  <2> QED
    BY <2>1, <2>2, BugsAreLeft
<1>10. ReleaseInv'
  <2>1. /\ RoomIsKept' /\ NamesAreCounted' /\ ErasedAreGone'
        /\ UploadsAreStored' /\ ReleasesHaveFiles'
    <3>1. \A q \in Requests :
            reqs'[q] = reqs[q] \/ reqs'[q].pc \notin {"register", "erase"}
      BY <1>7
    <3> QED
      BY <1>1, <1>2, <1>3, <3>1, ChoiceKeepsNames
  <2>2. LoneChoice'
    BY <1>1, <1>2, <1>3, <1>7 DEF ReleaseInv, LoneChoice, IsChoosing
  <2>3. LatestIsUnique'
    BY <1>2, <1>3 DEF LatestIsUnique
  <2> QED
    BY <2>1, <2>2, <2>3 DEF ReleaseInv
<1> QED
  BY <1>8, <1>9, <1>10

\* setLatest, the mark: a choice made alone finds no other latest release.
LEMMA MarkIInv ==
  ASSUME IInv, NEW r \in Requests, Mark(r)
  PROVE  IInv'
<1> USE DEF IInv
<1>1. /\ reqs[r].pc = "mark" /\ Finish(r)
      /\ UNCHANGED <<tracker, store, uses, made>>
  BY DEF Mark, Finish
<1>2. /\ reqs' \in [Requests -> Request]
      /\ reqs'[r].pc = "idle"
      /\ \A q \in Requests \ {r} : reqs'[q] = reqs[q]
  BY <1>1, FinishType DEF TypeOK, Idle
<1>3. reqs[r].id \in 1..MaxReleases /\ reqs[r].alone \in BOOLEAN
  BY <1>1, RequestForms, Types
<1>4. BugInv'
  <2>1. \A q \in Requests :
           \/ reqs'[q] = reqs[q]
           \/ reqs'[q].pc \notin {"move", "insert", "status"}
    BY <1>2
  <2>2. bugs' = bugs /\ files' = files /\ made' \in Nat /\ made <= made'
    BY <1>1, Types DEF tracker
  <2> QED
    BY <2>1, <2>2, BugsAreLeft
<1>5. CASE releases[reqs[r].id].life # "here"
  <2>1. UNCHANGED agents
    BY <1>1, <1>5 DEF Mark, agents
  <2>2. TypeOK'
    BY <1>1, <1>2, <2>1 DEF TypeOK, tracker, agents
  <2>3. ReleaseInv'
    <3>1. \A q \in Requests :
            \/ reqs'[q] = reqs[q]
            \/ reqs'[q].pc \notin {"register", "erase", "reset", "mark"}
      BY <1>2
    <3> QED
      BY <2>1, <3>1, ReleasesAreLeft
  <2> QED
    BY <1>4, <2>2, <2>3
<1>6. CASE releases[reqs[r].id].life = "here"
  <2>1. PICK k : k = reqs[r].id
    OBVIOUS
  <2>2. /\ releases' = [releases EXCEPT ![k].latest = TRUE]
        /\ raced' = ~reqs[r].alone
    BY <1>6, <2>1 DEF Mark
  <2>3. /\ k \in 1..MaxReleases /\ releases[k] \in Release
        /\ releases \in [1..MaxReleases -> Release]
        /\ DOMAIN releases = 1..MaxReleases
    BY <1>3, <2>1, Types DEF TypeOK
  <2> DEFINE new == [releases[k] EXCEPT !.latest = TRUE]
  <2>4. /\ new \in Release /\ new.life = releases[k].life
        /\ new.key = releases[k].key /\ new.blind = releases[k].blind
    BY <2>3 DEF Release
  <2>5. /\ releases' \in [1..MaxReleases -> Release] /\ releases'[k] = new
        /\ DOMAIN releases' = 1..MaxReleases
        /\ \A j \in (1..MaxReleases) \ {k} : releases'[j] = releases[j]
    <3>1. releases' = [releases EXCEPT ![k] = new]
      BY <2>2, <2>3
    <3> HIDE DEF new
    <3> QED
      BY <2>3, <2>4, <3>1
  <2> HIDE DEF new
  <2>6. raced' \in BOOLEAN
    BY <2>2, Zenon
  <2>7. TypeOK'
    BY <1>1, <1>2, <2>5, <2>6 DEF TypeOK, tracker
  <2>8. ReleaseInv'
    <3>1. /\ RoomIsKept' /\ NamesAreCounted' /\ ErasedAreGone'
          /\ UploadsAreStored' /\ ReleasesHaveFiles'
      <4>1. \A q \in Requests :
              reqs'[q] = reqs[q] \/ reqs'[q].pc \notin {"register", "erase"}
        BY <1>2
      <4>2. \A i \in 1..MaxReleases :
              /\ releases'[i].life = releases[i].life
              /\ releases'[i].key = releases[i].key
              /\ releases'[i].blind = releases[i].blind
        BY <2>4, <2>5
      <4> QED
        BY <1>1, <2>5, <4>1, <4>2, ChoiceKeepsNames
    <3>2. LoneChoice'
      <4>1. \A q \in Requests : IsChoosing(q)' =>
              IsChoosing(q) /\ q # r /\ reqs'[q] = reqs[q]
        BY <1>2 DEF IsChoosing
      <4>2. \A q \in Requests : reqs'[q].pc = "mark" => ~reqs'[q].alone
        BY <1>1, <4>1 DEF ReleaseInv, LoneChoice, IsChoosing
      <4> QED
        BY <4>1, <4>2 DEF ReleaseInv, LoneChoice
    <3>3. LatestIsUnique'
      <4> SUFFICES ASSUME ~raced', NEW i \in 1..MaxReleases,
                          NEW j \in 1..MaxReleases,
                          releases'[i].latest, releases'[j].latest
                   PROVE  i = j
        BY <2>5 DEF LatestIsUnique
      <4>1. reqs[r].alone
        BY <2>2
      <4>2. \A c \in 1..MaxReleases : ~releases[c].latest
        BY <1>1, <2>3, <4>1 DEF ReleaseInv, LoneChoice
      <4>3. i = k /\ j = k
        BY <2>5, <4>2
      <4> QED
        BY <4>3
    <3> QED
      BY <3>1, <3>2, <3>3 DEF ReleaseInv
  <2> QED
    BY <1>4, <2>7, <2>8
<1> QED
  BY <1>5, <1>6

----------------------------------------------------------------------------
(* Invariance                                                              *)

\* Nothing has happened at the beginning.
LEMMA InitIInv == Init => IInv
<1> SUFFICES ASSUME Init PROVE IInv
  OBVIOUS
<1> USE DEF Init
<1>0. \A r \in Requests : reqs[r].pc = "idle" /\ reqs[r] = Idle
  BY DEF Idle
<1>1. TypeOK
  <2>1. today \in Days /\ made \in 0..MaxRequests
        /\ files \in [Days -> [Numbers -> 0..MaxRequests]]
    BY SupportAssumption DEF Days
  <2>2. bugs \in [Days -> [Numbers -> Bug \cup {None}]]
    OBVIOUS
  <2>3. releases \in [1..MaxReleases -> Release]
    BY DEF NoRelease, Release
  <2>4. reqs \in [Requests -> Request] /\ store \subseteq Keys
    BY DEF Request
  <2>5. uses \in [Keys -> Nat] /\ raced \in BOOLEAN
    OBVIOUS
  <2> QED
    BY <2>1, <2>2, <2>3, <2>4, <2>5 DEF TypeOK
<1>2. \A d \in Days : Filed(d) = {}
  BY DEF Filed
<1>3. BugInv
  <2>1. \A r \in Requests : ~IsFiling(r) /\ reqs[r] \notin Filing
    BY <1>0 DEF IsFiling, Filing
  <2>2. LoneFiling /\ NumbersAreBounded /\ LoneIdsAreTaken
    BY <1>2, <2>1 DEF LoneFiling, NumbersAreBounded, LoneIdsAreTaken
  <2>3. MovedAreThere /\ ResolvingAreFiled
    BY <1>0 DEF MovedAreThere, ResolvingAreFiled
  <2>4. AttachmentsAreTheirs
    BY <1>2 DEF AttachmentsAreTheirs
  <2>5. LoneReportsAreStored
    BY <2>1 DEF LoneReportsAreStored
  <2> QED
    BY <2>2, <2>3, <2>4, <2>5 DEF BugInv
<1>4. ReleaseInv
  <2>1. \A i \in DOMAIN releases :
          releases[i].life = "none" /\ releases[i].latest = FALSE
    BY DEF NoRelease
  <2>2. RoomIsKept
    <3>1. Registering = {}
      BY <1>0 DEF Registering
    <3> QED
      BY <1>1, <3>1, Finite, FS_EmptySet DEF RoomIsKept
  <2>3. NamesAreCounted /\ ErasedAreGone /\ UploadsAreStored
    BY <1>0, <2>1 DEF NamesAreCounted, Created, IsRegistering, ErasedAreGone,
                      UploadsAreStored
  <2>4. ReleasesHaveFiles
    BY <2>1 DEF ReleasesHaveFiles, Here
  <2>5. LoneChoice /\ LatestIsUnique
    BY <1>0, <2>1 DEF LoneChoice, LatestIsUnique, IsChoosing
  <2> QED
    BY <2>2, <2>3, <2>4, <2>5 DEF ReleaseInv
<1> QED
  BY <1>1, <1>3, <1>4 DEF IInv

\* A request that is lost leaves what it has written.
LEMMA CrashIInv ==
  ASSUME IInv, NEW r \in Requests, Crash(r)
  PROVE  IInv'
<1>1. Finish(r) /\ UNCHANGED <<tracker, agents, made>>
  BY DEF Crash, Finish
<1>2. /\ reqs' \in [Requests -> Request]
      /\ \A q \in Requests : reqs'[q] = reqs[q] \/ reqs'[q].pc = "idle"
  BY <1>1, FinishType DEF IInv, TypeOK, Idle
<1>3. TypeOK'
  BY <1>1, <1>2 DEF IInv, TypeOK, tracker, agents
<1>4. BugInv'
  <2>1. \A q \in Requests :
           \/ reqs'[q] = reqs[q]
           \/ reqs'[q].pc \notin {"move", "insert", "status"}
    BY <1>2
  <2>2. bugs' = bugs /\ files' = files /\ made' \in Nat /\ made <= made'
    BY <1>1, Types DEF IInv, tracker
  <2> QED
    BY <2>1, <2>2, BugsAreLeft
<1>5. ReleaseInv'
  <2>1. \A q \in Requests :
          \/ reqs'[q] = reqs[q]
          \/ reqs'[q].pc \notin {"register", "erase", "reset", "mark"}
    BY <1>2
  <2> QED
    BY <1>1, <2>1, ReleasesAreLeft
<1> QED
  BY <1>3, <1>4, <1>5 DEF IInv

\* Every step keeps the invariant.
LEMMA NextIInv == IInv /\ [Next]_vars => IInv'
<1> SUFFICES ASSUME IInv, [Next]_vars PROVE IInv'
  OBVIOUS
<1>1. CASE Tracking
  BY <1>1, MidnightIInv, CreateBugIInv, ConfirmUploadsIInv, InsertBugIInv,
     ResolveIInv, AssignIInv, ReopenIInv, UpdateStatusIInv DEF Tracking
<1>2. CASE Releasing
  BY <1>2, DirectUploadIInv, ConfirmReleaseIInv, UploadReleaseIInv,
     InsertReleaseIInv, DeleteFileIInv, ResetIInv, MarkIInv,
     DeleteReleaseIInv, SetLatestIInv DEF Releasing
<1>3. ASSUME NEW r \in Requests, Crash(r) PROVE IInv'
  BY <1>3, CrashIInv
<1>4. CASE UNCHANGED vars
  <2>1. TypeOK'
    BY <1>4 DEF IInv, TypeOK, vars, tracker, agents
  <2>2. BugInv' /\ ReleaseInv'
    BY <1>4, BugsAreLeft, ReleasesAreLeft, Types DEF IInv, vars, tracker
  <2> QED
    BY <2>1, <2>2 DEF IInv
<1> QED
  BY <1>1, <1>2, <1>3, <1>4 DEF Next, Done

\* The inductive invariant holds.
THEOREM Invariance == Spec => []IInv
BY InitIInv, NextIInv, PTL DEF Spec

\* Bugs, attachments, releases and the requests under way have their types:
\* no number leaves the table.
THEOREM TypeCorrect == Spec => []TypeOK
<1>1. IInv => TypeOK
  BY DEF IInv
<1> QED
  BY <1>1, Invariance, PTL

\* BugsService.create: a bug filed alone keeps its own attachment.
THEOREM AttachmentsStay == Spec => []AttachmentsAreTheirs
<1>1. IInv => AttachmentsAreTheirs
  BY DEF IInv, BugInv
<1> QED
  BY <1>1, Invariance, PTL

\* BugsService.create: the number a lone report is given is free.
THEOREM LoneNumbersAreFree == Spec => []LoneReportsAreStored
<1>1. IInv => LoneReportsAreStored
  BY DEF IInv, BugInv
<1> QED
  BY <1>1, Invariance, PTL

\* AgentReleasesService: a listed release whose file name was used once can
\* be downloaded.
THEOREM FilesStay == Spec => []ReleasesHaveFiles
<1>1. IInv => ReleasesHaveFiles
  BY DEF IInv, ReleaseInv
<1> QED
  BY <1>1, Invariance, PTL

\* AgentReleasesService.setLatest: there is one latest release at most, unless
\* the last two choices were made together.
THEOREM LatestStaysUnique == Spec => []OneLatestRelease
<1>1. ASSUME IInv PROVE OneLatestRelease
  <2> DEFINE S == {i \in Here : releases[i].latest}
  <2> SUFFICES ASSUME ~raced
               PROVE  Cardinality(S) <= 1
    BY DEF OneLatestRelease
  <2>1. \A i, j \in S : i = j
    BY <1>1 DEF IInv, ReleaseInv, LatestIsUnique, Here
  <2> HIDE DEF S
  <2>2. CASE S = {}
    BY <2>2, FS_EmptySet
  <2>3. CASE S # {}
    <3>1. PICK i : i \in S
      BY <2>3
    <3>2. S = {i}
      BY <2>1, <3>1
    <3>3. Cardinality({i}) = 1
      BY FS_Singleton
    <3> QED
      BY <3>2, <3>3
  <2> QED
    BY <2>2, <2>3
<1> QED
  BY <1>1, Invariance, PTL

============================================================================
