------------------------------ MODULE Support ------------------------------
(***************************************************************************)
(* What the operator's staff works with: the bug tracker (BugsService) and *)
(* the releases of the agent (AgentReleasesService), both with files in    *)
(* the object store (StorageService).                                      *)
(*                                                                         *)
(* One action is one statement, or one operation of the store, with the    *)
(* code up to the next await.  Mails and the audit log follow the last     *)
(* step of a handler and are left out, as are comments.                    *)
(***************************************************************************)
EXTENDS Naturals, FiniteSets, FiniteSetsExt

CONSTANTS
  Requests,
  Base, Width,   \* a bug's number is written with Width digits at least
  Keys,          \* names of release files: version, platform, arch, file
  MaxDays,       \* bound: days
  MaxReleases,   \* bound: releases created
  MaxRequests,   \* bound: requests made
  None

ASSUME SupportAssumption ==
  /\ IsFiniteSet(Requests)
  /\ Base \in Nat \ {0, 1} /\ Width \in Nat \ {0} /\ Base ^ Width \in Nat
  /\ MaxDays \in Nat \ {0} /\ {MaxReleases, MaxRequests} \subseteq Nat
  /\ None \notin Keys

VARIABLES
  today,
  bugs,      \* bugs[d][n]: the row of table bugs with id BR-<d>-<n>, or None
  files,     \* files[d][n]: report whose attachment is stored under that id
  releases,  \* table agent_releases, of one platform
  store,     \* release files in the store
  reqs,      \* requests under way
  made,      \* requests made so far
  uses,      \* history: releases that were given each file name
  raced      \* history: the last choice of a latest release was disturbed

tracker == <<today, bugs, files>>
agents == <<releases, store, uses, raced>>
vars == <<tracker, agents, reqs, made>>

\* Numbers with more than Width + 1 digits are out of every bound's reach.
Limit == Base ^ Width
Numbers == 1..MaxRequests
Days == 1..MaxDays

\* by: the report.  moved: its attachment was.  alone: no other report was
\* being filed.
Bug == [by : 1..MaxRequests, moved : BOOLEAN, alone : BOOLEAN,
        resolved : BOOLEAN, assigned : BOOLEAN]
ASSUME NoBugAssumption == None \notin Bug

\* blind: confirmed although the file was not there.
Release == [life : {"none", "here", "gone"}, key : Keys \cup {None},
            latest : BOOLEAN, blind : BOOLEAN]
NoRelease == [life |-> "none", key |-> None, latest |-> FALSE, blind |-> FALSE]

Idle == [pc |-> "idle"]
Filing == [pc : {"move", "insert"}, by : 1..MaxRequests, day : Days,
           number : 1..MaxRequests + 1, moved : BOOLEAN, alone : BOOLEAN]
Request ==
  {Idle} \cup Filing
  \cup [pc : {"status"}, day : Days, number : Numbers]
  \cup [pc : {"register", "erase"}, key : Keys]
  \cup [pc : {"reset", "mark"}, id : 1..MaxReleases, alone : BOOLEAN]

TypeOK ==
  /\ today \in Days
  /\ bugs \in [Days -> [Numbers -> Bug \cup {None}]]
  /\ files \in [Days -> [Numbers -> 0..MaxRequests]]
  /\ releases \in [1..MaxReleases -> Release]
  /\ store \subseteq Keys
  /\ reqs \in [Requests -> Request]
  /\ made \in 0..MaxRequests
  /\ uses \in [Keys -> Nat] /\ raced \in BOOLEAN

Init ==
  /\ today = 1
  /\ bugs = [d \in Days |-> [n \in Numbers |-> None]]
  /\ files = [d \in Days |-> [n \in Numbers |-> 0]]
  /\ releases = [i \in 1..MaxReleases |-> NoRelease]
  /\ store = {}
  /\ reqs = [r \in Requests |-> Idle]
  /\ made = 0
  /\ uses = [k \in Keys |-> 0] /\ raced = FALSE

Count == made < MaxRequests /\ made' = made + 1
Begin(r, locals) ==
  Count /\ reqs[r] = Idle /\ reqs' = [reqs EXCEPT ![r] = locals]
Finish(r) == reqs' = [reqs EXCEPT ![r] = Idle] /\ UNCHANGED made

\* A request begins in group pcs; the others of the group are not alone.
Crowded(q, pcs) ==
  IF q.pc \in pcs THEN [q EXCEPT !.alone = FALSE] ELSE q
BeginAmong(r, pcs, locals) ==
  /\ Count /\ reqs[r] = Idle
  /\ reqs' = [[q \in Requests |-> Crowded(reqs[q], pcs)] EXCEPT ![r] = locals]
Nobody(pcs) == \A q \in Requests : reqs[q].pc \notin pcs

----------------------------------------------------------------------------
(* Bugs                                                                    *)

Filed(d) == {n \in Numbers : bugs[d][n] # None}

\* The order of the ids as text: a longer number comes after the numbers
\* it continues, and before all greater ones.
Aligned(n) == IF n < Limit THEN n * Base ELSE n
TextBefore(m, n) ==
  \/ Aligned(m) < Aligned(n)
  \/ Aligned(m) = Aligned(n) /\ m < n

\* Mutant: bugs are counted.
NextNumberByCount(d) == IF Filed(d) = {} THEN 1 ELSE Cardinality(Filed(d))

\* The number after that of the last id.
NextNumber(d) ==
  IF Filed(d) = {} THEN 1
  ELSE 1 + CHOOSE n \in Filed(d) : \A m \in Filed(d) \ {n} : TextBefore(m, n)

\* create reads the last id of the day.
CreateBug(r) ==
  /\ \E pc \in {"move", "insert"} :   \* with or without attachments
       BeginAmong(r, {"move", "insert"},
                  [pc |-> pc, by |-> made + 1, day |-> today,
                   number |-> NextNumber(today), moved |-> FALSE,
                   alone |-> Nobody({"move", "insert"})])
  /\ UNCHANGED <<tracker, agents>>

\* Mutant: the name leaves the day out.
ConfirmUploadsByNumber(r) ==
  LET q == reqs[r] IN
  /\ q.pc = "move"
  /\ files' = [d \in Days |-> [files[d] EXCEPT ![q.number] = q.by]]
  /\ reqs' = [reqs EXCEPT ![r].pc = "insert", ![r].moved = TRUE]
  /\ UNCHANGED <<today, bugs, agents, made>>

\* confirmUploads copies the attachment to its name under the id, over
\* whatever is there, and deletes the original; if either fails the bug
\* keeps the old name.
ConfirmUploads(r) ==
  LET q == reqs[r] IN
  /\ q.pc = "move"
  /\ \E copied, moved \in BOOLEAN :
       /\ moved => copied
       /\ files' = IF copied THEN [files EXCEPT ![q.day][q.number] = q.by]
                   ELSE files
       /\ reqs' = [reqs EXCEPT ![r].pc = "insert", ![r].moved = moved]
  /\ UNCHANGED <<today, bugs, agents, made>>

\* The unique id refuses a number that is taken.
InsertBug(r) ==
  LET q == reqs[r] IN
  /\ q.pc = "insert"
  /\ bugs' = IF bugs[q.day][q.number] # None THEN bugs
             ELSE [bugs EXCEPT ![q.day][q.number] =
                     [by |-> q.by, moved |-> q.moved, alone |-> q.alone,
                      resolved |-> FALSE, assigned |-> FALSE]]
  /\ Finish(r)
  /\ UNCHANGED <<today, files, agents>>

\* assign, with a user or null.
Assign(d, n) ==
  /\ Count /\ bugs[d][n] # None
  /\ \E to \in BOOLEAN : bugs' = [bugs EXCEPT ![d][n].assigned = to]
  /\ UNCHANGED <<today, files, agents, reqs>>

\* updateStatus to "resolu" needs a bug that is assigned ...
UpdateStatus(r, d, n) ==
  /\ bugs[d][n] # None /\ bugs[d][n].assigned
  /\ Begin(r, [pc |-> "status", day |-> d, number |-> n])
  /\ UNCHANGED <<tracker, agents>>

\* ... when it is read.
Resolve(r) ==
  LET q == reqs[r] IN
  /\ q.pc = "status"
  /\ bugs' = [bugs EXCEPT ![q.day][q.number].resolved = TRUE]
  /\ Finish(r)
  /\ UNCHANGED <<today, files, agents>>

\* Any other status.
Reopen(d, n) ==
  /\ Count /\ bugs[d][n] # None /\ bugs[d][n].resolved
  /\ bugs' = [bugs EXCEPT ![d][n].resolved = FALSE]
  /\ UNCHANGED <<today, files, agents, reqs>>

Midnight ==
  /\ today < MaxDays
  /\ today' = today + 1
  /\ UNCHANGED <<bugs, files, agents, reqs, made>>

----------------------------------------------------------------------------
(* Releases                                                                *)

Here == {i \in DOMAIN releases : releases[i].life = "here"}
Free == {i \in DOMAIN releases : releases[i].life = "none"}
Registering == {r \in Requests : reqs[r].pc = "register"}
Room == Cardinality(Free) > Cardinality(Registering)

NewRelease(k, blind) ==
  releases' = [releases EXCEPT ![Min(Free)] =
                 [life |-> "here", key |-> k, latest |-> FALSE,
                  blind |-> blind]]
Use(k) == uses' = [uses EXCEPT ![k] = @ + 1]

\* Mutant: the file is stored after the row.
UploadReleaseLater(r, k) ==
  /\ Room /\ Use(k)
  /\ NewRelease(k, FALSE)
  /\ Begin(r, [pc |-> "erase", key |-> k])
  /\ UNCHANGED <<tracker, store, raced>>

\* uploadRelease stores the file under its name ...
UploadRelease(r, k) ==
  /\ Room /\ Use(k)
  /\ store' = store \cup {k}
  /\ Begin(r, [pc |-> "register", key |-> k])
  /\ UNCHANGED <<tracker, releases, raced>>

\* ... and inserts the row.
InsertRelease(r) ==
  /\ reqs[r].pc = "register"
  /\ NewRelease(reqs[r].key, FALSE)
  /\ Finish(r)
  /\ UNCHANGED <<tracker, store, uses, raced>>

\* The browser uses an address of getPresignedUpload.
DirectUpload(k) ==
  /\ Count /\ k \notin store
  /\ store' = store \cup {k}
  /\ UNCHANGED <<tracker, releases, uses, raced, reqs>>

\* confirmRelease takes the file for granted.
ConfirmRelease(k) ==
  /\ Count /\ Room /\ Use(k)
  /\ NewRelease(k, k \notin store)
  /\ UNCHANGED <<tracker, store, raced, reqs>>

\* deleteRelease removes the row ...
DeleteRelease(r, i) ==
  /\ releases[i].life = "here"
  /\ releases' = [releases EXCEPT ![i].life = "gone", ![i].latest = FALSE]
  /\ Begin(r, [pc |-> "erase", key |-> releases[i].key])
  /\ UNCHANGED <<tracker, store, uses, raced>>

\* ... and then the file by its name, or logs that it could not.
DeleteFile(r) ==
  /\ reqs[r].pc = "erase"
  /\ store' = store \ {reqs[r].key} \/ UNCHANGED store
  /\ Finish(r)
  /\ UNCHANGED <<tracker, releases, uses, raced>>

\* setLatest reads the release ...
SetLatest(r, i) ==
  /\ releases[i].life = "here"
  /\ BeginAmong(r, {"reset", "mark"},
                [pc |-> "reset", id |-> i, alone |-> Nobody({"reset", "mark"})])
  /\ UNCHANGED <<tracker, agents>>

\* Mutant: only the releases of the same file name are reset.
ResetSame(r) ==
  /\ reqs[r].pc = "reset"
  /\ releases' = [i \in DOMAIN releases |->
       IF releases[i].key = releases[reqs[r].id].key
         THEN [releases[i] EXCEPT !.latest = FALSE] ELSE releases[i]]
  /\ reqs' = [reqs EXCEPT ![r].pc = "mark"]
  /\ UNCHANGED <<tracker, store, uses, raced, made>>

\* ... resets all of the platform, whatever their arch ...
Reset(r) ==
  /\ reqs[r].pc = "reset"
  /\ releases' = [i \in DOMAIN releases |->
                    [releases[i] EXCEPT !.latest = FALSE]]
  /\ reqs' = [reqs EXCEPT ![r].pc = "mark"]
  /\ UNCHANGED <<tracker, store, uses, raced, made>>

\* ... and marks the one, unless it is gone.
Mark(r) ==
  LET q == reqs[r] IN
  /\ q.pc = "mark"
  /\ IF releases[q.id].life = "here"
       THEN /\ releases' = [releases EXCEPT ![q.id].latest = TRUE]
            /\ raced' = ~q.alone
       ELSE UNCHANGED <<releases, raced>>
  /\ Finish(r)
  /\ UNCHANGED <<tracker, store, uses>>

----------------------------------------------------------------------------

\* The worker dies, or the database or the store does not answer.
Crash(r) ==
  /\ reqs[r] # Idle
  /\ Finish(r)
  /\ UNCHANGED <<tracker, agents>>

\* Every request the bound allows was made and has ended.
Done ==
  /\ made = MaxRequests /\ \A r \in Requests : reqs[r] = Idle
  /\ UNCHANGED vars

Tracking ==
  \/ Midnight
  \/ \E r \in Requests :
       CreateBug(r) \/ ConfirmUploads(r) \/ InsertBug(r) \/ Resolve(r)
  \/ \E d \in Days, n \in Numbers :
       Assign(d, n) \/ Reopen(d, n) \/ \E r \in Requests : UpdateStatus(r, d, n)

Releasing ==
  \/ \E k \in Keys :
       \/ DirectUpload(k) \/ ConfirmRelease(k)
       \/ \E r \in Requests : UploadRelease(r, k)
  \/ \E r \in Requests : InsertRelease(r) \/ DeleteFile(r) \/ Reset(r) \/ Mark(r)
  \/ \E i \in DOMAIN releases, r \in Requests :
       DeleteRelease(r, i) \/ SetLatest(r, i)

Next == Tracking \/ Releasing \/ (\E r \in Requests : Crash(r)) \/ Done

Spec == Init /\ [][Next]_vars

----------------------------------------------------------------------------
(* Properties                                                              *)

\* BugsService.create: a bug filed while no other one was keeps its own
\* attachment under its id, whatever is filed later, until the numbers of a
\* day outgrow their three digits.
AttachmentsAreTheirs ==
  \A d \in Days : \A n \in Filed(d) :
    bugs[d][n].moved /\ bugs[d][n].alone /\ n < Limit
      => files[d][n] = bugs[d][n].by

\* BugsService.create: a bug filed alone is stored; the number it was given
\* is free, also after failed and overlapping attempts, until the numbers of
\* the day outgrow their three digits.
LoneReportsAreStored ==
  \A r \in Requests :
    reqs[r] \in Filing /\ reqs[r].alone /\ reqs[r].number < Limit
      => bugs[reqs[r].day][reqs[r].number] = None

\* AgentReleasesService: a release whose file name no other release was given
\* can be downloaded as long as it is listed, wherever an upload or a deletion
\* stops half-way.
ReleasesHaveFiles ==
  \A i \in Here : uses[releases[i].key] = 1 /\ ~releases[i].blind
                    => releases[i].key \in store

\* AgentReleasesService.setLatest: a platform has one latest release at most,
\* unless the last two choices were made together; a choice made alone
\* repairs that.
OneLatestRelease ==
  ~raced => Cardinality({i \in Here : releases[i].latest}) <= 1
============================================================================
