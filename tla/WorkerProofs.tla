---------------------------- MODULE WorkerProofs ----------------------------
(***************************************************************************)
(* The package internal/worker.                                            *)
(*                                                                         *)
(* The queue: no accepted job is lost or run twice, for any number of      *)
(* runners and jobs.  What makes it inductive is that a runner has a job   *)
(* exactly while it looks it up or handles it, so that a pop never         *)
(* overwrites one.                                                         *)
(*                                                                         *)
(* The scheduler: what was cancelled stays out, and with one runner a      *)
(* submission is scheduled until it is done, except for ids that were      *)
(* overtaken.  What makes it inductive is that the work of a copy in hand  *)
(* is the work under its id, if there is any; and that with one runner the *)
(* copy is that entry, up to the time it is due, or has been cancelled.    *)
(***************************************************************************)
EXTENDS Worker, FiniteSetTheorems, TLAPS

----------------------------------------------------------------------------
(* The queue: what is where *)

Holding == {r \in Runner : job[r] # NoJob}

JobsInPlace ==
  /\ items \in Seq(Job) /\ pushed \in Seq(Job) /\ consumed \in Seq(Job)
  /\ pc \in [Runner -> D!PC]
  /\ job \in [Runner -> Job \cup {NoJob}]
  /\ \A r \in Runner : (job[r] # NoJob) = (pc[r] \in {"lookup", "handle"})
  /\ IsFiniteSet(Holding)

DInv == JobsInPlace /\ D!NoJobLost

----------------------------------------------------------------------------
(* The queue: sequences *)

\* What is appended joins what is there.
LEMMA RangeOfAppend ==
  ASSUME NEW A, NEW s \in Seq(A), NEW x \in A
  PROVE  D!Range(Append(s, x)) = D!Range(s) \cup {x}
PROOF
<1> DEFINE a == Append(s, x)
<1>1. /\ DOMAIN s = 1 .. Len(s) /\ DOMAIN a = 1 .. (Len(s) + 1)
      /\ a[Len(s) + 1] = x /\ Len(s) \in Nat
      /\ \A i \in 1 .. Len(s) : a[i] = s[i]
  OBVIOUS
<1>2. 1 .. (Len(s) + 1) = (1 .. Len(s)) \cup {Len(s) + 1}
  BY <1>1
<1> HIDE DEF a
<1>3. D!Range(a) = D!Range(s) \cup {x}
  BY <1>1, <1>2 DEF D!Range
<1>4. QED BY <1>3 DEF a

\* The head and the tail are what is there.
LEMMA RangeOfHeadAndTail ==
  ASSUME NEW A, NEW s \in Seq(A), s # <<>>
  PROVE  /\ Head(s) \in A /\ Tail(s) \in Seq(A) /\ Len(s) = Len(Tail(s)) + 1
         /\ D!Range(s) = {Head(s)} \cup D!Range(Tail(s))
PROOF
<1> DEFINE t == Tail(s)
<1>1. /\ Len(s) \in Nat \ {0} /\ Len(t) = Len(s) - 1 /\ t \in Seq(A)
      /\ Head(s) = s[1] /\ Head(s) \in A
      /\ DOMAIN s = 1 .. Len(s) /\ DOMAIN t = 1 .. (Len(s) - 1)
      /\ \A i \in 1 .. (Len(s) - 1) : t[i] = s[i + 1]
  OBVIOUS
<1> HIDE DEF t
<1>2. D!Range(s) \subseteq {Head(s)} \cup D!Range(t)
  <2>1. SUFFICES ASSUME NEW i \in 1 .. Len(s), i # 1
                 PROVE  s[i] \in D!Range(t)
    BY <1>1 DEF D!Range
  <2>2. i - 1 \in 1 .. (Len(s) - 1) /\ t[i - 1] = s[i]
    BY <1>1, <2>1
  <2>3. QED BY <1>1, <2>2 DEF D!Range
<1>3. {Head(s)} \cup D!Range(t) \subseteq D!Range(s)
  <2>1. 1 \in DOMAIN s /\ \A i \in DOMAIN t : i + 1 \in DOMAIN s
    BY <1>1
  <2>2. QED BY <1>1, <2>1 DEF D!Range
<1>4. QED BY <1>1, <1>2, <1>3 DEF t

----------------------------------------------------------------------------
(* The queue: steps *)

\* The instance counts as everybody does.
LEMMA SameCount == \A X : D!Cardinality(X) = Cardinality(X)
BY DEF D!Cardinality, Cardinality

\* Nobody has a job to begin with.
LEMMA DInvInit == D!Init => DInv
PROOF
<1> SUFFICES ASSUME D!Init PROVE DInv
  OBVIOUS
<1>1. Holding = {} /\ D!InHand = {}
  BY DEF D!Init, Holding, D!InHand
<1>2. JobsInPlace
  BY <1>1, FS_EmptySet DEF D!Init, JobsInPlace, D!PC
<1>3. D!NoJobLost
  <2>1. Cardinality(Holding) = 0
    BY <1>1, FS_EmptySet
  <2>2. D!Range(<<>>) = {} /\ Len(<<>>) = 0
    BY DEF D!Range
  <2>3. QED BY <1>1, <2>1, <2>2, SameCount DEF D!Init, D!NoJobLost, Holding
<1>4. QED BY <1>2, <1>3 DEF DInv

\* A push puts a job in the queue and among the accepted.
LEMMA PushKeeps ==
  ASSUME DInv, NEW j \in Job, D!Push(j)
  PROVE  DInv'
PROOF
<1>1. /\ items' = Append(items, j) /\ pushed' = Append(pushed, j)
      /\ UNCHANGED <<pc, job, consumed>>
  BY DEF D!Push
<1>2. /\ items \in Seq(Job) /\ pushed \in Seq(Job)
      /\ items' \in Seq(Job) /\ pushed' \in Seq(Job)
      /\ Len(items') = Len(items) + 1 /\ Len(pushed') = Len(pushed) + 1
  BY <1>1 DEF DInv, JobsInPlace
<1>3. Holding' = Holding /\ D!InHand' = D!InHand
  BY <1>1 DEF Holding, D!InHand
<1>4. JobsInPlace'
  BY <1>1, <1>2, <1>3 DEF DInv, JobsInPlace
<1>5. /\ D!Range(items') = D!Range(items) \cup {j}
      /\ D!Range(pushed') = D!Range(pushed) \cup {j}
  BY <1>1, <1>2, RangeOfAppend
<1>6. D!Range(pushed') = D!Range(items') \cup D!InHand' \cup D!Range(consumed')
  BY <1>1, <1>3, <1>5, SameCount DEF DInv, D!NoJobLost
<1>7. Len(pushed') = Len(items') + Cardinality(Holding') + Len(consumed')
  <2>1. Cardinality(Holding) \in Nat /\ Len(items) \in Nat /\ Len(consumed) \in Nat
    BY FS_CardinalityType DEF DInv, JobsInPlace
  <2>2. Len(pushed) = Len(items) + Cardinality(Holding) + Len(consumed)
    BY SameCount DEF DInv, D!NoJobLost, Holding
  <2>3. QED BY <1>1, <1>2, <1>3, <2>1, <2>2
<1>8. QED BY <1>4, <1>6, <1>7, SameCount DEF DInv, D!NoJobLost, Holding

\* A pop moves the head of the queue into hands that were empty.
LEMMA TakeKeeps ==
  ASSUME DInv, NEW r \in Runner, pc[r] = "pop", items # <<>>,
         job' = [job EXCEPT ![r] = Head(items)], items' = Tail(items),
         pc' = [pc EXCEPT ![r] = "lookup"], UNCHANGED <<pushed, consumed>>
  PROVE  DInv'
PROOF
<1>1. /\ items \in Seq(Job) /\ Head(items) \in Job /\ items' \in Seq(Job)
      /\ Len(items) = Len(items') + 1
      /\ D!Range(items) = {Head(items)} \cup D!Range(items')
  BY RangeOfHeadAndTail DEF DInv, JobsInPlace
<1>2. /\ job[r] = NoJob /\ job'[r] = Head(items) /\ Head(items) # NoJob
      /\ \A q \in Runner \ {r} : job'[q] = job[q]
  BY <1>1, NoJobAssumption DEF DInv, JobsInPlace
<1>3. Holding' = Holding \cup {r} /\ r \notin Holding
  BY <1>2 DEF Holding
<1>4. D!InHand' = D!InHand \cup {Head(items)}
  BY <1>2 DEF D!InHand
<1>5. /\ IsFiniteSet(Holding')
      /\ Cardinality(Holding') = Cardinality(Holding) + 1
  BY <1>3, FS_AddElement DEF DInv, JobsInPlace
<1>6. JobsInPlace'
  BY <1>1, <1>2, <1>5 DEF DInv, JobsInPlace, D!PC
<1>7. D!Range(pushed') = D!Range(items') \cup D!InHand' \cup D!Range(consumed')
  BY <1>1, <1>4, SameCount DEF DInv, D!NoJobLost
<1>8. Len(pushed') = Len(items') + Cardinality(Holding') + Len(consumed')
  <2>1. /\ Cardinality(Holding) \in Nat /\ Len(items') \in Nat
        /\ Len(consumed) \in Nat
    BY <1>1, FS_CardinalityType DEF DInv, JobsInPlace
  <2>2. Len(pushed) = Len(items) + Cardinality(Holding) + Len(consumed)
    BY SameCount DEF DInv, D!NoJobLost, Holding
  <2>3. QED BY <1>1, <1>5, <2>1, <2>2
<1>9. QED BY <1>6, <1>7, <1>8, SameCount DEF DInv, D!NoJobLost, Holding

\* A runner that is done with its job has empty hands.
LEMMA FinishKeeps ==
  ASSUME DInv, NEW r \in Runner, pc[r] \in {"lookup", "handle"}, D!Finished(r),
         NEW next \in {"pop", "pause"}, pc' = [pc EXCEPT ![r] = next],
         UNCHANGED <<items, pushed>>
  PROVE  DInv'
PROOF
<1>1. /\ job[r] \in Job /\ job[r] # NoJob /\ consumed \in Seq(Job)
      /\ job'[r] = NoJob /\ consumed' = Append(consumed, job[r])
      /\ \A q \in Runner \ {r} : job'[q] = job[q]
  BY DEF DInv, JobsInPlace, D!Finished
<1>2. Holding' = Holding \ {r} /\ r \in Holding
  BY <1>1 DEF Holding
<1>3. D!InHand = D!InHand' \cup {job[r]}
  BY <1>1 DEF D!InHand
<1>4. /\ IsFiniteSet(Holding') /\ Cardinality(Holding) \in Nat
      /\ Cardinality(Holding') = Cardinality(Holding) - 1
  BY <1>2, FS_RemoveElement, FS_CardinalityType DEF DInv, JobsInPlace
<1>5. /\ consumed' \in Seq(Job) /\ Len(consumed') = Len(consumed) + 1
      /\ D!Range(consumed') = D!Range(consumed) \cup {job[r]}
  BY <1>1, RangeOfAppend
<1>6. JobsInPlace'
  BY <1>1, <1>4, <1>5 DEF DInv, JobsInPlace, D!PC, D!Finished
<1>7. D!Range(pushed') = D!Range(items') \cup D!InHand' \cup D!Range(consumed')
  BY <1>3, <1>5, SameCount DEF DInv, D!NoJobLost
<1>8. Len(pushed') = Len(items') + Cardinality(Holding') + Len(consumed')
  <2>1. Len(items) \in Nat /\ Len(consumed) \in Nat
    BY DEF DInv, JobsInPlace
  <2>2. Len(pushed) = Len(items) + Cardinality(Holding) + Len(consumed)
    BY SameCount DEF DInv, D!NoJobLost, Holding
  <2>3. QED BY <1>4, <1>5, <2>1, <2>2
<1>9. QED BY <1>6, <1>7, <1>8, SameCount DEF DInv, D!NoJobLost, Holding

\* A runner that goes from one place to another with empty hands, or takes its
\* job along, leaves all jobs where they are.
LEMMA MoveKeeps ==
  ASSUME DInv, NEW p \in [Runner -> D!PC], pc' = p,
         \A r \in Runner : (p[r] \in {"lookup", "handle"})
                           = (pc[r] \in {"lookup", "handle"}),
         UNCHANGED <<items, pushed, consumed, job>>
  PROVE  DInv'
PROOF
<1>1. Holding' = Holding /\ D!InHand' = D!InHand
  BY DEF Holding, D!InHand
<1>2. JobsInPlace'
  BY <1>1 DEF DInv, JobsInPlace
<1>3. D!NoJobLost'
  BY <1>1, SameCount DEF DInv, D!NoJobLost, Holding
<1>4. QED BY <1>2, <1>3 DEF DInv

\* Every step keeps all jobs in their places.
LEMMA DInvStep == DInv /\ [D!Next]_(D!vars) => DInv'
PROOF
<1> SUFFICES ASSUME DInv, [D!Next]_(D!vars) PROVE DInv'
  OBVIOUS
<1>0. pc \in [Runner -> D!PC]
  BY DEF DInv, JobsInPlace
<1>1. ASSUME NEW j \in Job, D!Push(j) PROVE DInv'
  BY <1>1, PushKeeps
<1>2. ASSUME UNCHANGED <<items, pushed, consumed, job, pc>> PROVE DInv'
  BY <1>0, <1>2, MoveKeeps
<1>3. ASSUME NEW r \in Runner, NEW here \in D!PC \ {"lookup", "handle"}, pc[r] = here,
             NEW there \in D!PC \ {"lookup", "handle"},
             pc' = [pc EXCEPT ![r] = there],
             UNCHANGED <<items, pushed, consumed, job>>
      PROVE  DInv'
  <2>1. [pc EXCEPT ![r] = there] \in [Runner -> D!PC]
    BY <1>0, <1>3
  <2>2. \A q \in Runner : ([pc EXCEPT ![r] = there][q] \in {"lookup", "handle"})
                          = (pc[q] \in {"lookup", "handle"})
    BY <1>0, <1>3
  <2>3. QED BY <1>3, <2>1, <2>2, MoveKeeps
<1>4. ASSUME NEW k \in Kind, D!Register(k) PROVE DInv'
  BY <1>2, <1>4 DEF D!Register
<1>5. CASE D!CloseFlag \/ D!CloseNotify \/ D!Cancel
  BY <1>2, <1>5 DEF D!CloseFlag, D!CloseNotify, D!Cancel
<1>6. ASSUME NEW r \in Runner, D!Start(r) \/ D!Run(r) PROVE DInv'
  <2>0. /\ {"new", "pop", "wait", "pause", "out"} \subseteq D!PC \ {"lookup", "handle"}
        /\ "handle" \in D!PC
    BY DEF D!PC
  <2>1. CASE D!Start(r)
    BY <1>3, <2>0, <2>1 DEF D!Start
  <2>2. CASE D!Pop(r)
    <3>1. CASE items # <<>>
      BY <2>2, <3>1, TakeKeeps DEF D!Pop
    <3>2. CASE items = <<>>
      BY <1>3, <2>0, <2>2, <3>2 DEF D!Pop, D!Leave
    <3>3. QED BY <3>1, <3>2
  <2>3. CASE D!Wake(r)
    BY <1>3, <2>0, <2>3 DEF D!Wake
  <2>4. CASE D!WaitCancelled(r) \/ D!PauseCancelled(r)
    BY <1>3, <2>0, <2>4 DEF D!WaitCancelled, D!PauseCancelled, D!Leave
  <2>5. CASE D!Lookup(r)
    <3>1. CASE job[r] \in Malformed \/ kindOf[job[r]] \notin handlers
      BY <2>5, <3>1, FinishKeeps DEF D!Lookup
    <3>2. CASE ~(job[r] \in Malformed \/ kindOf[job[r]] \notin handlers)
      <4>1. /\ pc[r] = "lookup" /\ pc' = [pc EXCEPT ![r] = "handle"]
            /\ UNCHANGED <<items, pushed, consumed, job>>
        BY <2>5, <3>2 DEF D!Lookup
      <4>2. pc' \in [Runner -> D!PC]
        BY <1>0, <2>0, <4>1
      <4>3. \A q \in Runner : (pc'[q] \in {"lookup", "handle"})
                              = (pc[q] \in {"lookup", "handle"})
        BY <1>0, <4>1
      <4>4. QED BY <4>1, <4>2, <4>3, MoveKeeps
    <3>3. QED BY <3>1, <3>2
  <2>6. CASE D!HandlerSucceeds(r)
    BY <2>6, FinishKeeps DEF D!HandlerSucceeds
  <2>7. CASE D!HandlerFails(r)
    BY <2>7, FinishKeeps DEF D!HandlerFails
  <2>8. CASE D!PauseEnds(r)
    BY <1>3, <2>0, <2>8 DEF D!PauseEnds
  <2>9. QED BY <1>6, <2>1, <2>2, <2>3, <2>4, <2>5, <2>6, <2>7, <2>8 DEF D!Run
<1>7. CASE UNCHANGED D!vars
  BY <1>2, <1>7 DEF D!vars
<1>8. QED BY <1>1, <1>4, <1>5, <1>6, <1>7 DEF D!Next

\* However many runners pop, fail, pause and leave, an accepted job is in the
\* queue, in one runner's hands, or done, and in one of them only.
THEOREM JobsAreKept == Spec => []NoJobLost
PROOF
<1>1. Init => DInv
  BY DInvInit DEF Init
<1>2. DInv /\ [Next]_vars => DInv'
  BY DInvStep DEF Next, vars, dispatcherVars, D!vars
<1>3. DInv => NoJobLost
  BY DEF DInv, NoJobLost
<1>4. QED BY <1>1, <1>2, <1>3, PTL DEF Spec

----------------------------------------------------------------------------
(* The scheduler: what is scheduled *)

\* What Worker assumes of the scheduler.
Premises ==
  /\ idOf \in [Submission -> Id]
  /\ \A s \in Submission : S!Fresh(s) \in S!Entry
  /\ Cancellable \subseteq Id
  /\ MaxFailures \in Nat
  /\ NoEntry \notin S!Entry

Kept == {id \in Id : jobs[id] # NoEntry}

ASpan == [pc : {"new", "waiting", "running", "out"}, todo : Seq(S!Entry),
          elapsed : Nat]

\* Entries are under their ids; there are finitely many of them and of runners.
EntriesInPlace ==
  /\ jobs \in [Id -> S!Entry \cup {NoEntry}]
  /\ \A id \in Kept : idOf[jobs[id].work] = id /\ jobs[id].work \in added
  /\ IsFiniteSet(Kept) /\ IsFiniteSet(S!Started)
  /\ added \subseteq Submission
  /\ withdrawn \subseteq added /\ succeeded \subseteq added
  /\ failures \in [Submission -> Nat]
  /\ \A s \in Submission \ added : failures[s] = 0

\* Runners have copies only while they run, of submissions that were added.
CopiesInPlace ==
  /\ rn \in [Runner -> ASpan]
  /\ \A r \in Runner : (rn[r].todo # <<>>) = (rn[r].pc = "running")
  /\ \A r \in Runner : \A i \in DOMAIN rn[r].todo : rn[r].todo[i].work \in added

\* The entry the copy was made of is still there.
Current(copy) ==
  LET entry == jobs[idOf[copy.work]]
  IN  /\ entry # NoEntry
      /\ entry.work = copy.work
      /\ entry.attempts = copy.attempts
      /\ entry.set = copy.set

\* Only the work of the copy may be under its id.
Own(copy) ==
  LET entry == jobs[idOf[copy.work]]
  IN  idOf[copy.work] \notin overtaken /\ entry # NoEntry => entry.work = copy.work

CopiesOwn ==
  \A r \in Runner : \A i \in DOMAIN rn[r].todo : Own(rn[r].todo[i])

\* It was cancelled, or is current.
CancelledOrCurrent(copy) ==
  \/ idOf[copy.work] \in overtaken
  \/ copy.work \in withdrawn
  \/ Current(copy)

\* The copies in hand are of different ids, and each is current or cancelled.
CopiesCurrent ==
  \A r \in Runner : \A i \in DOMAIN rn[r].todo :
    /\ CancelledOrCurrent(rn[r].todo[i])
    /\ \A j \in DOMAIN rn[r].todo :
         idOf[rn[r].todo[i].work] = idOf[rn[r].todo[j].work] => i = j

Scheduled(s) == jobs[idOf[s]] # NoEntry /\ jobs[idOf[s]].work = s

OnlyUntilDone(s) ==
  /\ Scheduled(s) <=> s \notin succeeded \cup withdrawn
  /\ Scheduled(s) => jobs[idOf[s]].attempts = given[s].attempts + failures[s]

UntilDone == \A s \in added : idOf[s] \notin overtaken => OnlyUntilDone(s)

Single == \A r, q \in S!Started : r = q

SInv ==
  /\ EntriesInPlace /\ CopiesInPlace
  /\ CopiesOwn /\ S!CancelledStaysOut
  /\ Single => CopiesCurrent /\ UntilDone

----------------------------------------------------------------------------
(* The scheduler: steps *)

\* Nothing is scheduled to begin with.
LEMMA SInvInit == Premises /\ S!Init => SInv
PROOF
<1> SUFFICES ASSUME Premises, S!Init PROVE SInv
  OBVIOUS
<1>1. Kept = {} /\ S!Started = {}
  BY DEF S!Init, S!New, Kept, S!Started
<1>2. EntriesInPlace
  BY <1>1, FS_EmptySet DEF S!Init, EntriesInPlace
<1>3. rn \in [Runner -> ASpan] /\ \A r \in Runner : rn[r].todo = <<>>
  BY DEF S!Init, S!New, ASpan
<1>4. CopiesInPlace
  BY <1>3 DEF S!Init, S!New, CopiesInPlace
<1>5. S!CancelledStaysOut /\ UntilDone
  BY DEF S!Init, S!CancelledStaysOut, UntilDone
<1>6. CopiesOwn /\ CopiesCurrent
  BY <1>3 DEF CopiesOwn, CopiesCurrent
<1>7. QED BY <1>2, <1>4, <1>5, <1>6 DEF SInv

\* Who has begun has begun for good, so a single runner was single before.
LEMMA SingleBefore ==
  ASSUME \A r \in Runner : rn[r].pc # "new" => rn'[r].pc # "new", Single'
  PROVE  Single
PROOF
<1>1. S!Started \subseteq S!Started'
  BY DEF S!Started
<1>2. QED BY <1>1 DEF Single

\* Where runners are changes nothing, as long as none takes or drops a copy.
LEMMA MovesKeep ==
  ASSUME SInv, CopiesInPlace', IsFiniteSet(S!Started'),
         \A r \in Runner : /\ rn[r].pc # "new" => rn'[r].pc # "new"
                           /\ rn'[r].todo = rn[r].todo,
         UNCHANGED <<jobs, added, withdrawn, succeeded, failures, overtaken>>
  PROVE  SInv'
PROOF
<1>1. EntriesInPlace' /\ S!CancelledStaysOut'
  BY DEF SInv, EntriesInPlace, Kept, S!CancelledStaysOut
<1>2. UntilDone => UntilDone'
  BY DEF UntilDone, OnlyUntilDone, Scheduled
<1>3. CopiesCurrent => CopiesCurrent'
  BY DEF CopiesCurrent, CancelledOrCurrent, Current
<1>4. CopiesOwn'
  BY DEF SInv, CopiesOwn, Own
<1>5. QED BY <1>1, <1>2, <1>3, <1>4, SingleBefore DEF SInv

\* Add finds the id free and puts the first entry of the submission there.
LEMMA AddKeeps ==
  ASSUME Premises, SInv, NEW s \in Submission, S!Add(s)
  PROVE  SInv'
PROOF
<1> DEFINE e == S!Fresh(s)
<1>1. /\ s \notin added /\ jobs[idOf[s]] = NoEntry
      /\ jobs' = [jobs EXCEPT ![idOf[s]] = e] /\ added' = added \cup {s}
      /\ UNCHANGED <<withdrawn, succeeded, failures, rn>>
      /\ overtaken' = IF S!InHand(idOf[s]) THEN overtaken \cup {idOf[s]} ELSE overtaken
  BY DEF S!Add, S!NoteOvertaken
<1>2. /\ e \in S!Entry /\ e.work = s /\ e.attempts = given[s].attempts
      /\ e.attempts \in Nat /\ e # NoEntry
      /\ idOf[s] \in Id
  BY DEF Premises, S!Fresh, S!Entry
<1> HIDE DEF e
<1>3. /\ jobs \in [Id -> S!Entry \cup {NoEntry}]
      /\ jobs'[idOf[s]] = e
      /\ \A id \in Id : id # idOf[s] => jobs'[id] = jobs[id]
  BY <1>1, <1>2 DEF SInv, EntriesInPlace
<1>4. EntriesInPlace'
  <2>1. Kept' = Kept \cup {idOf[s]}
    BY <1>2, <1>3 DEF Kept
  <2>2. IsFiniteSet(Kept')
    BY <2>1, FS_AddElement DEF SInv, EntriesInPlace
  <2>3. S!Started' = S!Started
    BY <1>1 DEF S!Started
  <2>4. \A id \in Kept' : idOf[jobs'[id].work] = id /\ jobs'[id].work \in added'
    BY <1>1, <1>2, <1>3, <2>1 DEF SInv, EntriesInPlace, Kept
  <2>5. QED BY <1>1, <1>2, <1>3, <2>2, <2>3, <2>4 DEF SInv, EntriesInPlace
<1>5. CopiesInPlace'
  BY <1>1 DEF SInv, CopiesInPlace
<1>6. S!CancelledStaysOut'
  <2>1. s \notin withdrawn
    BY <1>1 DEF SInv, EntriesInPlace
  <2>2. \A id \in Id \ overtaken' : id \notin overtaken
    BY <1>1
  <2>3. QED BY <1>1, <1>2, <1>3, <2>1, <2>2 DEF SInv, S!CancelledStaysOut
<1>7. ASSUME NEW r \in Runner, NEW i \in DOMAIN rn[r].todo,
             idOf[rn[r].todo[i].work] \notin overtaken'
      PROVE  /\ idOf[rn[r].todo[i].work] \notin overtaken
             /\ jobs'[idOf[rn[r].todo[i].work]] = jobs[idOf[rn[r].todo[i].work]]
  <2>1. rn[r].todo[i].work \in Submission
    BY <1>7 DEF SInv, CopiesInPlace, EntriesInPlace
  <2>2. idOf[rn[r].todo[i].work] # idOf[s]
    BY <1>1, <1>7 DEF S!InHand
  <2>3. QED BY <1>1, <1>3, <1>7, <2>1, <2>2 DEF Premises
<1>8. CopiesOwn'
  BY <1>1, <1>7 DEF SInv, CopiesOwn, Own
<1>9. ASSUME Single' PROVE CopiesCurrent' /\ UntilDone'
  <2>1. CopiesCurrent /\ UntilDone
    BY <1>1, <1>9, SingleBefore DEF SInv
  <2>2. CopiesCurrent'
    BY <1>1, <1>7, <2>1 DEF CopiesCurrent, CancelledOrCurrent, Current
  <2>3. UntilDone'
    <3>1. SUFFICES ASSUME NEW t \in added', idOf[t] \notin overtaken
          PROVE  /\ Scheduled(t)' <=> t \notin succeeded \cup withdrawn
                 /\ Scheduled(t)' => jobs'[idOf[t]].attempts
                                     = given[t].attempts + failures[t]
      BY <1>1 DEF UntilDone, OnlyUntilDone, Scheduled
    <3>2. CASE t = s
      <4>1. s \notin succeeded \cup withdrawn
        BY <1>1 DEF SInv, EntriesInPlace
      <4>2. failures[s] = 0
        BY <1>1 DEF SInv, EntriesInPlace
      <4>3. QED BY <1>2, <1>3, <3>2, <4>1, <4>2 DEF Scheduled
    <3>3. CASE t # s
      <4>1. t \in added /\ idOf[t] \in Id
        BY <1>1, <3>3 DEF SInv, EntriesInPlace, Premises
      <4>2. CASE idOf[t] = idOf[s]
        BY <1>1, <1>2, <1>3, <2>1, <3>1, <3>3, <4>1, <4>2
           DEF UntilDone, OnlyUntilDone, Scheduled
      <4>3. CASE idOf[t] # idOf[s]
        BY <1>1, <1>3, <2>1, <3>1, <4>1, <4>3 DEF UntilDone, OnlyUntilDone, Scheduled
      <4>4. QED BY <4>2, <4>3
    <3>4. QED BY <3>2, <3>3
  <2>4. QED BY <2>2, <2>3
<1>10. QED BY <1>4, <1>5, <1>6, <1>9, <1>8 DEF SInv

\* Cancel deletes an entry; copies of it are cancelled with it.
LEMMA CancelKeeps ==
  ASSUME Premises, SInv, NEW id \in Cancellable, S!Cancel(id)
  PROVE  SInv'
PROOF
<1> DEFINE s == jobs[id].work
<1>1. /\ id \in Kept /\ jobs' = [jobs EXCEPT ![id] = NoEntry]
      /\ withdrawn' = withdrawn \cup {s}
      /\ UNCHANGED <<added, succeeded, failures, rn, overtaken>>
  BY DEF S!Cancel, Kept, Premises
<1>2. s \in added /\ idOf[s] = id /\ added \subseteq Submission
  BY <1>1 DEF SInv, EntriesInPlace
<1> HIDE DEF s
<1>3. /\ jobs \in [Id -> S!Entry \cup {NoEntry}]
      /\ jobs' \in [Id -> S!Entry \cup {NoEntry}]
      /\ jobs'[id] = NoEntry
      /\ \A k \in Id : k # id => jobs'[k] = jobs[k]
  BY <1>1 DEF SInv, EntriesInPlace, Kept
<1>4. EntriesInPlace'
  <2>1. Kept' \subseteq Kept
    BY <1>3 DEF Kept
  <2>2. IsFiniteSet(Kept')
    BY <2>1, FS_Subset DEF SInv, EntriesInPlace
  <2>3. S!Started' = S!Started
    BY <1>1 DEF S!Started
  <2>4. \A k \in Kept' : idOf[jobs'[k].work] = k /\ jobs'[k].work \in added'
    BY <1>1, <1>3, <2>1 DEF SInv, EntriesInPlace, Kept
  <2>5. QED BY <1>1, <1>2, <1>3, <2>2, <2>3, <2>4 DEF SInv, EntriesInPlace
<1>5. CopiesInPlace'
  BY <1>1 DEF SInv, CopiesInPlace
<1>6. S!CancelledStaysOut'
  <2>1. SUFFICES ASSUME NEW k \in Id \ overtaken, k # id, jobs[k] # NoEntry
                 PROVE  jobs[k].work \notin withdrawn \cup {s}
    BY <1>1, <1>3 DEF S!CancelledStaysOut
  <2>2. idOf[jobs[k].work] = k
    BY <2>1 DEF SInv, EntriesInPlace, Kept
  <2>3. QED BY <1>2, <2>1, <2>2 DEF SInv, S!CancelledStaysOut
<1>7. CopiesOwn'
  <2>1. SUFFICES ASSUME NEW r \in Runner, NEW i \in DOMAIN rn[r].todo
                 PROVE  Own(rn[r].todo[i])'
    BY <1>1 DEF CopiesOwn
  <2>2. idOf[rn[r].todo[i].work] \in Id /\ Own(rn[r].todo[i])
    BY DEF SInv, CopiesInPlace, EntriesInPlace, Premises, CopiesOwn
  <2>3. QED BY <1>1, <1>3, <2>2 DEF Own
<1>8. ASSUME Single' PROVE CopiesCurrent' /\ UntilDone'
  <2>1. CopiesCurrent /\ UntilDone
    BY <1>1, <1>8, SingleBefore DEF SInv
  <2>2. \A t \in added : idOf[t] \in Id
    BY <1>2 DEF Premises
  <2>3. CopiesCurrent'
    <3>1. ASSUME NEW r \in Runner, NEW i \in DOMAIN rn[r].todo,
                 Current(rn[r].todo[i]), rn[r].todo[i].work # s
          PROVE  Current(rn[r].todo[i])'
      <4>1. idOf[rn[r].todo[i].work] \in Id \ {id}
        BY <2>2, <3>1 DEF SInv, CopiesInPlace, Current, s
      <4>2. QED BY <1>1, <1>3, <3>1, <4>1 DEF Current
    <3>2. \A r \in Runner : \A i \in DOMAIN rn[r].todo :
            CancelledOrCurrent(rn[r].todo[i]) => CancelledOrCurrent(rn[r].todo[i])'
      BY <1>1, <3>1 DEF CancelledOrCurrent
    <3>3. QED BY <1>1, <2>1, <3>2 DEF CopiesCurrent
  <2>4. UntilDone'
    <3>1. SUFFICES ASSUME NEW t \in added, idOf[t] \notin overtaken
          PROVE  /\ Scheduled(t)' <=> t \notin succeeded \cup withdrawn'
                 /\ Scheduled(t)' => jobs'[idOf[t]].attempts
                                     = given[t].attempts + failures[t]
      BY <1>1 DEF UntilDone, OnlyUntilDone, Scheduled
    <3>2. CASE t = s
      BY <1>1, <1>2, <1>3, <3>2 DEF Scheduled
    <3>3. CASE t # s
      <4>1. OnlyUntilDone(t)
        BY <2>1, <3>1 DEF UntilDone
      <4>2. CASE idOf[t] = id
        BY <1>1, <1>3, <3>3, <4>1, <4>2 DEF OnlyUntilDone, Scheduled, s
      <4>3. CASE idOf[t] # id
        BY <1>1, <1>3, <2>2, <3>3, <4>1, <4>3 DEF OnlyUntilDone, Scheduled
      <4>4. QED BY <4>2, <4>3
    <3>4. QED BY <3>2, <3>3
  <2>5. QED BY <2>3, <2>4
<1>9. QED BY <1>4, <1>5, <1>6, <1>8, <1>7 DEF SInv

\* A runner enters Run, or leaves it.
LEMMA EnterKeeps ==
  ASSUME SInv, NEW r \in Runner, S!Start(r) \/ S!Leave(r)
  PROVE  SInv'
PROOF
<1>1. /\ rn \in [Runner -> ASpan] /\ rn[r].pc # "running" /\ rn[r].todo = <<>>
      /\ UNCHANGED <<jobs, added, withdrawn, succeeded, failures, overtaken>>
  BY DEF SInv, CopiesInPlace, S!Start, S!Leave
<1>2. PICK to \in {S!Waiting, S!Out} : rn' = [rn EXCEPT ![r] = to]
  BY DEF S!Start, S!Leave
<1>3. to \in ASpan /\ to.todo = <<>> /\ to.pc # "running" /\ to.pc # "new"
  <2>1. <<>> \in Seq(S!Entry) /\ 0 \in Nat
    OBVIOUS
  <2>2. CASE to = S!Waiting
    BY <2>1, <2>2 DEF S!Waiting, ASpan
  <2>3. CASE to = S!Out
    BY <2>1, <2>3 DEF S!Out, ASpan
  <2>4. QED BY <1>2, <2>2, <2>3
<1>4. /\ rn' \in [Runner -> ASpan] /\ rn'[r] = to
      /\ \A q \in Runner : q # r => rn'[q] = rn[q]
  BY <1>1, <1>2, <1>3
<1>5. CopiesInPlace'
  BY <1>1, <1>3, <1>4 DEF SInv, CopiesInPlace
<1>6. IsFiniteSet(S!Started')
  <2>1. S!Started' = S!Started \cup {r}
    BY <1>3, <1>4 DEF S!Started
  <2>2. QED BY <2>1, FS_AddElement DEF SInv, EntriesInPlace
<1>7. \A q \in Runner : /\ rn[q].pc # "new" => rn'[q].pc # "new"
                        /\ rn'[q].todo = rn[q].todo
  BY <1>1, <1>3, <1>4
<1>8. QED BY <1>1, <1>5, <1>6, <1>7, MovesKeep

\* The runner copies entries that are due, each once.
LEMMA SnapshotKeeps ==
  ASSUME SInv, NEW r \in Runner, S!Snapshot(r)
  PROVE  SInv'
PROOF
<1>1. PICK order \in S!SetToSeqs(S!Due) :
        rn' = [rn EXCEPT ![r] =
                 [pc |-> "running",
                  todo |-> [i \in DOMAIN order |-> jobs[order[i]]],
                  elapsed |-> 0]]
  BY DEF S!Snapshot
<1>2. /\ rn[r].pc = "waiting" /\ rn \in [Runner -> ASpan] /\ S!Due # {}
      /\ UNCHANGED <<jobs, added, withdrawn, succeeded, failures, overtaken>>
  BY DEF SInv, CopiesInPlace, S!Snapshot
<1>3. S!Due \subseteq Kept /\ IsFiniteSet(S!Due)
  <2>1. S!Due \subseteq Kept
    BY DEF S!Due, Kept
  <2>2. QED BY <2>1, FS_Subset DEF SInv, EntriesInPlace
<1> DEFINE n == Cardinality(S!Due)
           todo == [i \in DOMAIN order |-> jobs[order[i]]]
           now == [pc |-> "running", todo |-> todo, elapsed |-> 0]
<1>4. n \in Nat /\ n # 0
  BY <1>2, <1>3, FS_CardinalityType, FS_EmptySet
<1>5. /\ DOMAIN order = 1 .. n
      /\ \A i \in 1 .. n : order[i] \in S!Due
      /\ \A i, j \in 1 .. n : order[i] = order[j] => i = j
  BY <1>1 DEF S!SetToSeqs, S!Cardinality, Cardinality
<1> HIDE DEF n
<1>6. \A i \in 1 .. n : /\ order[i] \in Kept /\ jobs[order[i]] \in S!Entry
                        /\ jobs[order[i]] # NoEntry
                        /\ idOf[jobs[order[i]].work] = order[i]
                        /\ jobs[order[i]].work \in added
  BY <1>3, <1>5 DEF SInv, EntriesInPlace, Kept
<1>7. /\ todo \in Seq(S!Entry) /\ DOMAIN todo = 1 .. n
      /\ \A i \in 1 .. n : todo[i] = jobs[order[i]]
      /\ todo # <<>>
  <2>1. todo \in [1 .. n -> S!Entry]
    BY <1>5, <1>6
  <2>2. todo \in Seq(S!Entry) /\ Len(todo) = n
    BY <1>4, <2>1
  <2>3. QED BY <1>4, <1>5, <2>2
<1> HIDE DEF todo
<1>8. now \in ASpan /\ now.todo = todo /\ now.pc = "running"
  BY <1>7 DEF ASpan
<1>9. /\ rn' \in [Runner -> ASpan] /\ rn'[r] = now
      /\ \A q \in Runner : q # r => rn'[q] = rn[q]
  BY <1>1, <1>2, <1>8 DEF todo
<1> HIDE DEF now
<1>10. CopiesInPlace'
  <2>1. \A q \in Runner : (rn'[q].todo # <<>>) = (rn'[q].pc = "running")
    BY <1>7, <1>8, <1>9 DEF SInv, CopiesInPlace
  <2>2. \A i \in DOMAIN todo : todo[i].work \in added
    BY <1>6, <1>7
  <2>3. \A q \in Runner : \A i \in DOMAIN rn'[q].todo :
          rn'[q].todo[i].work \in added'
    BY <1>2, <1>8, <1>9, <2>2 DEF SInv, CopiesInPlace
  <2>4. QED BY <1>9, <2>1, <2>3 DEF CopiesInPlace
<1>11. S!Started' = S!Started
  BY <1>2, <1>8, <1>9 DEF S!Started
<1>12. EntriesInPlace' /\ S!CancelledStaysOut'
  BY <1>2, <1>11 DEF SInv, EntriesInPlace, Kept, S!CancelledStaysOut
<1>13. \A i \in DOMAIN todo :
         /\ Current(todo[i]) /\ Own(todo[i])
         /\ \A j \in DOMAIN todo :
              idOf[todo[i].work] = idOf[todo[j].work] => i = j
  BY <1>5, <1>6, <1>7 DEF Current, Own
<1>14. CopiesOwn'
  BY <1>2, <1>8, <1>9, <1>13 DEF SInv, CopiesOwn, Own
<1>15. ASSUME Single' PROVE CopiesCurrent' /\ UntilDone'
  <2>1. CopiesCurrent /\ UntilDone
    BY <1>11, <1>15 DEF SInv, Single
  <2>2. UntilDone'
    BY <1>2, <2>1 DEF UntilDone, OnlyUntilDone, Scheduled
  <2>3. CopiesCurrent'
    BY <1>2, <1>8, <1>9, <1>13, <2>1 DEF CopiesCurrent, CancelledOrCurrent, Current
  <2>4. QED BY <2>2, <2>3
<1>16. QED BY <1>10, <1>12, <1>14, <1>15 DEF SInv

\* Time brings entries closer; copies stay copies of them.
LEMMA TickKeeps ==
  ASSUME Premises, SInv, S!Tick
  PROVE  SInv'
PROOF
<1>1. /\ jobs \in [Id -> S!Entry \cup {NoEntry}] /\ rn \in [Runner -> ASpan]
      /\ jobs' = [id \in Id |->
                    IF jobs[id] = NoEntry THEN NoEntry
                    ELSE [jobs[id] EXCEPT !.next = S!Minus(@, 1)]]
      /\ UNCHANGED <<added, withdrawn, succeeded, failures, overtaken>>
  BY DEF SInv, EntriesInPlace, CopiesInPlace, S!Tick
<1>2. \A id \in Id \ Kept : jobs'[id] = NoEntry
  BY <1>1 DEF Kept
<1>3. ASSUME NEW id \in Kept
      PROVE  /\ jobs'[id] \in S!Entry /\ jobs'[id] # NoEntry
             /\ jobs'[id].work = jobs[id].work
             /\ jobs'[id].attempts = jobs[id].attempts
             /\ jobs'[id].set = jobs[id].set
  <2> DEFINE e == jobs[id]
             f == [e EXCEPT !.next = S!Minus(@, 1)]
  <2>1. e \in S!Entry /\ jobs'[id] = f
    BY <1>1, <1>3 DEF Kept
  <2>2. e.next \in Nat /\ S!Minus(e.next, 1) \in Nat
    BY <2>1 DEF S!Entry, S!Minus
  <2> HIDE DEF e
  <2>3. /\ f \in S!Entry /\ f.work = e.work /\ f.attempts = e.attempts
        /\ f.set = e.set
    BY <2>1, <2>2 DEF S!Entry
  <2> HIDE DEF f
  <2>4. QED BY <2>1, <2>3 DEF e, Premises
<1>4. Kept' = Kept
  BY <1>2, <1>3 DEF Kept
<1>5. \A r \in Runner : /\ rn'[r] \in ASpan /\ rn'[r].todo = rn[r].todo
                        /\ rn'[r].pc = rn[r].pc
  <2>1. SUFFICES ASSUME NEW r \in Runner
        PROVE  /\ rn'[r] \in ASpan /\ rn'[r].todo = rn[r].todo
               /\ rn'[r].pc = rn[r].pc
    OBVIOUS
  <2> DEFINE a == rn[r]
             b == [a EXCEPT !.elapsed = @ + 1]
  <2>2. a \in ASpan /\ rn'[r] \in {a, b}
    BY <1>1 DEF S!Tick
  <2> HIDE DEF a
  <2>3. b \in ASpan /\ b.todo = a.todo /\ b.pc = a.pc
    BY <2>2 DEF ASpan
  <2> HIDE DEF b
  <2>4. QED BY <2>2, <2>3 DEF a
<1>6. rn' \in [Runner -> ASpan] /\ S!Started' = S!Started
  <2>1. rn' = [r \in Runner |-> rn'[r]]
    BY DEF S!Tick
  <2>2. QED BY <1>5, <2>1 DEF S!Started
<1>7. CopiesInPlace'
  BY <1>1, <1>5, <1>6 DEF SInv, CopiesInPlace
<1>8. EntriesInPlace'
  <2>1. jobs' = [id \in Id |-> jobs'[id]]
    BY <1>1
  <2>2. jobs' \in [Id -> S!Entry \cup {NoEntry}]
    BY <1>2, <1>3, <2>1
  <2>3. \A id \in Kept' : idOf[jobs'[id].work] = id /\ jobs'[id].work \in added'
    <3>1. SUFFICES ASSUME NEW id \in Kept
                   PROVE  idOf[jobs'[id].work] = id /\ jobs'[id].work \in added
      BY <1>1, <1>4
    <3>2. idOf[jobs[id].work] = id /\ jobs[id].work \in added
      BY DEF SInv, EntriesInPlace
    <3>3. QED BY <1>3, <3>2
  <2>4. QED BY <1>1, <1>4, <1>6, <2>2, <2>3 DEF SInv, EntriesInPlace
<1>9. S!CancelledStaysOut'
  BY <1>1, <1>2, <1>3 DEF SInv, S!CancelledStaysOut, Kept
<1>10. ASSUME Single' PROVE CopiesCurrent' /\ UntilDone'
  <2>1. CopiesCurrent /\ UntilDone
    BY <1>6, <1>10 DEF SInv, Single
  <2>2. \A s \in added : idOf[s] \in Id
    BY DEF SInv, EntriesInPlace, Premises
  <2>3. UntilDone'
    BY <1>1, <1>2, <1>3, <2>1, <2>2 DEF UntilDone, OnlyUntilDone, Scheduled, Kept
  <2>4. CopiesCurrent'
    <3>1. ASSUME NEW r \in Runner, NEW i \in DOMAIN rn[r].todo,
                 Current(rn[r].todo[i])
          PROVE  Current(rn[r].todo[i])'
      <4>1. idOf[rn[r].todo[i].work] \in Kept
        BY <2>2, <3>1 DEF Current, SInv, CopiesInPlace, Kept
      <4>2. rn'[r].todo = rn[r].todo
        BY <1>5
      <4>3. QED BY <1>3, <3>1, <4>1, <4>2 DEF Current
    <3>2. QED BY <1>1, <1>5, <2>1, <3>1 DEF CopiesCurrent, CancelledOrCurrent
  <2>5. QED BY <2>3, <2>4
<1>11. CopiesOwn'
  <2>1. SUFFICES ASSUME NEW r \in Runner, NEW i \in DOMAIN rn[r].todo
                 PROVE  Own(rn[r].todo[i])'
    BY <1>5 DEF CopiesOwn
  <2>2. PICK c : c = rn[r].todo[i]
    OBVIOUS
  <2>3. c = rn'[r].todo[i]
    BY <1>5, <2>2
  <2>4. idOf[c.work] \in Id /\ Own(c)
    BY <2>2 DEF SInv, CopiesInPlace, EntriesInPlace, Premises, CopiesOwn
  <2>5. ASSUME idOf[c.work] \notin overtaken, jobs'[idOf[c.work]] # NoEntry
        PROVE  jobs'[idOf[c.work]].work = c.work
    BY <1>2, <1>3, <2>4, <2>5 DEF Own, Kept
  <2>6. QED BY <1>1, <2>3, <2>5 DEF Own
<1>12. QED BY <1>7, <1>8, <1>9, <1>10, <1>11 DEF SInv

\* A runner that is done with its first copy has the others left.
LEMMA AdvanceDrops ==
  ASSUME CopiesInPlace, NEW r \in Runner, rn[r].pc = "running", S!Advance(r)
  PROVE  /\ 1 \in DOMAIN rn[r].todo /\ Head(rn[r].todo) = rn[r].todo[1]
         /\ rn[r].todo[1] \in S!Entry
         /\ rn' \in [Runner -> ASpan]
         /\ \A q \in Runner : q # r => rn'[q] = rn[q]
         /\ (rn'[r].todo # <<>>) = (rn'[r].pc = "running")
         /\ \A i \in DOMAIN rn'[r].todo :
              /\ i + 1 \in DOMAIN rn[r].todo /\ i + 1 # 1 /\ i \in Nat
              /\ rn'[r].todo[i] = rn[r].todo[i + 1]
         /\ S!Started' = S!Started
PROOF
<1> DEFINE a == rn[r]
           todo == a.todo
           rest == Tail(todo)
           b == IF Len(todo) = 1 THEN S!Waiting ELSE [a EXCEPT !.todo = rest]
<1>1. /\ rn \in [Runner -> ASpan] /\ a \in ASpan /\ todo # <<>>
      /\ todo \in Seq(S!Entry) /\ a.pc = "running"
      /\ rn' = [rn EXCEPT ![r] = b]
  BY DEF CopiesInPlace, S!Advance, ASpan
<1> HIDE DEF a
<1>2. /\ DOMAIN todo = 1 .. Len(todo) /\ Len(todo) \in Nat \ {0}
      /\ Head(todo) = todo[1] /\ todo[1] \in S!Entry
      /\ rest \in Seq(S!Entry) /\ Len(rest) = Len(todo) - 1
      /\ DOMAIN rest = 1 .. (Len(todo) - 1)
      /\ \A i \in 1 .. (Len(todo) - 1) : rest[i] = todo[i + 1]
  BY <1>1
<1> HIDE DEF todo, rest
<1>3. /\ b \in ASpan /\ (b.todo # <<>>) = (b.pc = "running") /\ b.pc # "new"
      /\ \A i \in DOMAIN b.todo :
           /\ i + 1 \in DOMAIN todo /\ i + 1 # 1 /\ i \in Nat
           /\ b.todo[i] = todo[i + 1]
  <2>1. CASE Len(todo) = 1
    <3>1. b = S!Waiting /\ <<>> \in Seq(S!Entry) /\ DOMAIN <<>> = {}
      BY <2>1
    <3> HIDE DEF b
    <3>2. QED BY <3>1 DEF S!Waiting, ASpan
  <2>2. CASE Len(todo) # 1
    <3>1. b = [a EXCEPT !.todo = rest]
      BY <2>2
    <3> HIDE DEF b
    <3>2. b \in ASpan /\ b.todo = rest /\ b.pc = "running"
      BY <1>1, <1>2, <3>1 DEF ASpan
    <3>3. rest # <<>>
      BY <1>2, <2>2
    <3>4. QED BY <1>2, <3>2, <3>3
  <2>3. QED BY <2>1, <2>2
<1> HIDE DEF b
<1>4. /\ rn' \in [Runner -> ASpan] /\ rn'[r] = b
      /\ \A q \in Runner : q # r => rn'[q] = rn[q]
  BY <1>1, <1>3
<1>5. S!Started' = S!Started
  BY <1>1, <1>3, <1>4 DEF S!Started, a
<1>6. QED BY <1>2, <1>3, <1>4, <1>5 DEF a, todo

\* What the second lock section writes is that of the entry the copy is of:
\* a finished run deletes it, a failed one puts it back.
LEMMA WriteBackKeeps ==
  ASSUME Premises, SInv, NEW r \in Runner, rn[r].pc = "running",
         S!Advance(r), NEW copy, copy = Head(rn[r].todo),
         NEW e \in S!Entry \cup {NoEntry},
         jobs' = IF S!Unchanged(copy)
                   THEN [jobs EXCEPT ![idOf[copy.work]] = e]
                   ELSE jobs,
         UNCHANGED <<added, withdrawn, overtaken>>,
         \/ /\ e = NoEntry /\ failures' = failures
            /\ succeeded' = succeeded \cup {copy.work}
         \/ /\ e # NoEntry /\ e.work = copy.work
            /\ e.attempts = copy.attempts + 1
            /\ failures' = [failures EXCEPT ![copy.work] = @ + 1]
            /\ succeeded' = succeeded
  PROVE  SInv'
PROOF
<1> DEFINE s == copy.work
           id == idOf[s]
           todo == rn[r].todo
<1>1. /\ 1 \in DOMAIN todo /\ copy = todo[1] /\ copy \in S!Entry
      /\ rn' \in [Runner -> ASpan]
      /\ \A q \in Runner : q # r => rn'[q] = rn[q]
      /\ (rn'[r].todo # <<>>) = (rn'[r].pc = "running")
      /\ \A i \in DOMAIN rn'[r].todo :
           /\ i + 1 \in DOMAIN todo /\ i + 1 # 1 /\ i \in Nat
           /\ rn'[r].todo[i] = todo[i + 1]
      /\ S!Started' = S!Started
  BY AdvanceDrops DEF SInv
<1>2. s \in added /\ s \in Submission /\ id \in Id
  BY <1>1 DEF SInv, CopiesInPlace, EntriesInPlace, Premises
<1>3. /\ jobs \in [Id -> S!Entry \cup {NoEntry}]
      /\ jobs' \in [Id -> S!Entry \cup {NoEntry}]
      /\ \A k \in Id : k # id => jobs'[k] = jobs[k]
      /\ jobs'[id] = IF S!Unchanged(copy) THEN e ELSE jobs[id]
      /\ S!Unchanged(copy) => jobs[id] # NoEntry
  BY <1>2 DEF SInv, EntriesInPlace, S!Unchanged
<1>4. Current(copy) => S!Unchanged(copy) /\ jobs[id].work = s
                       /\ jobs[id].attempts = copy.attempts
  BY DEF Current, S!Unchanged
<1>5. /\ \A k \in Kept : idOf[jobs[k].work] = k /\ jobs[k].work \in added
      /\ \A k \in Kept \ overtaken : jobs[k].work \notin withdrawn
      /\ id \in Kept \ overtaken => jobs[id].work = s
  <2>1. \A k \in Kept : /\ idOf[jobs[k].work] = k /\ jobs[k].work \in added
                        /\ k \notin overtaken => jobs[k].work \notin withdrawn
    BY DEF SInv, EntriesInPlace, S!CancelledStaysOut, Kept
  <2>2. Own(copy)
    BY <1>1 DEF SInv, CopiesOwn
  <2>3. QED BY <2>1, <2>2 DEF Own, Kept
<1>6. id \in Kept \ overtaken => s \notin withdrawn
  BY <1>5
<1> HIDE DEF s, id, todo
<1>7. \A k \in Kept' : /\ k \in Kept /\ idOf[jobs'[k].work] = k
                       /\ jobs'[k].work \in added
                       /\ k \notin overtaken => jobs'[k].work \notin withdrawn
  <2>1. SUFFICES ASSUME NEW k \in Id, jobs'[k] # NoEntry
        PROVE  /\ k \in Kept /\ idOf[jobs'[k].work] = k
               /\ jobs'[k].work \in added
               /\ k \notin overtaken => jobs'[k].work \notin withdrawn
    BY DEF Kept
  <2>2. CASE jobs'[k] = jobs[k]
    BY <1>5, <2>1, <2>2 DEF Kept
  <2>3. CASE k = id /\ S!Unchanged(copy) /\ jobs'[k] = e
    BY <1>2, <1>3, <1>6, <2>1, <2>3 DEF Kept, s, id
  <2>4. QED BY <1>3, <2>1, <2>2, <2>3
<1>8. EntriesInPlace'
  <2>1. IsFiniteSet(Kept') /\ IsFiniteSet(S!Started')
    BY <1>1, <1>7, FS_Subset DEF SInv, EntriesInPlace
  <2>2. failures' \in [Submission -> Nat] /\ succeeded' \subseteq added
    BY <1>2 DEF SInv, EntriesInPlace, s
  <2>3. \A t \in Submission \ added : failures'[t] = 0
    BY <1>2 DEF SInv, EntriesInPlace, s
  <2>4. /\ added \subseteq Submission /\ withdrawn \subseteq added
        /\ added' = added /\ withdrawn' = withdrawn
    BY DEF SInv, EntriesInPlace
  <2>5. \A k \in Kept' : idOf[jobs'[k].work] = k /\ jobs'[k].work \in added'
    BY <1>7, <2>4
  <2>6. QED BY <1>3, <2>1, <2>2, <2>3, <2>4, <2>5 DEF EntriesInPlace
<1>9. CopiesInPlace'
  <2>1. \A q \in Runner : (rn'[q].todo # <<>>) = (rn'[q].pc = "running")
    BY <1>1 DEF SInv, CopiesInPlace
  <2>2. \A q \in Runner : \A i \in DOMAIN rn'[q].todo :
          rn'[q].todo[i].work \in added
    BY <1>1 DEF SInv, CopiesInPlace, todo
  <2>3. QED BY <1>1, <2>1, <2>2 DEF CopiesInPlace
<1>10. S!CancelledStaysOut'
  BY <1>7 DEF S!CancelledStaysOut, Kept
<1>11. CopiesOwn'
  <2>1. SUFFICES ASSUME NEW q \in Runner, NEW i \in DOMAIN rn'[q].todo
                 PROVE  Own(rn[q].todo[i])'
    BY DEF CopiesOwn
  <2>2. PICK c : c = rn'[q].todo[i]
    OBVIOUS
  <2>3. \E j \in DOMAIN rn[q].todo : c = rn[q].todo[j]
    <3>1. CASE q = r
      BY <1>1, <2>1, <2>2, <3>1 DEF todo
    <3>2. CASE q # r
      BY <1>1, <2>1, <2>2, <3>2
    <3>3. QED BY <3>1, <3>2
  <2>4. idOf[c.work] \in Id /\ Own(c)
    BY <2>3 DEF SInv, CopiesInPlace, EntriesInPlace, Premises, CopiesOwn
  <2>5. ASSUME idOf[c.work] \notin overtaken, jobs'[idOf[c.work]] # NoEntry
        PROVE  jobs'[idOf[c.work]].work = c.work
    <3>1. CASE jobs'[idOf[c.work]] = jobs[idOf[c.work]]
      BY <2>4, <2>5, <3>1 DEF Own
    <3>2. CASE idOf[c.work] = id /\ S!Unchanged(copy) /\ jobs'[id] = e
      <4>1. e.work = s /\ id \in Kept
        BY <1>2, <1>3, <2>5, <3>2 DEF Kept, s
      <4>2. jobs[id].work = s /\ jobs[id].work = c.work
        BY <1>5, <2>4, <2>5, <3>2, <4>1 DEF Own, Kept
      <4>3. QED BY <3>2, <4>1, <4>2
    <3>3. QED BY <1>3, <2>4, <3>1, <3>2
  <2>6. QED BY <2>2, <2>5 DEF Own
<1>12. ASSUME Single' PROVE CopiesCurrent' /\ UntilDone'
  <2>1. CopiesCurrent /\ UntilDone
    BY <1>1, <1>12 DEF SInv, Single
  <2>2. CopiesCurrent'
    <3>1. SUFFICES ASSUME NEW i \in DOMAIN rn'[r].todo
          PROVE  /\ CancelledOrCurrent(rn[r].todo[i])'
                 /\ \A j \in DOMAIN rn'[r].todo :
                      idOf[rn'[r].todo[i].work] = idOf[rn'[r].todo[j].work]
                        => i = j
      <4>1. \A q \in Runner : q # r => rn'[q].todo = <<>>
        BY <1>1, <1>12 DEF SInv, CopiesInPlace, Single, S!Started
      <4>2. \A q \in Runner : \A i \in DOMAIN rn'[q].todo : q = r
        BY <4>1
      <4>3. QED BY <3>1, <4>2 DEF CopiesCurrent
    <3>2. \A j \in DOMAIN rn'[r].todo :
            idOf[rn'[r].todo[i].work] = idOf[rn'[r].todo[j].work] => i = j
      <4>1. SUFFICES ASSUME NEW j \in DOMAIN rn'[r].todo,
                            idOf[todo[i + 1].work] = idOf[todo[j + 1].work]
                     PROVE  i = j
        BY <1>1
      <4>2. i + 1 = j + 1
        BY <1>1, <2>1, <4>1 DEF CopiesCurrent, todo
      <4>3. QED BY <1>1, <4>2
    <3>3. PICK c : c = todo[i + 1]
      OBVIOUS
    <3>4. rn'[r].todo[i] = c /\ CancelledOrCurrent(c)
      BY <1>1, <2>1, <3>3 DEF CopiesCurrent, todo
    <3>5. idOf[c.work] # id
      BY <1>1, <2>1, <3>3 DEF CopiesCurrent, todo, id, s
    <3>6. idOf[c.work] \in Id
      BY <1>1, <3>1, <3>3
         DEF SInv, CopiesInPlace, EntriesInPlace, Premises, todo
    <3>7. CancelledOrCurrent(c) => CancelledOrCurrent(c)'
      BY <1>3, <3>5, <3>6 DEF CancelledOrCurrent, Current
    <3>8. CancelledOrCurrent(c)' = CancelledOrCurrent(rn[r].todo[i])'
      BY <3>4 DEF CancelledOrCurrent, Current
    <3>9. QED BY <3>2, <3>4, <3>7, <3>8
  <2>3. id \in overtaken \/ s \in withdrawn \/ Current(copy)
    BY <1>1, <2>1 DEF CopiesCurrent, CancelledOrCurrent, todo, s, id
  <2>4. UntilDone'
    <3>1. SUFFICES ASSUME NEW t \in added, idOf[t] \notin overtaken
          PROVE  /\ Scheduled(t)' <=> t \notin succeeded' \cup withdrawn
                 /\ Scheduled(t)' => jobs'[idOf[t]].attempts
                                     = given[t].attempts + failures'[t]
      BY DEF UntilDone, OnlyUntilDone, Scheduled
    <3>2. /\ idOf[t] \in Id /\ t \in Submission
          /\ failures \in [Submission -> Nat]
      BY DEF SInv, EntriesInPlace, Premises
    <3>3. CASE t # s
      <4>1. (t \in succeeded' <=> t \in succeeded) /\ failures'[t] = failures[t]
        BY <1>2, <3>2, <3>3 DEF s
      <4>2. OnlyUntilDone(t)
        BY <2>1, <3>1 DEF UntilDone
      <4>3. CASE idOf[t] # id
        BY <1>3, <3>2, <4>1, <4>2, <4>3 DEF OnlyUntilDone, Scheduled
      <4>4. CASE idOf[t] = id
        <5>1. id \in Kept => jobs[id].work = s
          BY <1>5, <3>1, <4>4
        <5>2. ~Scheduled(t) /\ ~Scheduled(t)'
          BY <1>2, <1>3, <3>3, <4>4, <5>1 DEF Scheduled, Kept, s
        <5>3. QED BY <4>1, <4>2, <5>2 DEF OnlyUntilDone
      <4>5. QED BY <4>3, <4>4
    <3>4. CASE t = s /\ s \in withdrawn
      <4>1. jobs[id] = NoEntry /\ jobs'[id] = NoEntry
        BY <1>2, <1>3, <1>6, <3>1, <3>4 DEF Kept, id
      <4>2. QED BY <3>4, <4>1 DEF Scheduled, id
    <3>5. CASE t = s /\ s \notin withdrawn
      <4>1. /\ S!Unchanged(copy) /\ Scheduled(s) /\ jobs'[id] = e
            /\ jobs[id].attempts = copy.attempts
        BY <1>3, <1>4, <2>3, <3>1, <3>5 DEF Scheduled, id
      <4>2. s \notin succeeded /\ copy.attempts = given[s].attempts + failures[s]
        BY <1>2, <2>1, <3>1, <3>5, <4>1 DEF UntilDone, OnlyUntilDone, id
      <4>3. Scheduled(s)' <=> e # NoEntry /\ e.work = s
        BY <4>1 DEF Scheduled, id
      <4>4. CASE e = NoEntry
        BY <3>5, <4>3, <4>4 DEF s
      <4>5. CASE e # NoEntry
        <5>1. given[s].attempts \in Nat
          BY <1>2 DEF Premises, S!Fresh, S!Entry
        <5>2. /\ failures'[s] = failures[s] + 1
              /\ e.attempts = given[s].attempts + failures'[s]
          BY <3>2, <3>5, <4>2, <4>5, <5>1 DEF s
        <5>3. QED BY <3>5, <4>1, <4>2, <4>3, <4>5, <5>2 DEF s, id
      <4>6. QED BY <4>4, <4>5
    <3>6. QED BY <3>3, <3>4, <3>5
  <2>5. QED BY <2>2, <2>4
<1>13. QED BY <1>8, <1>9, <1>10, <1>12, <1>11 DEF SInv

\* A job returns, with an error or without one.
LEMMA WorkKeeps ==
  ASSUME Premises, SInv, NEW r \in Runner, S!Work(r)
  PROVE  SInv'
PROOF
<1> DEFINE copy == Head(rn[r].todo)
<1>1. /\ rn[r].pc = "running" /\ S!Advance(r)
      /\ UNCHANGED <<added, withdrawn, overtaken>>
  BY DEF S!Work, S!RunSucceeds, S!RunFails
<1>2. CASE S!RunSucceeds(r)
  BY <1>1, <1>2, WriteBackKeeps DEF S!RunSucceeds
<1>3. CASE S!RunFails(r)
  <2> DEFINE e == S!Retry(r, copy)
  <2>1. copy \in S!Entry
    BY <1>1, AdvanceDrops DEF SInv
  <2>2. /\ rn[r].elapsed \in Nat /\ copy.attempts \in Nat
        /\ copy.work \in Submission /\ failures[copy.work] \in Nat
    BY <2>1 DEF SInv, CopiesInPlace, EntriesInPlace, ASpan, S!Entry
  <2>3. /\ jobs' = IF S!Unchanged(copy)
                     THEN [jobs EXCEPT ![idOf[copy.work]] = e]
                     ELSE jobs
        /\ failures' = [failures EXCEPT ![copy.work] = @ + 1]
        /\ succeeded' = succeeded
    BY <1>3 DEF S!RunFails, S!Reschedule
  <2> HIDE DEF copy
  <2>4. /\ e \in S!Entry /\ e.work = copy.work
        /\ e.attempts = copy.attempts + 1
    <3> DEFINE next == S!Minus(copy.attempts + 1, rn[r].elapsed)
               set == <<copy.work, failures[copy.work] + 1>>
    <3>1. next \in Nat /\ set \in Submission \X Nat
      BY <2>2 DEF S!Minus
    <3>2. e = [copy EXCEPT !.attempts = @ + 1, !.next = next, !.set = set]
      BY DEF S!Retry
    <3> HIDE DEF next, set, e
    <3>3. e = [work |-> copy.work, attempts |-> copy.attempts + 1,
               next |-> next, set |-> set]
      BY <2>1, <3>2 DEF S!Entry
    <3>4. set \in S!Times
      BY <3>1 DEF S!Times
    <3>5. QED BY <2>2, <3>1, <3>3, <3>4 DEF S!Entry
  <2>5. e # NoEntry
    BY <2>4 DEF Premises
  <2> HIDE DEF e
  <2>6. QED BY <1>1, <2>3, <2>4, <2>5, WriteBackKeeps DEF copy
<1>4. QED BY <1>2, <1>3 DEF S!Work

\* Every step keeps the entries and the copies in step.
LEMMA SInvStep == Premises /\ SInv /\ [S!Next]_(S!vars) => SInv'
PROOF
<1> SUFFICES ASSUME Premises, SInv, [S!Next]_(S!vars) PROVE SInv'
  OBVIOUS
<1>1. ASSUME UNCHANGED <<jobs, added, withdrawn, succeeded, failures, rn, overtaken>>
      PROVE  SInv'
  <2>1. EntriesInPlace' /\ CopiesInPlace' /\ S!Started' = S!Started
    BY <1>1 DEF SInv, EntriesInPlace, CopiesInPlace, Kept, S!Started
  <2>2. QED BY <1>1, <2>1, MovesKeep DEF SInv, EntriesInPlace
<1>2. ASSUME NEW s \in Submission, S!Add(s) PROVE SInv'
  BY <1>2, AddKeeps
<1>3. ASSUME NEW id \in Cancellable, S!Cancel(id) PROVE SInv'
  BY <1>3, CancelKeeps
<1>4. CASE S!Stop
  BY <1>1, <1>4 DEF S!Stop
<1>5. ASSUME NEW r \in Runner, S!Start(r) \/ S!Leave(r) PROVE SInv'
  BY <1>5, EnterKeeps
<1>6. ASSUME NEW r \in Runner, S!Snapshot(r) PROVE SInv'
  BY <1>6, SnapshotKeeps
<1>7. ASSUME NEW r \in Runner, S!Work(r) PROVE SInv'
  BY <1>7, WorkKeeps
<1>8. CASE S!Tick
  BY <1>8, TickKeeps
<1>9. CASE UNCHANGED S!vars
  BY <1>1, <1>9 DEF S!vars
<1>10. QED BY <1>2, <1>3, <1>4, <1>5, <1>6, <1>7, <1>8, <1>9 DEF S!Next

\* The scheduler as a part of the package.
LEMMA SInvKept == (Init => SInv) /\ (SInv /\ [Next]_vars => SInv')
PROOF
<1>1. Premises
  <2>1. /\ S!Times = {<<>>} \cup (Submission \X Nat)
        /\ \A s \in Submission : S!Fresh(s) \in S!Entry
    BY GivenAssumption DEF S!Fresh, S!Entry, S!Times
  <2>2. NoEntry \notin S!Entry
    BY NoEntryAssumption DEF S!Entry, S!Times
  <2>3. QED
    BY <2>1, <2>2, IdAssumption, CancellableAssumption, MaxFailuresAssumption
       DEF Premises
<1>2. Init => SInv
  BY <1>1, SInvInit DEF Init
<1>3. SInv /\ [Next]_vars => SInv'
  BY <1>1, SInvStep DEF Next, vars, schedulerVars, S!vars
<1>4. QED BY <1>2, <1>3

\* What Cancel has deleted no late answer of a run puts back, however many
\* runners work on copies of it and whatever is added under the same id, unless
\* it is added while a runner still has a copy of what was there.
THEOREM CancelledStays == Spec => []CancelledStaysOut
PROOF
<1>1. Init => SInv
  BY SInvKept
<1>2. SInv /\ [Next]_vars => SInv'
  BY SInvKept
<1>3. SInv => CancelledStaysOut
  BY DEF SInv, CancelledStaysOut
<1>4. QED BY <1>1, <1>2, <1>3, PTL DEF Spec

\* With one runner an accepted submission is scheduled exactly until its work
\* succeeds or it is cancelled, and its attempts count its failures, for any
\* number of submissions that share ids, are cancelled and added anew, fail and
\* go while it runs; except for the ids that were added while the runner still
\* had a copy of what was there before.
THEOREM ScheduledToTheEnd == Spec => []ScheduledUntilDone
PROOF
<1>1. Init => SInv
  BY SInvKept
<1>2. SInv /\ [Next]_vars => SInv'
  BY SInvKept
<1>3. SInv => ScheduledUntilDone
  <2>1. SUFFICES ASSUME SInv, S!OneRunner PROVE S!ScheduledUntilDone
    BY DEF ScheduledUntilDone, S!ScheduledUntilDone
  <2>2. IsFiniteSet(S!Started) /\ Cardinality(S!Started) <= 1
    BY <2>1 DEF SInv, EntriesInPlace, S!OneRunner, S!Cardinality, Cardinality
  <2>3. Single
    <3>1. Cardinality(S!Started) \in Nat
      BY <2>2, FS_CardinalityType
    <3>2. Cardinality(S!Started) = 0 \/ Cardinality(S!Started) = 1
      BY <2>2, <3>1
    <3>3. CASE Cardinality(S!Started) = 0
      BY <2>2, <3>3, FS_EmptySet DEF Single
    <3>4. CASE Cardinality(S!Started) = 1
      <4>1. PICK x : S!Started = {x}
        BY <2>2, <3>4, FS_Singleton
      <4>2. QED BY <4>1 DEF Single
    <3>5. QED BY <3>2, <3>3, <3>4
  <2>4. UntilDone
    BY <2>1, <2>3 DEF SInv
  <2>5. QED BY <2>4 DEF S!ScheduledUntilDone, UntilDone, OnlyUntilDone, Scheduled
<1>4. QED BY <1>1, <1>2, <1>3, PTL DEF Spec
=============================================================================
