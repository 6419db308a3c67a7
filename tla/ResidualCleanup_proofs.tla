----------------------- MODULE ResidualCleanup_proofs -----------------------
(***************************************************************************)
(* The safety of the cleanup of residuals and of the resume, for any       *)
(* objects, plan, faults and bounds.  The inductive invariant says what    *)
(* the process that holds the lock owes at each place to the journal on    *)
(* disk: before it cleans up there are no decisions, while it cleans up    *)
(* the last decision is the one it works on, in a resume its work list     *)
(* are decisions that are open, at their places in the journal.            *)
(***************************************************************************)
EXTENDS ResidualCleanup, SequenceTheorems, WellFoundedInduction, TLAPS

Entry(e) == e.res \in Objects /\ e.uid \in Uids
States == {"none", "Prepared", "Applying", "ApplyCompleted", "InteractiveCleanup", "Paused", "Failed"}
Decision == [res : Objects, uid : Uids, result : Results]
Journals ==
  [state : States, complete : BOOLEAN, deleted : SUBSET Deletes, redelete : SUBSET Deletes,
   decisions : Seq(Decision), audited : BOOLEAN, patching : BOOLEAN]
LiveType == live \in [Objects -> [uid : Uids, phase : {"live", "deleting", "held", "gone"}]]

\* Where the process is: before the residuals are decided upon, at a decision
\* that it has written, after them, and in a resume.
Before == {"start", "main", "done", "post audit", "recheck", "validate"}
AfterMain == {"done", "post audit", "recheck", "validate"}
Auditing == {"post audit", "recheck", "validate"}
Sending == {"send", "record"}
Waiting == {"wait", "wait again", "strip", "patch"}
Deciding == Sending \union Waiting
Cleaning == {"recheck", "validate", "next"} \union Deciding
Again == {"requested", "linger", "permit", "unresolved", "compare", "absent",
          "recheck all", "send again", "record again"}
Resuming == {"resume next"} \union Again
ResumePlaces == {"resume", "nothing pending", "resume audit"} \union Resuming
AnswersOf == {"accepted", "alreadyGone", "unknown", "blocked", "rejected"}

LastOne == Len(journal.decisions)

\* Types.  A work list is on some places of a list.
JobType ==
  /\ job = [at |-> job.at, queue |-> job.queue, polls |-> job.polls, answer |-> job.answer,
            flags |-> job.flags, closed |-> job.closed]
  /\ job.at \in Places /\ job.polls \in 0..MaxPolls /\ DOMAIN job.queue \subseteq Nat
ClusterType ==
  /\ expects \subseteq Others /\ LiveType /\ reinstalled \in BOOLEAN
  /\ touched \subseteq Objects \X Uids /\ lost \in 0..MaxLost
JournalType == journal \in Journals /\ journal.redelete \subseteq journal.deleted
Types ==
  /\ ClusterType /\ JournalType /\ JobType
  /\ newcomer \in {"none", "created", "loaded"} /\ completed \in BOOLEAN

\* The state of the run on disk fits what the processes are at.
Protocol ==
  /\ journal.state = "Failed" => At("off")
  /\ journal.state \in {"none", "Prepared"} =>
       journal.decisions = <<>> /\ job.at \in {"off", "start"} /\ newcomer # "loaded"
  /\ newcomer = "created" => journal.state = "Prepared" /\ At("off")
  /\ At("start") => journal.state = "Prepared" /\ newcomer = "none"
  /\ job.at \in Before => journal.decisions = <<>>
  /\ job.at \in AfterMain => journal.complete
  /\ job.at \in Auditing => journal.state = "ApplyCompleted"
  /\ job.at \in {"validate", "next"} =>
       journal.audited /\ journal.complete /\ journal.state \notin {"none", "Prepared", "Applying"}
  /\ journal.decisions # <<>> =>
       journal.audited /\ journal.complete /\ journal.state \notin {"none", "Prepared", "Applying"}

\* One decision for an object.
OneEach ==
  \A i, k \in DOMAIN journal.decisions :
    journal.decisions[i].res = journal.decisions[k].res => i = k

\* No incarnation is ahead of the cluster, and what the run has deleted is in
\* its journal, or was found gone.
Gone(t) == ~Is([res |-> t[1], uid |-> t[2]])
DecidedOn(t) == \E i \in DOMAIN journal.decisions :
                journal.decisions[i].res = t[1] /\ journal.decisions[i].uid = t[2]
Seen ==
  /\ \A t \in touched : t[2] <= live[t[1]].uid
  /\ \A i \in DOMAIN journal.decisions :
       journal.decisions[i].uid <= live[journal.decisions[i].res].uid
Traced ==
  \A t \in touched :
    \/ DecidedOn(t)
    \/ t[1] \in journal.deleted /\ (t[2] = 1 \/ t[1] \in journal.redelete \/ Gone(t))

OnDisk == OneEach /\ OneOpenDecision /\ Seen /\ GoneIsGone /\ Traced

\* What is owed where no decision is being worked on: none is open before the
\* next one is taken; what was deleted is gone where the run may end.
Between ==
  /\ At("next") => \A i \in DOMAIN journal.decisions : ~Pending(journal.decisions[i])
  /\ job.at \in {"reconcile", "records"} => \A i \in DOMAIN job.queue : job.queue[i] \in Objects
  /\ At("recheck") /\ Empty(job.queue) => \A t \in touched : Gone(t)
  /\ At("conclude") => job.answer \in {"complete", "incomplete"}
  /\ At("conclude") /\ "left" \notin job.flags =>
       \A t \in touched : t[1] \in Deletes => Gone(t)
  /\ job.at \in ResumePlaces => journal.redelete = {}

\* The cleanup: its work list has objects that no decision is about, but for
\* the one it works on, whose decision is the last.
Listing ==
  /\ \A i \in DOMAIN job.queue :
       Entry(job.queue[i]) /\ job.queue[i].uid <= live[job.queue[i].res].uid
  /\ \A i, k \in DOMAIN job.queue : job.queue[i].res = job.queue[k].res => i = k
  /\ \A i \in DOMAIN job.queue, k \in DOMAIN journal.decisions :
       job.queue[i].res = journal.decisions[k].res =>
         job.at \in Deciding /\ i = First(job.queue) /\ k = LastOne
AtLast ==
  /\ ~Empty(job.queue) /\ journal.decisions # <<>>
  /\ journal.decisions[LastOne].res = Item.res /\ journal.decisions[LastOne].uid = Item.uid
  /\ journal.decisions[LastOne].result = IF job.at \in Sending THEN "none" ELSE "requested"

\* The resume: its work list has the decisions that are open.
Reopened ==
  \A i \in DOMAIN job.queue :
    /\ i \in DOMAIN journal.decisions /\ Pending(journal.decisions[i])
    /\ journal.decisions[i].res = job.queue[i].res
    /\ journal.decisions[i].uid = job.queue[i].uid

\* A DELETE that found nothing, before that is recorded.
Answered ==
  job.answer \in AnswersOf /\ (job.answer = "alreadyGone" => ~Is(Item))

Working ==
  /\ job.at \in Cleaning => Listing
  /\ job.at \in Deciding => AtLast
  /\ job.at \in Resuming => Reopened
  /\ job.at \in Again => ~Empty(job.queue)
  /\ job.at \in {"record", "record again"} => Answered

\* The run was reported complete.
CompletedOff ==
  completed =>
    /\ At("off") /\ journal.state = "ApplyCompleted"
    /\ \A t \in touched : Gone(t)
    /\ \A i \in DOMAIN journal.decisions : Decided(journal.decisions[i])

CleanupInv == Types /\ Protocol /\ OnDisk /\ Between /\ Working /\ CompletedOff
-----------------------------------------------------------------------------
(***************************************************************************)
(* Work lists, the job and the journal                                     *)
(***************************************************************************)

Below == {ij \in Nat \X Nat : ij[1] < ij[2]}

LEMMA LeastOf ==
  ASSUME NEW S \in SUBSET Nat, S # {}
  PROVE  \E m \in S : \A n \in S : m <= n
<1>1. IsWellFoundedOn(Below, Nat)
  BY NatLessThanWellFounded DEF OpToRel, Below
<1>2. \E m \in S : \A n \in S : ~(<<n, m>> \in Below)
  BY <1>1, WFMin
<1>3. \A m, n \in Nat : <<n, m>> \in Below \/ m <= n
  BY DEF Below
<1> QED BY <1>2, <1>3

\* The first place of a work list is one of its places, until it is empty.
LEMMA FirstIn ==
  ASSUME NEW list, DOMAIN list \subseteq Nat, ~Empty(list)
  PROVE  First(list) \in DOMAIN list
<1>1. \E i \in DOMAIN list : \A k \in DOMAIN list : i <= k
  BY LeastOf DEF Empty
<1> QED BY <1>1 DEF First

LEMMA RestFacts ==
  ASSUME NEW list
  PROVE  /\ DOMAIN Rest(list) = DOMAIN list \ {First(list)}
         /\ \A i \in DOMAIN Rest(list) : Rest(list)[i] = list[i]
BY DEF Rest, Restrict

LEMMA GoWithFacts ==
  ASSUME JobType, NEW place \in Places, NEW queue, NEW answer, NEW flags,
         DOMAIN queue \subseteq Nat, MaxPolls \in Nat, GoWith(place, queue, answer, flags)
  PROVE  /\ JobType' /\ job'.at = place /\ job'.queue = queue /\ job'.answer = answer
         /\ job'.flags = flags /\ job'.closed = job.closed
<1>1. job' = [at |-> place, queue |-> queue, polls |-> 0, answer |-> answer,
              flags |-> flags, closed |-> job.closed]
  BY DEF GoWith
<1> QED BY <1>1 DEF JobType

LEMMA GoFacts ==
  ASSUME JobType, NEW place \in Places, MaxPolls \in Nat, Go(place)
  PROVE  /\ JobType' /\ job'.at = place /\ job'.queue = job.queue /\ job'.answer = "none"
         /\ job'.flags = job.flags /\ job'.closed = job.closed
<1>1. DOMAIN job.queue \subseteq Nat
  BY DEF JobType
<1> QED BY <1>1, GoWithFacts DEF Go

LEMMA OnwardFacts ==
  ASSUME JobType, NEW place \in Places, NEW flags, MaxPolls \in Nat, Onward(place, flags)
  PROVE  /\ JobType' /\ job'.at = place /\ job'.queue = Rest(job.queue)
         /\ job'.answer = "none" /\ job'.flags = job.flags \union flags /\ job'.closed = job.closed
<1>1. DOMAIN Rest(job.queue) \subseteq Nat
  BY RestFacts DEF JobType
<1> QED BY <1>1, GoWithFacts DEF Onward

LEMMA NoJobFacts ==
  ASSUME job' = NoJob, MaxPolls \in Nat
  PROVE  JobType' /\ job'.at = "off"
<1>1. job' = [at |-> "off", queue |-> <<>>, polls |-> 0, answer |-> "none",
              flags |-> {}, closed |-> FALSE]
  BY DEF NoJob
<1>2. DOMAIN <<>> \subseteq Nat
  OBVIOUS
<1> QED BY <1>1, <1>2 DEF JobType, Places

\* The polls of a wait, a pause, or the answer of a DELETE.
LEMMA PollFacts ==
  ASSUME JobType, job.polls < MaxPolls, MaxPolls \in Nat, job' = [job EXCEPT !.polls = @ + 1]
  PROVE  /\ JobType' /\ job'.at = job.at /\ job'.queue = job.queue
         /\ job'.answer = job.answer /\ job'.flags = job.flags
BY DEF JobType

LEMMA PauseFacts ==
  ASSUME JobType, job' = [job EXCEPT !.closed = TRUE]
  PROVE  /\ JobType' /\ job'.at = job.at /\ job'.queue = job.queue
         /\ job'.answer = job.answer /\ job'.flags = job.flags
BY DEF JobType

LEMMA AnswerFacts ==
  ASSUME JobType, NEW a, NEW place \in Places, job' = [job EXCEPT !.answer = a, !.at = place]
  PROVE  /\ JobType' /\ job'.at = place /\ job'.queue = job.queue /\ job'.answer = a
         /\ job'.flags = job.flags
BY DEF JobType

\* The fields of the journal that a change of its state leaves alone.
SameRecords ==
  /\ journal'.complete = journal.complete /\ journal'.deleted = journal.deleted
  /\ journal'.redelete = journal.redelete /\ journal'.decisions = journal.decisions

LEMMA StillFacts ==
  ASSUME journal \in Journals, Still
  PROVE  /\ journal' \in Journals /\ SameRecords /\ journal'.state = journal.state
         /\ journal'.audited = journal.audited
BY DEF Still, SameRecords

LEMMA StateFacts ==
  ASSUME journal \in Journals, NEW s \in States, SetState(s)
  PROVE  /\ journal' \in Journals /\ SameRecords /\ journal'.state = s
         /\ journal'.audited = journal.audited
<1>1. journal' = [journal EXCEPT !.state = s]
  BY DEF SetState, Record
<1> QED BY <1>1 DEF Journals, States, SameRecords

LEMMA AuditedFacts ==
  ASSUME journal \in Journals, NEW a \in BOOLEAN, NEW s \in States,
         journal' = [journal EXCEPT !.state = s, !.audited = a]
  PROVE  journal' \in Journals /\ SameRecords /\ journal'.state = s /\ journal'.audited = a
BY DEF Journals, States, SameRecords

LEMMA AuditKeptFacts ==
  ASSUME journal \in Journals, journal' = [journal EXCEPT !.audited = TRUE]
  PROVE  journal' \in Journals /\ SameRecords /\ journal'.state = journal.state /\ journal'.audited
BY DEF Journals, States, SameRecords

LEMMA PatchingFacts ==
  ASSUME journal \in Journals, NEW b \in BOOLEAN, journal' = [journal EXCEPT !.patching = b]
  PROVE  /\ journal' \in Journals /\ SameRecords /\ journal'.state = journal.state
         /\ journal'.audited = journal.audited
BY DEF Journals, States, SameRecords

\* The decision at n of the journal gets a result, nothing else changes.
Settles(n, result) ==
  /\ journal' \in Journals
  /\ journal'.complete = journal.complete /\ journal'.deleted = journal.deleted
  /\ journal'.redelete = journal.redelete /\ journal'.state = journal.state
  /\ journal'.audited = journal.audited
  /\ Len(journal'.decisions) = Len(journal.decisions)
  /\ DOMAIN journal'.decisions = DOMAIN journal.decisions
  /\ \A i \in DOMAIN journal.decisions :
       /\ journal'.decisions[i].res = journal.decisions[i].res
       /\ journal'.decisions[i].uid = journal.decisions[i].uid
       /\ journal'.decisions[i].result = IF i = n THEN result ELSE journal.decisions[i].result

LEMMA SettlesFacts ==
  ASSUME journal \in Journals, NEW n \in DOMAIN journal.decisions, NEW result \in Results,
         journal' = [journal EXCEPT !.decisions[n].result = result]
  PROVE  Settles(n, result)
<1> DEFINE ds == journal.decisions
           es == [ds EXCEPT ![n] = [ds[n] EXCEPT !.result = result]]
<1>1. ds \in Seq(Decision) /\ DOMAIN ds = 1..Len(ds) /\ Len(ds) \in Nat
  BY DEF Journals, Decision
<1>2. ds[n] \in Decision
  BY <1>1
<1>3. [ds[n] EXCEPT !.result = result] = [res |-> ds[n].res, uid |-> ds[n].uid, result |-> result]
  BY <1>2 DEF Decision
<1>4. [res |-> ds[n].res, uid |-> ds[n].uid, result |-> result] \in Decision
  BY <1>2 DEF Decision
<1>5. es \in Seq(Decision) /\ Len(es) = Len(ds) /\ DOMAIN es = DOMAIN ds
  BY <1>1, <1>3, <1>4
<1>6. \A i \in DOMAIN ds : es[i] = IF i = n THEN [res |-> ds[n].res, uid |-> ds[n].uid, result |-> result] ELSE ds[i]
  BY <1>1, <1>3
<1>7. journal' = [journal EXCEPT !.decisions = es]
  OBVIOUS
<1> HIDE DEF es
<1>8. /\ journal' \in Journals
      /\ journal'.complete = journal.complete /\ journal'.deleted = journal.deleted
      /\ journal'.redelete = journal.redelete /\ journal'.state = journal.state
      /\ journal'.audited = journal.audited /\ journal'.decisions = es
  BY <1>5, <1>7 DEF Journals, Decision
<1> QED BY <1>5, <1>6, <1>8 DEF Settles

\* An object has one decision: the one that Resolved finds.
LEMMA ResolvedFacts ==
  ASSUME journal \in Journals, OneEach, NEW item, NEW from, NEW result \in Results,
         NEW n \in DOMAIN journal.decisions, journal.decisions[n].res = item.res,
         Record(Resolved(item, from, result))
  PROVE  IF journal.decisions[n].result \in from THEN Settles(n, result) ELSE journal' = journal
<1> DEFINE of == {i \in DOMAIN journal.decisions :
                    journal.decisions[i].res = item.res /\ journal.decisions[i].result \in from}
<1>1. journal' = IF of = {} THEN journal
      ELSE [journal EXCEPT !.decisions[CHOOSE i \in of : \A k \in of : k <= i].result = result]
  BY DEF Record, Resolved
<1>2. CASE journal.decisions[n].result \in from
  <2>1. of = {n}
    BY <1>2 DEF OneEach
  <2>2. n <= n
    <3>1. n \in Nat
      BY DEF Journals
    <3> QED BY <3>1
  <2>3. (CHOOSE i \in of : \A k \in of : k <= i) = n
    BY <2>1, <2>2
  <2>4. journal' = [journal EXCEPT !.decisions[n].result = result]
    BY <1>1, <2>1, <2>3, Zenon
  <2> QED BY <1>2, <2>4, SettlesFacts
<1>3. CASE journal.decisions[n].result \notin from
  <2>1. of = {}
    BY <1>3 DEF OneEach
  <2> QED BY <1>1, <1>3, <2>1
<1> QED BY <1>2, <1>3

\* What is not there any more is not there again: an incarnation comes once.
Ages ==
  \A o \in Objects :
    /\ live[o].uid <= live'[o].uid
    /\ live[o].phase = "gone" /\ live'[o].uid = live[o].uid => live'[o].phase = "gone"

LEMMA GoneStays ==
  ASSUME LiveType, LiveType', Ages, LastUid \in Nat, NEW o \in Objects, NEW u \in Uids,
         u <= live[o].uid, ~(live[o].phase # "gone" /\ live[o].uid = u)
  PROVE  u <= live'[o].uid /\ ~(live'[o].phase # "gone" /\ live'[o].uid = u)
<1>1. live[o].uid \in Nat /\ live'[o].uid \in Nat /\ u \in Nat
  BY DEF LiveType, Uids
<1>2. live[o].uid <= live'[o].uid
      /\ (live[o].phase = "gone" /\ live'[o].uid = live[o].uid => live'[o].phase = "gone")
  BY DEF Ages
<1> QED BY <1>1, <1>2

LEMMA BoundStays ==
  ASSUME LiveType, LiveType', Ages, LastUid \in Nat, NEW o \in Objects, NEW u \in Uids,
         u <= live[o].uid
  PROVE  u <= live'[o].uid
<1>1. live[o].uid \in Nat /\ live'[o].uid \in Nat /\ u \in Nat
  BY DEF LiveType, Uids
<1> QED BY <1>1 DEF Ages

LEMMA SameLiveAges ==
  ASSUME LiveType, LastUid \in Nat, UNCHANGED live
  PROVE  Ages /\ LiveType'
<1>1. \A o \in Objects : live[o].uid \in Nat
  BY DEF LiveType, Uids
<1> QED BY <1>1 DEF Ages, LiveType
-----------------------------------------------------------------------------
(***************************************************************************)
(* What lasts, and what the end of a process and a step of one leave to    *)
(* show                                                                    *)
(***************************************************************************)

\* The cluster may have gone on; what the run has deleted and decided is as
\* it was.
Lasts ==
  /\ Ages /\ LiveType' /\ touched' = touched /\ SameRecords /\ journal' \in Journals

LEMMA GoneLasts ==
  ASSUME ClusterType, Seen, Ages, LiveType', LastUid \in Nat, NEW t \in touched, Gone(t)
  PROVE  Gone(t)'
<1>1. t[1] \in Objects /\ t[2] \in Uids /\ t[2] <= live[t[1]].uid
  BY DEF ClusterType, Seen
<1>2. ~(live[t[1]].phase # "gone" /\ live[t[1]].uid = t[2])
  BY DEF Gone, Is, Present
<1>3. ~(live'[t[1]].phase # "gone" /\ live'[t[1]].uid = t[2])
  BY <1>1, <1>2, GoneStays DEF ClusterType
<1> QED BY <1>3 DEF Gone, Is, Present

LEMMA DecisionTypes ==
  ASSUME JournalType, NEW i \in DOMAIN journal.decisions
  PROVE  /\ journal.decisions[i] \in Decision /\ journal.decisions[i].res \in Objects
         /\ journal.decisions[i].uid \in Uids /\ journal.decisions[i].result \in Results
<1>1. journal.decisions \in Seq(Decision)
  BY DEF JournalType, Journals
<1>2. journal.decisions[i] \in Decision
  BY <1>1
<1> QED BY <1>2 DEF Decision

LEMMA DecidedLasts ==
  ASSUME ClusterType, JournalType, Seen, Ages, LiveType', LastUid \in Nat,
         NEW i \in DOMAIN journal.decisions, ~Is(journal.decisions[i])
  PROVE  /\ journal.decisions[i].uid <= live'[journal.decisions[i].res].uid
         /\ ~(live'[journal.decisions[i].res].phase # "gone"
                /\ live'[journal.decisions[i].res].uid = journal.decisions[i].uid)
<1> DEFINE o == journal.decisions[i].res  u == journal.decisions[i].uid
<1>1. o \in Objects /\ u \in Uids /\ u <= live[o].uid
  BY DecisionTypes DEF Seen
<1>2. ~(live[o].phase # "gone" /\ live[o].uid = u)
  BY DEF Is, Present
<1> HIDE DEF o, u
<1>3. u <= live'[o].uid /\ ~(live'[o].phase # "gone" /\ live'[o].uid = u)
  BY <1>1, <1>2, GoneStays DEF ClusterType
<1> QED BY <1>3 DEF o, u

LEMMA SeenLasts ==
  ASSUME ClusterType, JournalType, Seen, Ages, LiveType', LastUid \in Nat
  PROVE  /\ \A t \in touched : t[2] <= live'[t[1]].uid
         /\ \A i \in DOMAIN journal.decisions :
              journal.decisions[i].uid <= live'[journal.decisions[i].res].uid
<1>1. ASSUME NEW t \in touched PROVE t[2] <= live'[t[1]].uid
  <2>1. t[1] \in Objects /\ t[2] \in Uids /\ t[2] <= live[t[1]].uid
    BY DEF ClusterType, Seen
  <2> QED BY <2>1, BoundStays DEF ClusterType
<1>2. ASSUME NEW i \in DOMAIN journal.decisions
      PROVE  journal.decisions[i].uid <= live'[journal.decisions[i].res].uid
  <2> DEFINE o == journal.decisions[i].res  u == journal.decisions[i].uid
  <2>1. o \in Objects /\ u \in Uids /\ u <= live[o].uid
    BY DecisionTypes DEF Seen
  <2> HIDE DEF o, u
  <2>2. u <= live'[o].uid
    BY <2>1, BoundStays DEF ClusterType
  <2> QED BY <2>2 DEF o, u
<1> QED BY <1>1, <1>2

\* And what it deletes from now on, it has decided upon.
LEMMA DiskGrows ==
  ASSUME ClusterType, JournalType, OnDisk, Ages, LiveType', SameRecords, LastUid \in Nat,
         touched \subseteq touched',
         \A t \in touched' \ touched : DecidedOn(t) /\ t[2] <= live'[t[1]].uid
  PROVE  OnDisk'
<1> USE DEF OnDisk
<1>1. /\ journal'.decisions = journal.decisions /\ journal'.deleted = journal.deleted
      /\ journal'.redelete = journal.redelete
  BY DEF SameRecords
<1>2. OneEach' /\ OneOpenDecision'
  BY <1>1 DEF OneEach, OneOpenDecision, Pending
<1>3. Seen'
  BY <1>1, SeenLasts DEF Seen
<1>4. GoneIsGone'
  <2> SUFFICES ASSUME NEW i \in DOMAIN journal.decisions, Decided(journal.decisions[i])
               PROVE  ~(live'[journal.decisions[i].res].phase # "gone"
                          /\ live'[journal.decisions[i].res].uid = journal.decisions[i].uid)
    BY <1>1 DEF GoneIsGone, Decided, Is, Present
  <2>1. ~Is(journal.decisions[i])
    BY DEF GoneIsGone
  <2> QED BY <1>1, <2>1, DecidedLasts
<1>5. Traced'
  <2> SUFFICES ASSUME NEW t \in touched'
               PROVE  DecidedOn(t)' \/ (t[1] \in journal.deleted
                        /\ (t[2] = 1 \/ t[1] \in journal.redelete \/ Gone(t)'))
    BY <1>1 DEF Traced
  <2>1. DecidedOn(t)' <=> DecidedOn(t)
    BY <1>1 DEF DecidedOn
  <2>2. t \in touched /\ Gone(t) => Gone(t)'
    BY <1>1, GoneLasts
  <2>3. CASE t \in touched
    BY <2>1, <2>2, <2>3 DEF Traced
  <2>4. CASE t \notin touched
    BY <2>1, <2>4
  <2> QED BY <2>3, <2>4
<1> QED BY <1>2, <1>3, <1>4, <1>5

LEMMA DiskLasts ==
  ASSUME ClusterType, JournalType, OnDisk, Lasts, LastUid \in Nat
  PROVE  OnDisk'
<1>1. Ages /\ LiveType' /\ SameRecords /\ touched' = touched
  BY DEF Lasts
<1> QED BY <1>1, DiskGrows

\* A step of the process that holds the lock, and the state it writes.
LEMMA ProtocolLasts ==
  ASSUME Types, Protocol, job.at \notin {"off", "start"}, SameRecords, newcomer' = newcomer,
         journal'.state = journal.state
           \/ journal'.state \in {"InteractiveCleanup", "Paused", "ApplyCompleted", "Failed"},
         journal'.state = "Failed" => journal.state = "Failed" \/ job'.at = "off", job'.at # "start",
         journal.audited => journal'.audited,
         job'.at \in Before => journal.decisions = <<>>,
         job'.at \in AfterMain => journal.complete,
         job'.at \in Auditing => journal'.state = "ApplyCompleted",
         job'.at \in {"validate", "next"} =>
           journal'.audited /\ journal.complete /\ journal'.state \notin {"none", "Prepared", "Applying"}
  PROVE  Protocol'
<1>1. journal'.decisions = journal.decisions /\ journal'.complete = journal.complete
  BY DEF SameRecords
<1>2. journal.state \notin {"none", "Prepared", "Failed"} /\ newcomer # "created"
  BY DEF Protocol, At
<1>3. journal'.state \notin {"none", "Prepared"}
  BY <1>2
<1>4. journal.decisions # <<>> =>
        journal.audited /\ journal.complete /\ journal.state \notin {"none", "Prepared", "Applying"}
  BY DEF Protocol
<1> QED BY <1>1, <1>2, <1>3, <1>4 DEF Protocol, At

\* Where nothing is owed.
Idle == {"off", "start", "main", "done", "post audit", "settle", "generation"}
LEMMA IdleOwesNothing ==
  ASSUME job'.at \in Idle
  PROVE  Between' /\ Working'
<1>1. Between'
  BY DEF Idle, Between, At, ResumePlaces, Resuming, Again
<1>2. Working'
  BY DEF Idle, Working, Cleaning, Deciding, Sending, Waiting, Resuming, Again
<1> QED BY <1>1, <1>2

LEMMA Assembled ==
  ASSUME Types', Protocol', OnDisk', Between', Working', Locked, CleanupInv,
         completed' = completed
  PROVE  CleanupInv'
<1>1. ~completed
  BY DEF CleanupInv, CompletedOff, Locked
<1>2. CompletedOff'
  BY <1>1 DEF CompletedOff
<1> QED BY <1>2 DEF CleanupInv

\* A step that neither decides nor deletes.
LEMMA QuietStep ==
  ASSUME CleanupInv, CleanupAssumption, job.at \notin {"off", "start"}, ClusterType', Lasts, Stay, JobType',
         journal'.state = journal.state
           \/ journal'.state \in {"InteractiveCleanup", "Paused", "ApplyCompleted", "Failed"},
         journal'.state = "Failed" => journal.state = "Failed" \/ job'.at = "off", job'.at # "start",
         journal.audited => journal'.audited,
         job'.at \in Before => journal.decisions = <<>>,
         job'.at \in AfterMain => journal.complete,
         job'.at \in Auditing => journal'.state = "ApplyCompleted",
         job'.at \in {"validate", "next"} =>
           journal'.audited /\ journal.complete /\ journal'.state \notin {"none", "Prepared", "Applying"},
         Between', Working'
  PROVE  CleanupInv'
<1>1. Types /\ Protocol /\ OnDisk /\ LastUid \in Nat /\ Locked
  BY DEF CleanupInv, CleanupAssumption, Locked, At
<1>2. SameRecords /\ newcomer' = newcomer /\ completed' = completed
  BY DEF Lasts, Stay
<1>3. Protocol'
  BY <1>1, <1>2, ProtocolLasts
<1>4. OnDisk'
  BY <1>1, DiskLasts DEF Types
<1>5. JournalType'
  BY <1>1 DEF Types, JournalType, Lasts, SameRecords
<1>6. Types'
  BY <1>1, <1>2, <1>5 DEF Types
<1> QED BY <1>1, <1>2, <1>3, <1>4, <1>6, Assembled

\* The end of a process.  That it reports the run complete is to be shown.
LEMMA EndStep ==
  ASSUME CleanupInv, CleanupAssumption, job.at \notin {"off", "start"}, ClusterType', Lasts,
         NEW how \in BOOLEAN, End(how),
         journal'.state = journal.state
           \/ journal'.state \in {"InteractiveCleanup", "Paused", "ApplyCompleted", "Failed"},
         journal.audited => journal'.audited,
         how => CompletedOff'
  PROVE  CleanupInv'
<1>1. Types /\ Protocol /\ OnDisk /\ LastUid \in Nat /\ MaxPolls \in Nat
  BY DEF CleanupInv, CleanupAssumption
<1>2. SameRecords /\ newcomer' = newcomer /\ completed' = how /\ job' = NoJob
  BY DEF Lasts, End
<1>3. JobType' /\ job'.at = "off"
  BY <1>1, <1>2, NoJobFacts
<1>4. Protocol'
  BY <1>1, <1>2, <1>3, ProtocolLasts DEF Before, AfterMain, Auditing
<1>5. OnDisk'
  BY <1>1, DiskLasts DEF Types
<1>6. JournalType'
  BY <1>1 DEF Types, JournalType, Lasts, SameRecords
<1>7. Types'
  BY <1>1, <1>2, <1>3, <1>6 DEF Types
<1>8. Between' /\ Working'
  BY <1>3, IdleOwesNothing DEF Idle
<1>9. CompletedOff'
  BY <1>2 DEF CompletedOff
<1> QED BY <1>4, <1>5, <1>7, <1>8, <1>9 DEF CleanupInv
-----------------------------------------------------------------------------
(***************************************************************************)
(* The cluster, the processes that come and go, and the main execution     *)
(***************************************************************************)

LEMMA UidOrder ==
  ASSUME LiveType, CleanupAssumption, NEW o \in Objects
  PROVE  live[o].uid \in Uids /\ live[o].uid \in Nat /\ LastUid \in Nat /\ Uids \subseteq Nat
BY DEF LiveType, Uids, CleanupAssumption

LEMMA PhaseChanges ==
  ASSUME LiveType, CleanupAssumption, NEW o \in Objects, NEW p \in {"live", "deleting", "held", "gone"},
         live[o].phase = "gone" => p = "gone", live' = [live EXCEPT ![o].phase = p]
  PROVE  Ages /\ LiveType'
<1>1. \A x \in Objects : live[x] \in [uid : Uids, phase : {"live", "deleting", "held", "gone"}]
  BY DEF LiveType
<1>2. [live[o] EXCEPT !.phase = p] = [uid |-> live[o].uid, phase |-> p]
  BY <1>1
<1>3. \A x \in Objects : live'[x] = IF x = o THEN [uid |-> live[o].uid, phase |-> p] ELSE live[x]
  BY <1>2 DEF LiveType
<1>4. LiveType'
  BY <1>1, <1>2 DEF LiveType
<1>5. \A x \in Objects : live'[x].uid = live[x].uid /\ (live[x].phase = "gone" => live'[x].phase = "gone")
  BY <1>3
<1>6. \A x \in Objects : live[x].uid \in Nat
  BY UidOrder
<1> QED BY <1>4, <1>5, <1>6 DEF Ages

LEMMA Recreation ==
  ASSUME LiveType, CleanupAssumption, NEW o \in Objects, Recreate(o)
  PROVE  Ages /\ LiveType'
<1>1. \A x \in Objects : live[x] \in [uid : Uids, phase : {"live", "deleting", "held", "gone"}]
  BY DEF LiveType
<1>2. live[o].uid + 1 \in Uids /\ \A x \in Objects : live[x].uid \in Nat
  BY UidOrder DEF Recreate, Uids
<1>3. live' = [live EXCEPT ![o] = [uid |-> live[o].uid + 1, phase |-> "live"]]
  BY DEF Recreate
<1>4. LiveType'
  BY <1>1, <1>2, <1>3 DEF LiveType
<1>5. \A x \in Objects :
        IF x = o THEN live'[x].uid = live[x].uid + 1 ELSE live'[x] = live[x]
  BY <1>3 DEF LiveType
<1> QED BY <1>2, <1>4, <1>5 DEF Ages

LEMMA DeletionChanges ==
  ASSUME LiveType, CleanupAssumption, NEW o \in Objects, DeleteObject(o)
  PROVE  Ages /\ LiveType'
<1> DEFINE p == IF live[o].phase = "live" THEN Deleted(o) ELSE live[o].phase
<1>1. live' = [live EXCEPT ![o].phase = p]
  BY DEF DeleteObject
<1>2. p \in {"live", "deleting", "held", "gone"} /\ (live[o].phase = "gone" => p = "gone")
  BY DEF LiveType, Deleted
<1> HIDE DEF p
<1> QED BY <1>1, <1>2, PhaseChanges

LEMMA EntryLasts ==
  ASSUME LiveType, LiveType', Ages, LastUid \in Nat
  PROVE  \A e : Entry(e) /\ e.uid <= live[e.res].uid => e.uid <= live'[e.res].uid /\ (~Is(e) => ~Is(e)')
<1> SUFFICES ASSUME NEW e, Entry(e), e.uid <= live[e.res].uid
             PROVE  e.uid <= live'[e.res].uid
                      /\ (~Is(e) => ~(live'[e.res].phase # "gone" /\ live'[e.res].uid = e.uid))
  BY DEF Is, Present
<1> DEFINE o == e.res  u == e.uid
<1>1. o \in Objects /\ u \in Uids /\ u <= live[o].uid
  BY DEF Entry
<1>2. Is(e) <=> live[o].phase # "gone" /\ live[o].uid = u
  BY DEF Is, Present
<1> HIDE DEF o, u
<1>3. u <= live'[o].uid
  BY <1>1, BoundStays
<1>4. ~Is(e) => ~(live'[o].phase # "gone" /\ live'[o].uid = u)
  BY <1>1, <1>2, GoneStays
<1> QED BY <1>3, <1>4 DEF o, u

\* While the cluster goes on, what the processes know stays true.
LEMMA ClusterGoesOn ==
  ASSUME CleanupInv, CleanupAssumption, Ages, LiveType',
         UNCHANGED <<expects, touched, lost, journal, newcomer, job, completed>>,
         reinstalled' \in BOOLEAN
  PROVE  CleanupInv'
<1>1. Types /\ Protocol /\ OnDisk /\ Between /\ Working /\ CompletedOff /\ LastUid \in Nat
  BY DEF CleanupInv, CleanupAssumption
<1>2. ClusterType /\ JournalType /\ JobType /\ Seen /\ LiveType
  BY <1>1 DEF Types, OnDisk, ClusterType
<1>3. ClusterType'
  BY <1>2 DEF ClusterType
<1>4. Types'
  BY <1>1, <1>3 DEF Types, JournalType, JobType
<1>5. Protocol'
  BY <1>1 DEF Protocol, At
<1>6. Lasts
  BY <1>2 DEF Lasts, SameRecords, JournalType
<1>7. OnDisk'
  BY <1>1, <1>2, <1>6, DiskLasts
<1>8. \A t \in touched : Gone(t) => Gone(t)'
  BY <1>1, <1>2, GoneLasts
<1>9. Between'
  BY <1>1, <1>8 DEF Between, At, Empty, Pending
<1>10. \A e : Entry(e) /\ e.uid <= live[e.res].uid => e.uid <= live'[e.res].uid /\ (~Is(e) => ~Is(e)')
  BY <1>1, <1>2, EntryLasts
<1>11. Working'
  <2>1. job.at \in Cleaning => Listing'
    BY <1>1, <1>10 DEF Working, Listing, Entry, LastOne
  <2>2. (job.at \in Deciding => AtLast') /\ (job.at \in Resuming => Reopened')
    BY <1>1 DEF Working, AtLast, Reopened, Item, LastOne, Empty, Pending
  <2>3. job.at \in {"record", "record again"} => Answered'
    <3> SUFFICES ASSUME job.at \in {"record", "record again"} PROVE Answered'
      OBVIOUS
    <3>1. Answered /\ Item' = Item
      BY <1>1 DEF Working, Item
    <3>2. Entry(Item) /\ Item.uid <= live[Item.res].uid
      <4>1. CASE job.at = "record"
        <5>1. Listing /\ ~Empty(job.queue)
          BY <1>1, <4>1 DEF Working, Cleaning, Deciding, Sending, AtLast
        <5>2. First(job.queue) \in DOMAIN job.queue
          BY <1>2, <5>1, FirstIn DEF JobType
        <5> QED BY <5>1, <5>2 DEF Listing, Item
      <4>2. CASE job.at = "record again"
        <5>1. Reopened /\ ~Empty(job.queue)
          BY <1>1, <4>2 DEF Working, Resuming, Again
        <5>2. First(job.queue) \in DOMAIN job.queue
          BY <1>2, <5>1, FirstIn DEF JobType
        <5> DEFINE n == First(job.queue)
        <5>3. /\ n \in DOMAIN journal.decisions
              /\ journal.decisions[n].res = Item.res /\ journal.decisions[n].uid = Item.uid
          BY <5>1, <5>2 DEF Reopened, Item
        <5> QED BY <1>2, <5>3, DecisionTypes DEF Entry, Seen
      <4> QED BY <3>1, <4>1, <4>2
    <3>3. ~Is(Item) => ~Is(Item)'
      BY <1>10, <3>1, <3>2 DEF Is, Present
    <3> QED BY <3>1, <3>3 DEF Answered
  <2> QED BY <1>1, <2>1, <2>2, <2>3 DEF Working, Empty
<1>12. CompletedOff'
  BY <1>1, <1>7, <1>8 DEF CompletedOff, At, Decided
<1> QED BY <1>4, <1>5, <1>7, <1>9, <1>11, <1>12 DEF CleanupInv

LEMMA ClusterKeeps ==
  ASSUME CleanupInv, CleanupAssumption, Cluster
  PROVE  CleanupInv'
<1>1. LiveType /\ reinstalled \in BOOLEAN
  BY DEF CleanupInv, Types, ClusterType
<1>2. CASE /\ \E o \in Objects : DeletedByOther(o) \/ Vanish(o) \/ Recreate(o)
           /\ UNCHANGED <<expects, reinstalled, touched, lost, journal, newcomer, job, completed>>
  <2>1. PICK o \in Objects : DeletedByOther(o) \/ Vanish(o) \/ Recreate(o)
    BY <1>2
  <2>2. Ages /\ LiveType'
    <3>1. CASE DeletedByOther(o)
      <4>1. live' = [live EXCEPT ![o].phase = Deleted(o)] /\ live[o].phase = "live"
            /\ Deleted(o) \in {"live", "deleting", "held", "gone"}
        BY <3>1 DEF DeletedByOther, Deleted
      <4> QED BY <1>1, <4>1, PhaseChanges
    <3>2. CASE Vanish(o)
      <4>1. live' = [live EXCEPT ![o].phase = "gone"]
        BY <3>2 DEF Vanish
      <4> QED BY <1>1, <4>1, PhaseChanges
    <3>3. CASE Recreate(o)
      BY <1>1, <3>3, Recreation
    <3> QED BY <2>1, <3>1, <3>2, <3>3
  <2> QED BY <1>1, <1>2, <2>2, ClusterGoesOn
<1>3. CASE reinstalled' = TRUE /\ UNCHANGED <<expects, live, touched, lost, journal, newcomer, job, completed>>
  <2>1. Ages /\ LiveType'
    BY <1>1, <1>3, SameLiveAges DEF CleanupAssumption
  <2> QED BY <1>3, <2>1, ClusterGoesOn
<1> QED BY <1>2, <1>3 DEF Cluster

LEMMA SameCluster ==
  ASSUME ClusterType, UNCHANGED cluster, CleanupAssumption
  PROVE  ClusterType' /\ Ages /\ LiveType' /\ touched' = touched
<1>1. LiveType /\ LastUid \in Nat /\ UNCHANGED <<expects, live, reinstalled, touched, lost>>
  BY DEF ClusterType, CleanupAssumption, cluster
<1>2. Ages /\ LiveType'
  BY <1>1, SameLiveAges
<1> QED BY <1>1, <1>2 DEF ClusterType

LEMMA SameWork ==
  ASSUME Between, Working, UNCHANGED cluster, UNCHANGED journal,
         job'.at = job.at, job'.queue = job.queue, job'.answer = job.answer, job'.flags = job.flags
  PROVE  Between' /\ Working'
<1>1. UNCHANGED <<live, touched, journal>>
  BY DEF cluster
<1>2. Item' = Item /\ Empty(job.queue)' = Empty(job.queue)
  BY DEF Item, Empty
<1>3. Between'
  BY <1>1, <1>2 DEF Between, At, Pending, Gone, Is, Present
<1>4. Listing' <=> Listing
  BY <1>1 DEF Listing, Entry, LastOne
<1>5. (AtLast' <=> AtLast) /\ (Reopened' <=> Reopened) /\ (Answered' <=> Answered)
  BY <1>1, <1>2 DEF AtLast, Reopened, Answered, LastOne, Pending, Is, Present
<1> QED BY <1>2, <1>3, <1>4, <1>5 DEF Working

\* The step of a process that begins, or that has the lock, on a journal without
\* decisions.
LEMMA WithoutDecisions ==
  ASSUME journal'.decisions = <<>>, \A t \in touched' : t[2] <= live'[t[1]].uid, Traced'
  PROVE  OnDisk'
<1>1. DOMAIN journal'.decisions = {}
  OBVIOUS
<1>2. OneEach' /\ OneOpenDecision' /\ GoneIsGone'
  BY <1>1 DEF OneEach, OneOpenDecision, GoneIsGone
<1> QED BY <1>1, <1>2 DEF OnDisk, Seen

LEMMA CreateKeeps ==
  ASSUME CleanupInv, CleanupAssumption, Create, UNCHANGED cluster
  PROVE  CleanupInv'
<1> USE DEF CleanupInv
<1>1. /\ newcomer = "none" /\ journal.state = "none" /\ newcomer' = "created"
      /\ SetState("Prepared") /\ job' = job /\ completed' = completed
  BY DEF Create
<1>2. journal \in Journals /\ ClusterType /\ JournalType /\ JobType /\ LastUid \in Nat
  BY DEF Types, JournalType, CleanupAssumption
<1>3. journal' \in Journals /\ SameRecords /\ journal'.state = "Prepared" /\ journal'.audited = journal.audited
  BY <1>1, <1>2, StateFacts DEF States
<1>4. ClusterType' /\ Ages /\ LiveType' /\ touched' = touched
  BY <1>2, SameCluster
<1>5. Types'
  <2>1. JournalType' /\ JobType'
    BY <1>1, <1>2, <1>3 DEF JournalType, SameRecords, JobType
  <2> QED BY <1>1, <1>4, <2>1 DEF Types
<1>6. At("off") /\ journal.decisions = <<>>
  BY <1>1 DEF Protocol, At
<1>7. Protocol'
  BY <1>1, <1>3, <1>6 DEF Protocol, At, SameRecords, Before, AfterMain, Auditing
<1>8. OnDisk'
  BY <1>2, <1>3, <1>4, DiskLasts DEF Lasts
<1>9. Between' /\ Working'
  BY <1>1, <1>6, IdleOwesNothing DEF Idle, At
<1>10. ~completed'
  BY <1>1 DEF CompletedOff
<1> QED BY <1>5, <1>7, <1>8, <1>9, <1>10 DEF CompletedOff

LEMMA LoadKeeps ==
  ASSUME CleanupInv, CleanupAssumption, Load, UNCHANGED cluster
  PROVE  CleanupInv'
<1> USE DEF CleanupInv
<1>1. /\ newcomer = "none" /\ Resumable(journal.state) /\ newcomer' = "loaded"
      /\ UNCHANGED <<journal, job, completed>>
  BY DEF Load
<1>2. ClusterType /\ JournalType /\ JobType /\ LastUid \in Nat
  BY DEF Types, CleanupAssumption
<1>3. ClusterType' /\ Ages /\ LiveType' /\ touched' = touched
  BY <1>2, SameCluster
<1>4. Types'
  BY <1>1, <1>2, <1>3 DEF Types, JournalType, JobType
<1>5. Protocol'
  BY <1>1 DEF Protocol, At, Resumable
<1>6. OnDisk'
  BY <1>1, <1>2, <1>3, DiskLasts DEF Lasts, SameRecords, JournalType
<1>7. Between' /\ Working'
  BY <1>1, SameWork
<1>8. CompletedOff'
  BY <1>1 DEF CompletedOff, At, Decided, cluster, Gone, Is, Present
<1> QED BY <1>4, <1>5, <1>6, <1>7, <1>8

\* A process that gets the lock: a new run, or one whose journal can be resumed.
LEMMA LockKeeps ==
  ASSUME CleanupInv, CleanupAssumption, Lock, UNCHANGED cluster
  PROVE  CleanupInv'
<1> USE DEF CleanupInv
<1>1. newcomer # "none" /\ newcomer' = "none" /\ journal' = journal
  BY DEF Lock
<1>2. ClusterType /\ JournalType /\ JobType /\ LastUid \in Nat /\ MaxPolls \in Nat
  BY DEF Types, CleanupAssumption
<1>3. ClusterType' /\ Ages /\ LiveType' /\ touched' = touched
  BY <1>2, SameCluster
<1>4. OnDisk'
  BY <1>1, <1>2, <1>3, DiskLasts DEF Lasts, SameRecords, JournalType
<1>5. CASE UNCHANGED <<job, completed>>
  <2>1. Types'
    BY <1>1, <1>2, <1>3, <1>5 DEF Types, JournalType, JobType
  <2>2. Protocol'
    BY <1>1, <1>5 DEF Protocol, At
  <2>3. Between' /\ Working'
    BY <1>1, <1>5, SameWork
  <2>4. CompletedOff'
    BY <1>1, <1>5 DEF CompletedOff, At, Decided, cluster, Gone, Is, Present
  <2> QED BY <1>4, <2>1, <2>2, <2>3, <2>4
<1>6. CASE Locks /\ ~Locked /\ ~(newcomer = "loaded" /\ ~Resumable(journal.state))
  <2> DEFINE place == IF newcomer = "created" THEN "start" ELSE "generation"
  <2>1. job' = [at |-> place, queue |-> <<>>, polls |-> 0, answer |-> "none",
                flags |-> {}, closed |-> FALSE] /\ completed' = FALSE
    BY <1>6 DEF Locks, NoJob
  <2>2. place \in {"start", "generation"} /\ DOMAIN <<>> \subseteq Nat
    OBVIOUS
  <2>3. JobType' /\ job'.at = place
    <3> HIDE DEF place
    <3>1. place \in Places
      BY <2>2 DEF Places
    <3> QED BY <1>2, <2>1, <2>2, <3>1 DEF JobType
  <2>4. Types'
    BY <1>1, <1>2, <1>3, <2>1, <2>3 DEF Types, JournalType
  <2>5. newcomer \in {"created", "loaded"}
    BY <1>1 DEF Types
  <2>6. Protocol'
    <3>1. CASE newcomer = "created"
      BY <1>1, <2>3, <3>1 DEF Protocol, At, AfterMain, Auditing, Before
    <3>2. CASE newcomer = "loaded"
      BY <1>1, <1>6, <2>3, <3>2 DEF Protocol, At, AfterMain, Auditing, Before, Resumable
    <3> QED BY <2>5, <3>1, <3>2
  <2>7. Between' /\ Working'
    BY <2>2, <2>3, IdleOwesNothing DEF Idle
  <2> QED BY <1>4, <2>1, <2>4, <2>6, <2>7 DEF CompletedOff
<1> QED BY <1>5, <1>6 DEF Lock

LEMMA CrashKeeps ==
  ASSUME CleanupInv, CleanupAssumption, Crash, UNCHANGED cluster
  PROVE  CleanupInv'
<1> USE DEF CleanupInv
<1>1. journal' = journal
  BY DEF Crash
<1>2. ClusterType /\ JournalType /\ JobType /\ LastUid \in Nat /\ MaxPolls \in Nat
  BY DEF Types, CleanupAssumption
<1>3. ClusterType' /\ Ages /\ LiveType' /\ touched' = touched
  BY <1>2, SameCluster
<1>4. OnDisk'
  BY <1>1, <1>2, <1>3, DiskLasts DEF Lasts, SameRecords, JournalType
<1>5. CASE newcomer' = "none" /\ UNCHANGED <<job, completed>>
  <2>1. Types'
    BY <1>1, <1>2, <1>3, <1>5 DEF Types, JournalType, JobType
  <2>2. Protocol'
    BY <1>1, <1>5 DEF Protocol, At
  <2>3. Between' /\ Working'
    BY <1>1, <1>5, SameWork
  <2>4. CompletedOff'
    BY <1>1, <1>5 DEF CompletedOff, At, Decided, cluster, Gone, Is, Present
  <2> QED BY <1>4, <2>1, <2>2, <2>3, <2>4
<1>6. CASE Locked /\ job' = NoJob /\ completed' = FALSE /\ UNCHANGED newcomer
  <2>1. JobType' /\ job'.at = "off"
    BY <1>2, <1>6, NoJobFacts
  <2>2. Types'
    BY <1>1, <1>2, <1>3, <1>6, <2>1 DEF Types, JournalType
  <2>3. Protocol'
    BY <1>1, <1>6, <2>1 DEF Protocol, At, Locked, Before, AfterMain, Auditing
  <2>4. Between' /\ Working'
    BY <2>1, IdleOwesNothing DEF Idle
  <2> QED BY <1>4, <1>6, <2>2, <2>3, <2>4 DEF CompletedOff
<1> QED BY <1>5, <1>6 DEF Crash

LEMMA PauseKeeps ==
  ASSUME CleanupInv, CleanupAssumption, Pause, UNCHANGED cluster
  PROVE  CleanupInv'
<1> USE DEF CleanupInv
<1>1. /\ journal' = journal /\ newcomer' = newcomer /\ completed' = completed
      /\ Locked /\ job' = [job EXCEPT !.closed = TRUE]
  BY DEF Pause, Stay, Still
<1>2. ClusterType /\ JournalType /\ JobType /\ LastUid \in Nat
  BY DEF Types, CleanupAssumption
<1>3. ClusterType' /\ Ages /\ LiveType' /\ touched' = touched
  BY <1>2, SameCluster
<1>4. /\ JobType' /\ job'.at = job.at /\ job'.queue = job.queue
      /\ job'.answer = job.answer /\ job'.flags = job.flags
  BY <1>1, <1>2, PauseFacts
<1>5. Types'
  BY <1>1, <1>2, <1>3, <1>4 DEF Types, JournalType
<1>6. Protocol'
  BY <1>1, <1>4 DEF Protocol, At
<1>7. OnDisk'
  BY <1>1, <1>2, <1>3, DiskLasts DEF Lasts, SameRecords, JournalType
<1>8. Between' /\ Working'
  BY <1>1, <1>4, SameWork
<1> QED BY <1>1, <1>5, <1>6, <1>7, <1>8, Assembled

LEMMA BeginMainKeeps ==
  ASSUME CleanupInv, CleanupAssumption, BeginMain
  PROVE  CleanupInv'
<1> USE DEF CleanupInv
<1>1. At("start") /\ SetState("Applying") /\ Go("main") /\ Stay /\ UNCHANGED cluster
  BY DEF BeginMain
<1>2. /\ ClusterType /\ JournalType /\ JobType /\ journal \in Journals
      /\ LastUid \in Nat /\ MaxPolls \in Nat
  BY DEF Types, JournalType, CleanupAssumption
<1>3. ClusterType' /\ Ages /\ LiveType' /\ touched' = touched
  BY <1>1, <1>2, SameCluster
<1>4. journal' \in Journals /\ SameRecords /\ journal'.state = "Applying" /\ journal'.audited = journal.audited
  BY <1>1, <1>2, StateFacts DEF States
<1>5. JobType' /\ job'.at = "main"
  BY <1>1, <1>2, GoFacts DEF Places
<1>6. newcomer' = newcomer /\ completed' = completed /\ Locked
  BY <1>1 DEF Stay, Locked, At
<1>7. newcomer = "none" /\ journal.decisions = <<>>
  BY <1>1 DEF Protocol, At, Before
<1>8. Types'
  BY <1>3, <1>4, <1>5, <1>6 DEF Types, JournalType, SameRecords
<1>9. Protocol'
  BY <1>4, <1>5, <1>6, <1>7 DEF Protocol, At, AfterMain, Auditing, Before, SameRecords
<1>10. OnDisk'
  BY <1>2, <1>3, <1>4, DiskLasts DEF Lasts
<1>11. Between' /\ Working'
  BY <1>5, IdleOwesNothing DEF Idle
<1> QED BY <1>6, <1>8, <1>9, <1>10, <1>11, Assembled

\* A deletion makes the incarnation that is there known as one of the run.
LEMMA DeletionIsSeen ==
  ASSUME ClusterType, Seen, JournalType, CleanupAssumption, NEW o \in Objects, Ages, LiveType',
         live'[o].uid = live[o].uid, touched' = touched \union {<<o, live[o].uid>>}
  PROVE  /\ touched' \subseteq Objects \X Uids
         /\ \A t \in touched' : t[2] <= live'[t[1]].uid
<1>1. LastUid \in Nat /\ live[o].uid \in Uids /\ live[o].uid \in Nat
  BY UidOrder DEF ClusterType
<1>2. \A t \in touched : t[2] <= live'[t[1]].uid
  BY <1>1, SeenLasts
<1>3. <<o, live[o].uid>> \in Objects \X Uids /\ live[o].uid <= live'[o].uid
  BY <1>1
<1> QED BY <1>2, <1>3 DEF ClusterType

LEMMA DeletedUid ==
  ASSUME LiveType, NEW o \in Objects, DeleteObject(o)
  PROVE  live'[o].uid = live[o].uid
BY DEF DeleteObject, LiveType

LEMMA MainDeleteKeeps ==
  ASSUME CleanupInv, CleanupAssumption, NEW d \in Deletes, MainDelete(d)
  PROVE  CleanupInv'
<1> USE DEF CleanupInv
<1>1. /\ At("main") /\ Present(d) /\ DeleteObject(d)
      /\ UNCHANGED <<expects, reinstalled, lost, newcomer, job, completed>>
  BY DEF MainDelete
<1>2. /\ ClusterType /\ JournalType /\ JobType /\ journal \in Journals /\ LiveType /\ Seen
      /\ LastUid \in Nat /\ MaxPolls \in Nat /\ d \in Objects
  BY DEF Types, JournalType, CleanupAssumption, ClusterType, OnDisk, Objects
<1>3. Ages /\ LiveType' /\ live'[d].uid = live[d].uid /\ live[d].uid \in Nat
  BY <1>1, <1>2, DeletionChanges, DeletedUid, UidOrder
<1>4. touched' = touched \union {<<d, live[d].uid>>}
  BY <1>1 DEF DeleteObject
<1>5. touched' \subseteq Objects \X Uids /\ \A t \in touched' : t[2] <= live'[t[1]].uid
  BY <1>2, <1>3, <1>4, DeletionIsSeen
<1>6. /\ journal' \in Journals /\ journal'.decisions = journal.decisions
      /\ journal'.complete = journal.complete /\ journal'.state = journal.state
      /\ journal'.audited = journal.audited
      /\ journal.deleted \subseteq journal'.deleted /\ journal.redelete \subseteq journal'.redelete
      /\ journal'.redelete \subseteq journal'.deleted
      /\ d \in journal'.deleted /\ (live[d].uid = 1 \/ d \in journal'.redelete)
  <2>1. journal.redelete \subseteq journal.deleted
    BY <1>2 DEF JournalType
  <2>2. CASE live[d].uid = 1 /\ Record([journal EXCEPT !.deleted = @ \union {d}])
    <3>1. journal' = [journal EXCEPT !.deleted = journal.deleted \union {d}]
      BY <2>2 DEF Record
    <3> QED BY <1>2, <2>1, <2>2, <3>1 DEF Journals
  <2>3. CASE /\ live[d].uid > 1 /\ d \in journal.deleted
             /\ Record([journal EXCEPT !.redelete = @ \union {d}])
    <3>1. journal' = [journal EXCEPT !.redelete = journal.redelete \union {d}]
      BY <2>3 DEF Record
    <3> QED BY <1>2, <2>1, <2>3, <3>1 DEF Journals
  <2> QED BY <2>2, <2>3 DEF MainDelete
<1>7. journal.decisions = <<>> /\ ~completed /\ Locked
  BY <1>1 DEF Protocol, At, Before, CompletedOff, Locked
<1>8. Types'
  BY <1>1, <1>2, <1>3, <1>5, <1>6 DEF Types, JournalType, ClusterType, JobType
<1>9. Protocol'
  BY <1>1, <1>6, <1>7 DEF Protocol, At, Auditing
<1>10. Traced'
  <2>1. ASSUME NEW t \in touched
        PROVE t[1] \in journal'.deleted /\ (t[2] = 1 \/ t[1] \in journal'.redelete \/ Gone(t)')
    <3>1. ~DecidedOn(t)
      BY <1>7 DEF DecidedOn
    <3>2. t[1] \in journal.deleted /\ (t[2] = 1 \/ t[1] \in journal.redelete \/ Gone(t))
      BY <3>1 DEF OnDisk, Traced
    <3>3. Gone(t) => Gone(t)'
      BY <1>2, <1>3, GoneLasts
    <3> QED BY <1>6, <3>2, <3>3
  <2>2. <<d, live[d].uid>>[1] = d /\ <<d, live[d].uid>>[2] = live[d].uid
    OBVIOUS
  <2>3. ASSUME NEW t \in touched', t \notin touched
        PROVE t[1] \in journal'.deleted /\ (t[2] = 1 \/ t[1] \in journal'.redelete)
    BY <1>4, <1>6, <2>2, <2>3
  <2> QED BY <2>1, <2>3 DEF Traced
<1>11. OnDisk'
  BY <1>5, <1>6, <1>7, <1>10, WithoutDecisions
<1>12. Between' /\ Working'
  BY <1>1, IdleOwesNothing DEF Idle, At
<1> QED BY <1>1, <1>7, <1>8, <1>9, <1>11, <1>12, Assembled

LEMMA MainDoneKeeps ==
  ASSUME CleanupInv, CleanupAssumption, MainDone
  PROVE  CleanupInv'
<1> USE DEF CleanupInv
<1>1. /\ At("main") /\ Go("done") /\ Stay /\ UNCHANGED cluster
      /\ \/ Record([journal EXCEPT !.complete = TRUE])
         \/ StillPresent = {} /\ Record([journal EXCEPT !.complete = TRUE, !.redelete = {}])
  BY DEF MainDone
<1>2. /\ ClusterType /\ JournalType /\ JobType /\ journal \in Journals
      /\ LastUid \in Nat /\ MaxPolls \in Nat
  BY DEF Types, JournalType, CleanupAssumption
<1>3. ClusterType' /\ Ages /\ LiveType' /\ touched' = touched /\ UNCHANGED <<live, touched>>
  BY <1>1, <1>2, SameCluster DEF cluster
<1>4. JobType' /\ job'.at = "done"
  BY <1>1, <1>2, GoFacts DEF Places
<1>5. /\ journal' \in Journals /\ journal'.decisions = journal.decisions
      /\ journal'.complete /\ journal'.state = journal.state
      /\ journal'.audited = journal.audited /\ journal'.deleted = journal.deleted
      /\ journal'.redelete = journal.redelete \/ (StillPresent = {} /\ journal'.redelete = {})
  <2>1. CASE Record([journal EXCEPT !.complete = TRUE])
    <3>1. journal' = [journal EXCEPT !.complete = TRUE]
      BY <2>1 DEF Record
    <3> QED BY <1>2, <3>1 DEF Journals
  <2>2. CASE StillPresent = {} /\ Record([journal EXCEPT !.complete = TRUE, !.redelete = {}])
    <3>1. journal' = [journal EXCEPT !.complete = TRUE, !.redelete = {}]
      BY <2>2 DEF Record
    <3> QED BY <1>2, <2>2, <3>1 DEF Journals
  <2> QED BY <1>1, <2>1, <2>2
<1>6. newcomer' = newcomer /\ completed' = completed /\ Locked
  BY <1>1 DEF Stay, Locked, At
<1>7. journal.decisions = <<>>
  BY <1>1 DEF Protocol, At, Before
<1>8. Types'
  BY <1>2, <1>3, <1>4, <1>5, <1>6 DEF Types, JournalType
<1>9. Protocol'
  BY <1>1, <1>4, <1>5, <1>6, <1>7 DEF Protocol, At, Auditing
<1>10. Traced'
  <2> SUFFICES ASSUME NEW t \in touched
               PROVE t[1] \in journal'.deleted /\ (t[2] = 1 \/ t[1] \in journal'.redelete \/ Gone(t)')
    BY <1>3 DEF Traced
  <2>1. ~DecidedOn(t)
    BY <1>7 DEF DecidedOn
  <2>2. t[1] \in journal.deleted /\ (t[2] = 1 \/ t[1] \in journal.redelete \/ Gone(t))
    BY <2>1 DEF OnDisk, Traced
  <2>3. Gone(t) => Gone(t)'
    BY <1>3 DEF Gone, Is, Present
  <2>4. StillPresent = {} => Gone(t)
    <3>1. t[1] \in Deletes
      BY <1>2, <2>2 DEF Journals
    <3> QED BY <3>1 DEF StillPresent, Planned, Gone, Is
  <2> QED BY <1>5, <2>2, <2>3, <2>4
<1>11. OnDisk'
  BY <1>3, <1>5, <1>7, <1>10, WithoutDecisions DEF OnDisk, Seen
<1>12. Between' /\ Working'
  BY <1>4, IdleOwesNothing DEF Idle
<1> QED BY <1>6, <1>8, <1>9, <1>11, <1>12, Assembled

\* The frame of a step of the process that leaves the cluster alone, and what
\* it writes of the state of the run.
LEMMA Framed ==
  ASSUME CleanupInv, CleanupAssumption, UNCHANGED cluster
  PROVE  /\ ClusterType /\ JournalType /\ JobType /\ journal \in Journals /\ LiveType
         /\ LastUid \in Nat /\ MaxPolls \in Nat
         /\ ClusterType' /\ Ages /\ LiveType' /\ touched' = touched /\ live' = live
<1>1. /\ ClusterType /\ JournalType /\ JobType /\ journal \in Journals /\ LiveType
      /\ LastUid \in Nat /\ MaxPolls \in Nat
  BY DEF CleanupInv, Types, JournalType, ClusterType, CleanupAssumption
<1>2. live' = live
  BY DEF cluster
<1> QED BY <1>1, <1>2, SameCluster

LEMMA MainEndsKeeps ==
  ASSUME CleanupInv, CleanupAssumption, MainEnds
  PROVE  CleanupInv'
<1> USE DEF CleanupInv
<1>1. UNCHANGED cluster
  BY DEF MainEnds
<1>2. /\ ClusterType /\ JournalType /\ JobType /\ journal \in Journals /\ LiveType
      /\ LastUid \in Nat /\ MaxPolls \in Nat
      /\ ClusterType' /\ Ages /\ LiveType' /\ touched' = touched
  BY <1>1, Framed
<1>3. ASSUME job.at \in {"main", "done"}, NEW s \in {"Failed", "Paused"}, SetState(s), Fail
      PROVE  CleanupInv'
  <2>1. journal' \in Journals /\ SameRecords /\ journal'.state = s /\ journal'.audited = journal.audited
    BY <1>2, <1>3, StateFacts DEF States
  <2>2. End(FALSE) /\ Lasts
    BY <1>2, <1>3, <2>1 DEF Fail, Lasts
  <2> HIDE DEF CleanupInv
  <2> QED BY <1>2, <1>3, <2>1, <2>2, EndStep
<1>4. ASSUME At("done"), SetState("ApplyCompleted"), Go("post audit"), Stay
      PROVE  CleanupInv'
  <2>1. journal' \in Journals /\ SameRecords /\ journal'.state = "ApplyCompleted" /\ journal'.audited = journal.audited
    BY <1>2, <1>4, StateFacts DEF States
  <2>2. JobType' /\ job'.at = "post audit"
    BY <1>2, <1>4, GoFacts DEF Places
  <2>3. journal.decisions = <<>> /\ journal.complete
    BY <1>4 DEF Protocol, At, Before, AfterMain
  <2>4. Between' /\ Working'
    BY <2>2, IdleOwesNothing DEF Idle
  <2>5. Lasts /\ job.at \notin {"off", "start"}
    BY <1>2, <1>4, <2>1 DEF Lasts, At
  <2> HIDE DEF CleanupInv
  <2> QED BY <1>2, <1>4, <2>1, <2>2, <2>3, <2>4, <2>5, QuietStep
<1> QED BY <1>3, <1>4 DEF MainEnds, At
-----------------------------------------------------------------------------
(***************************************************************************)
(* The audit after the main execution, and the cleanup                     *)
(***************************************************************************)

\* The candidates are objects, each once, as they are; whatever is there that
\* the run has deleted is one of them.
LEMMA CandidateFacts ==
  ASSUME CleanupAssumption, ClusterType, journal \in Journals
  PROVE  /\ DOMAIN Candidates \subseteq Nat
         /\ \A i \in DOMAIN Candidates :
              Entry(Candidates[i]) /\ Candidates[i].uid <= live[Candidates[i].res].uid
         /\ \A i, k \in DOMAIN Candidates : Candidates[i].res = Candidates[k].res => i = k
         /\ Empty(Candidates) => \A d \in journal.deleted : ~Present(d)
<1> DEFINE N == Len(PlanOrder)
           S == {k \in 1..(2 * N) :
                  IF k > N THEN Selects /\ Attributed(Listed(k)) ELSE Candidate(Listed(k))}
<1>1. /\ N \in Nat /\ PlanOrder \in Seq(Objects) /\ DOMAIN PlanOrder = 1..N
      /\ Range(PlanOrder) = Objects
      /\ \A i, k \in DOMAIN PlanOrder : PlanOrder[i] = PlanOrder[k] => i = k
  BY DEF CleanupAssumption
<1>2. DOMAIN Candidates = S /\ \A i \in S :
        Candidates[i] = [res |-> Listed(i), uid |-> live[Listed(i)].uid]
  BY DEF Candidates
<1> DEFINE at(i) == IF i > N THEN i - N ELSE i
<1>3. ASSUME NEW i \in S PROVE at(i) \in DOMAIN PlanOrder /\ Listed(i) = PlanOrder[at(i)]
  BY <1>1 DEF Listed
<1>4. ASSUME NEW i \in S PROVE Listed(i) \in Objects
  BY <1>1, <1>3
<1>5. ASSUME NEW i \in S PROVE live[Listed(i)].uid \in Uids /\ live[Listed(i)].uid <= live[Listed(i)].uid
  <2>1. live[Listed(i)].uid \in Uids /\ live[Listed(i)].uid \in Nat
    BY <1>4, UidOrder DEF ClusterType
  <2> QED BY <2>1
<1>6. ASSUME NEW i \in S PROVE i > N <=> Listed(i) \notin Planned
  BY <1>1 DEF Attributed, Candidate
<1>7. ASSUME NEW i \in S, NEW k \in S, Listed(i) = Listed(k) PROVE i = k
  <2>1. at(i) = at(k)
    BY <1>1, <1>3, <1>7
  <2>2. i > N <=> k > N
    BY <1>6, <1>7
  <2> QED BY <1>1, <2>1, <2>2
<1>8. ASSUME S = {}, NEW d \in journal.deleted PROVE ~Present(d)
  <2>1. d \in Deletes /\ d \in Objects /\ d \notin expects /\ d \in Planned
    BY DEF Journals, Objects, Planned, ClusterType, CleanupAssumption
  <2>2. PICK k \in 1..N : PlanOrder[k] = d
    BY <1>1, <2>1 DEF Range
  <2>3. k \in 1..(2 * N) /\ ~(k > N) /\ Listed(k) = d
    BY <1>1, <2>2 DEF Listed
  <2>4. ~Candidate(d)
    BY <1>8, <2>3
  <2> QED BY <2>1, <2>4 DEF Candidate
<1> HIDE DEF S
<1>9. DOMAIN Candidates \subseteq Nat
  BY <1>1, <1>2 DEF S
<1>12. \A i \in DOMAIN Candidates :
        Entry(Candidates[i]) /\ Candidates[i].uid <= live[Candidates[i].res].uid
  BY <1>2, <1>4, <1>5 DEF Entry
<1>10. \A i, k \in DOMAIN Candidates : Candidates[i].res = Candidates[k].res => i = k
  BY <1>2, <1>7
<1>11. Empty(Candidates) => \A d \in journal.deleted : ~Present(d)
  BY <1>2, <1>8 DEF Empty
<1> QED BY <1>9, <1>10, <1>11, <1>12

\* With no decision yet, what the run has deleted is what the journal says it
\* has deleted.
LEMMA UndecidedIsDeleted ==
  ASSUME OnDisk, journal.decisions = <<>>, NEW t \in touched
  PROVE  t[1] \in journal.deleted
<1>1. ~DecidedOn(t)
  BY DEF DecidedOn
<1> QED BY <1>1 DEF OnDisk, Traced

LEMMA PostAuditKeeps ==
  ASSUME CleanupInv, CleanupAssumption, PostAudit
  PROVE  CleanupInv'
<1>1. At("post audit") /\ Still /\ UNCHANGED cluster
  BY DEF PostAudit
<1>2. /\ ClusterType /\ JournalType /\ JobType /\ journal \in Journals /\ LiveType
      /\ LastUid \in Nat /\ MaxPolls \in Nat
      /\ ClusterType' /\ Ages /\ LiveType' /\ touched' = touched /\ live' = live
  BY <1>1, Framed
<1>3. /\ journal' \in Journals /\ SameRecords /\ journal'.state = journal.state
      /\ journal'.audited = journal.audited
  BY <1>1, <1>2, StillFacts
<1>4. Lasts /\ job.at \notin {"off", "start"}
  BY <1>1, <1>2, <1>3 DEF Lasts, At
<1>5. CASE Fail
  BY <1>3, <1>2, <1>4, <1>5, EndStep DEF Fail
<1>6. ASSUME NEW a, GoWith("recheck", Candidates, a, job.flags), Stay
      PROVE  CleanupInv'
  <2>1. /\ DOMAIN Candidates \subseteq Nat
        /\ \A i \in DOMAIN Candidates :
             Entry(Candidates[i]) /\ Candidates[i].uid <= live[Candidates[i].res].uid
        /\ \A i, k \in DOMAIN Candidates : Candidates[i].res = Candidates[k].res => i = k
        /\ Empty(Candidates) => \A d \in journal.deleted : ~Present(d)
    BY <1>2, CandidateFacts
  <2>2. JobType' /\ job'.at = "recheck" /\ job'.queue = Candidates
    <3>1. "recheck" \in Places
      BY DEF Places
    <3> QED BY <1>2, <1>6, <2>1, <3>1, GoWithFacts
  <2>3. journal.decisions = <<>> /\ journal.complete /\ journal.state = "ApplyCompleted"
    BY <1>1 DEF CleanupInv, Protocol, At, Before, AfterMain, Auditing
  <2>4. Empty(Candidates) => \A t \in touched : Gone(t)
    BY <2>1, <2>3, UndecidedIsDeleted DEF CleanupInv, Gone, Is
  <2>5. Between'
    <3>1. job'.queue = Candidates /\ job'.at = "recheck" /\ touched' = touched
            /\ \A t \in touched : Gone(t) => Gone(t)'
      BY <1>2, <2>2 DEF Gone, Is, Present
    <3>2. Empty(job'.queue) => \A t \in touched' : Gone(t)'
      BY <3>1, <2>4
    <3> QED BY <3>1, <3>2 DEF Between, At, ResumePlaces, Resuming, Again
  <2>6. Listing'
    <3>1. DOMAIN journal'.decisions = {}
      BY <1>3, <2>3 DEF SameRecords
    <3> QED BY <1>2, <2>1, <2>2, <3>1 DEF Listing, Entry
  <2>7. Working'
    BY <2>2, <2>6 DEF Working, Deciding, Sending, Waiting, Resuming, Again
  <2> QED BY <1>2, <1>3, <1>4, <1>6, <2>2, <2>3, <2>5, <2>7, QuietStep
<1> QED BY <1>1, <1>5, <1>6 DEF PostAudit

LEMMA RecheckKeeps ==
  ASSUME CleanupInv, CleanupAssumption, Recheck
  PROVE  CleanupInv'
<1>1. At("recheck") /\ UNCHANGED cluster
  BY DEF Recheck
<1>2. /\ ClusterType /\ JournalType /\ JobType /\ journal \in Journals /\ LiveType
      /\ LastUid \in Nat /\ MaxPolls \in Nat
      /\ ClusterType' /\ Ages /\ LiveType' /\ touched' = touched /\ live' = live
  BY <1>1, Framed
<1>3. job.at = "recheck" /\ journal.decisions = <<>> /\ journal.complete /\ journal.state = "ApplyCompleted"
  BY <1>1 DEF CleanupInv, Protocol, At, Before, AfterMain, Auditing
<1>4. CASE Fail /\ Still
  <2>1. /\ journal' \in Journals /\ SameRecords /\ journal'.state = journal.state
        /\ journal'.audited = journal.audited
    BY <1>2, <1>4, StillFacts
  <2>2. Lasts
    BY <1>2, <2>1 DEF Lasts
  <2> QED BY <1>2, <1>3, <1>4, <2>1, <2>2, EndStep DEF Fail
<1>5. ASSUME Record([journal EXCEPT !.audited = TRUE]),
             \/ Fail
             \/ Empty(job.queue) /\ Complete
             \/ Go("validate") /\ Stay
      PROVE  CleanupInv'
  <2>1. journal' \in Journals /\ SameRecords /\ journal'.state = journal.state /\ journal'.audited
    BY <1>2, <1>5, AuditKeptFacts DEF Record
  <2>2. Lasts
    BY <1>2, <2>1 DEF Lasts
  <2>3. CASE Fail
    BY <1>2, <1>3, <2>1, <2>2, <2>3, EndStep DEF Fail
  <2>4. CASE Empty(job.queue) /\ Complete
    <3>1. \A t \in touched : Gone(t)
      BY <1>1, <2>4 DEF CleanupInv, Between
    <3>2. \A t \in touched' : Gone(t)'
      BY <1>2, <3>1 DEF Gone, Is, Present
    <3>3. DOMAIN journal'.decisions = {} /\ journal'.state = "ApplyCompleted" /\ job'.at = "off"
      BY <1>2, <1>3, <2>1, <2>4, NoJobFacts DEF SameRecords, Complete, End
    <3>4. CompletedOff'
      BY <3>2, <3>3 DEF CompletedOff, At
    <3> QED BY <1>2, <1>3, <2>1, <2>2, <2>4, <3>4, EndStep DEF Complete
  <2>5. CASE Go("validate") /\ Stay
    <3>1. JobType' /\ job'.at = "validate" /\ job'.queue = job.queue
      BY <1>2, <2>5, GoFacts DEF Places
    <3>2. Listing
      BY <1>3 DEF CleanupInv, Working, Cleaning
    <3>3. Listing'
      <4>1. DOMAIN journal'.decisions = {}
        BY <1>3, <2>1 DEF SameRecords
      <4> QED BY <1>2, <3>1, <3>2, <4>1 DEF Listing, Entry
    <3>4. Working'
      BY <3>1, <3>3 DEF Working, Deciding, Sending, Waiting, Resuming, Again
    <3>5. Between'
      BY <3>1 DEF Between, At, ResumePlaces, Resuming, Again
    <3> QED BY <1>2, <1>3, <2>1, <2>2, <2>5, <3>1, <3>4, <3>5, QuietStep
  <2> QED BY <1>5, <2>3, <2>4, <2>5
<1> QED BY <1>4, <1>5 DEF Recheck

\* A work list of which some are left is one for which the same holds.
LEMMA ListingShrinks ==
  ASSUME Listing, live' = live, DOMAIN job'.queue \subseteq DOMAIN job.queue,
         \A i \in DOMAIN job'.queue : job'.queue[i] = job.queue[i],
         DOMAIN journal'.decisions = DOMAIN journal.decisions,
         \A k \in DOMAIN journal.decisions : journal'.decisions[k].res = journal.decisions[k].res,
         job.at \in Deciding => First(job.queue) \notin DOMAIN job'.queue
  PROVE  Listing'
<1>1. \A i \in DOMAIN job'.queue : Entry(job'.queue[i]) /\ job'.queue[i].uid <= live'[job'.queue[i].res].uid
  BY DEF Listing, Entry
<1>2. \A i, k \in DOMAIN job'.queue : job'.queue[i].res = job'.queue[k].res => i = k
  BY DEF Listing
<1>3. \A i \in DOMAIN job'.queue, k \in DOMAIN journal'.decisions :
        job'.queue[i].res # journal'.decisions[k].res
  BY DEF Listing
<1> QED BY <1>1, <1>2, <1>3 DEF Listing, Entry

LEMMA ValidateKeeps ==
  ASSUME CleanupInv, CleanupAssumption, Validate
  PROVE  CleanupInv'
<1> DEFINE valid == RestrictValues(job.queue, Is)
<1>1. At("validate") /\ UNCHANGED cluster
  BY DEF Validate
<1>2. /\ ClusterType /\ JournalType /\ JobType /\ journal \in Journals /\ LiveType
      /\ LastUid \in Nat /\ MaxPolls \in Nat
      /\ ClusterType' /\ Ages /\ LiveType' /\ touched' = touched /\ live' = live
  BY <1>1, Framed
<1>3. /\ job.at = "validate" /\ journal.decisions = <<>> /\ journal.complete /\ journal.audited
      /\ Listing
  BY <1>1 DEF CleanupInv, Protocol, At, Before, Working, Cleaning
<1>4. CASE Fail /\ Still
  <2>1. /\ journal' \in Journals /\ SameRecords /\ journal'.state = journal.state
        /\ journal'.audited = journal.audited
    BY <1>2, <1>4, StillFacts
  <2>2. Lasts
    BY <1>2, <2>1 DEF Lasts
  <2> QED BY <1>2, <1>3, <1>4, <2>1, <2>2, EndStep DEF Fail
<1>5. ASSUME NEW flags, SetState("InteractiveCleanup"), Stay, GoWith("next", valid, "none", flags)
      PROVE  CleanupInv'
  <2>1. /\ journal' \in Journals /\ SameRecords /\ journal'.state = "InteractiveCleanup"
        /\ journal'.audited = journal.audited
    BY <1>2, <1>5, StateFacts DEF States
  <2>2. /\ DOMAIN valid \subseteq DOMAIN job.queue
        /\ \A i \in DOMAIN valid : valid[i] = job.queue[i]
    BY DEF RestrictValues, Restrict
  <2>3. DOMAIN valid \subseteq Nat
    BY <1>2, <2>2 DEF JobType
  <2> HIDE DEF valid
  <2>4. JobType' /\ job'.at = "next" /\ job'.queue = valid
    <3>1. "next" \in Places
      BY DEF Places
    <3> QED BY <1>2, <1>5, <2>3, <3>1, GoWithFacts
  <2>5. Listing'
    <3>1. journal'.decisions = journal.decisions
      BY <2>1 DEF SameRecords
    <3>2. job.at \notin Deciding
      BY <1>3 DEF Deciding, Sending, Waiting
    <3> QED BY <1>2, <1>3, <2>2, <2>4, <3>1, <3>2, ListingShrinks
  <2>6. Working'
    BY <2>4, <2>5 DEF Working, Deciding, Sending, Waiting, Resuming, Again
  <2>7. Between'
    <3>1. DOMAIN journal'.decisions = {}
      BY <1>3, <2>1 DEF SameRecords
    <3> QED BY <2>4, <3>1 DEF Between, At, ResumePlaces, Resuming, Again
  <2>8. Lasts
    BY <1>2, <2>1 DEF Lasts
  <2>9. job'.at \notin Before /\ job'.at \notin AfterMain /\ job'.at \notin Auditing
    BY <2>4 DEF Before, AfterMain, Auditing
  <2> QED BY <1>2, <1>3, <1>5, <2>1, <2>4, <2>6, <2>7, <2>8, <2>9, QuietStep
<1> QED BY <1>1, <1>4, <1>5 DEF Validate

\* What the process looks at is the first of its work list.
LEMMA ItemFacts ==
  ASSUME JobType, ~Empty(job.queue)
  PROVE  First(job.queue) \in DOMAIN job.queue /\ Item = job.queue[First(job.queue)]
BY FirstIn DEF JobType, Item

\* On with the next one: nothing of what is left is decided upon.
LEMMA NextKeeps ==
  ASSUME CleanupInv, CleanupAssumption, UNCHANGED cluster, Stay, Still, NEW flags,
         At("next"), ~Empty(job.queue), Onward("next", flags)
  PROVE  CleanupInv'
<1>1. /\ ClusterType /\ JournalType /\ JobType /\ journal \in Journals /\ LiveType
      /\ LastUid \in Nat /\ MaxPolls \in Nat
      /\ ClusterType' /\ Ages /\ LiveType' /\ touched' = touched /\ live' = live
  BY Framed
<1>2. /\ journal' \in Journals /\ SameRecords /\ journal'.state = journal.state
      /\ journal'.audited = journal.audited /\ journal'.decisions = journal.decisions
  BY <1>1, StillFacts DEF SameRecords
<1>3. JobType' /\ job'.at = "next" /\ job'.queue = Rest(job.queue)
  BY <1>1, OnwardFacts DEF Places
<1>4. /\ journal.audited /\ journal.complete /\ journal.state \notin {"none", "Prepared", "Applying"}
      /\ \A i \in DOMAIN journal.decisions : ~Pending(journal.decisions[i])
      /\ Listing /\ job.at \notin Deciding /\ job.at = "next"
  BY DEF CleanupInv, Protocol, At, Between, Working, Cleaning, Deciding, Sending, Waiting
<1>5. Listing'
  <2>1. /\ DOMAIN job'.queue \subseteq DOMAIN job.queue
        /\ \A i \in DOMAIN job'.queue : job'.queue[i] = job.queue[i]
    <3>1. /\ DOMAIN Rest(job.queue) \subseteq DOMAIN job.queue
          /\ \A i \in DOMAIN Rest(job.queue) : Rest(job.queue)[i] = job.queue[i]
      BY RestFacts, Zenon
    <3> QED BY <1>3, <3>1
  <2>2. live' = live /\ journal'.decisions = journal.decisions /\ Listing /\ job.at \notin Deciding
    BY <1>1, <1>2, <1>4
  <2> QED BY <2>1, <2>2, ListingShrinks
<1>6. Working'
  BY <1>3, <1>5 DEF Working, Deciding, Sending, Waiting, Resuming, Again
<1>7. Between'
  BY <1>2, <1>3, <1>4 DEF Between, At, ResumePlaces, Resuming, Again, Pending
<1>8. Lasts
  BY <1>1, <1>2 DEF Lasts
<1>9. job'.at \notin Before /\ job'.at \notin AfterMain /\ job'.at \notin Auditing
  BY <1>3 DEF Before, AfterMain, Auditing
<1> QED BY <1>1, <1>2, <1>3, <1>4, <1>6, <1>7, <1>8, <1>9, QuietStep

\* The decision is on disk before the DELETE: it is the only one about its
\* object, and the only one that is open.
LEMMA DecisionKeeps ==
  ASSUME CleanupInv, CleanupAssumption, UNCHANGED cluster, Stay,
         At("next"), ~Empty(job.queue), Is(Item), Go("send"),
         Record([journal EXCEPT !.decisions =
                   Append(@, [res |-> Item.res, uid |-> Item.uid, result |-> "none"])])
  PROVE  CleanupInv'
<1> DEFINE d == [res |-> Item.res, uid |-> Item.uid, result |-> "none"]
           ds == journal.decisions
<1>1. /\ ClusterType /\ JournalType /\ JobType /\ journal \in Journals /\ LiveType
      /\ LastUid \in Nat /\ MaxPolls \in Nat
      /\ ClusterType' /\ Ages /\ LiveType' /\ touched' = touched /\ live' = live
  BY Framed
<1>2. First(job.queue) \in DOMAIN job.queue /\ Item = job.queue[First(job.queue)]
  BY <1>1, ItemFacts
<1>3. /\ journal.audited /\ journal.complete /\ journal.state \notin {"none", "Prepared", "Applying", "Failed"}
      /\ newcomer # "created"
      /\ \A i \in DOMAIN ds : ~Pending(ds[i])
      /\ Listing /\ job.at \notin Deciding /\ job.at = "next" /\ Locked
  BY DEF CleanupInv, Protocol, At, Locked, Between, Working, Cleaning, Deciding, Sending, Waiting
<1>4. Entry(Item) /\ Item.uid <= live[Item.res].uid
  BY <1>2, <1>3 DEF Listing
<1>5. d \in Decision /\ ds \in Seq(Decision) /\ Len(ds) \in Nat /\ DOMAIN ds = 1..Len(ds)
  BY <1>1, <1>4 DEF Decision, Results, Entry, Journals
<1>6. /\ Append(ds, d) \in Seq(Decision) /\ Len(Append(ds, d)) = Len(ds) + 1
      /\ DOMAIN Append(ds, d) = 1..(Len(ds) + 1)
      /\ \A i \in 1..Len(ds) : Append(ds, d)[i] = ds[i]
      /\ Append(ds, d)[Len(ds) + 1] = d
  BY <1>5, AppendProperties
<1>7. journal' = [journal EXCEPT !.decisions = Append(ds, d)]
  BY DEF Record
<1>8. /\ journal' \in Journals /\ journal'.decisions = Append(ds, d)
      /\ journal'.complete = journal.complete /\ journal'.deleted = journal.deleted
      /\ journal'.redelete = journal.redelete /\ journal'.state = journal.state
      /\ journal'.audited = journal.audited
  BY <1>1, <1>6, <1>7 DEF Journals
<1>9. JobType' /\ job'.at = "send" /\ job'.queue = job.queue
  BY <1>1, GoFacts DEF Places
<1>10. newcomer' = newcomer /\ completed' = completed
  BY DEF Stay
<1>11. Types'
  BY <1>1, <1>8, <1>9, <1>10 DEF CleanupInv, Types, JournalType
<1>12. \A k \in DOMAIN ds : ds[k].res # Item.res
  BY <1>2, <1>3 DEF Listing
<1>13. /\ DOMAIN journal'.decisions = DOMAIN ds \union {Len(ds) + 1}
       /\ \A i \in DOMAIN ds : journal'.decisions[i] = ds[i] /\ i # Len(ds) + 1
       /\ journal'.decisions[Len(ds) + 1] = d /\ Len(journal'.decisions) = Len(ds) + 1
  BY <1>5, <1>6, <1>8
<1>14. d.res = Item.res /\ d.uid = Item.uid /\ d.result = "none"
  OBVIOUS
<1> HIDE DEF d
<1>15. Protocol'
  <2>1. job'.at \notin Before /\ job'.at \notin AfterMain /\ job'.at \notin Auditing
    BY <1>9 DEF Before, AfterMain, Auditing
  <2> QED BY <1>3, <1>8, <1>9, <1>10, <2>1 DEF Protocol, At
<1>16. OnDisk'
  <2>1. OneEach'
    BY <1>12, <1>13, <1>14 DEF CleanupInv, OnDisk, OneEach
  <2>2. OneOpenDecision'
    BY <1>3, <1>13 DEF OneOpenDecision, Pending
  <2>3. Seen'
    BY <1>1, <1>4, <1>13, <1>14 DEF CleanupInv, OnDisk, Seen
  <2>4. GoneIsGone'
    <3>1. ~Decided(d)
      BY <1>14 DEF Decided
    <3>2. \A i \in DOMAIN ds : Decided(ds[i]) => ~Is(ds[i])
      BY DEF CleanupInv, OnDisk, GoneIsGone
    <3>3. \A i \in DOMAIN journal'.decisions :
            Decided(journal'.decisions[i]) => ~(live'[journal'.decisions[i].res].phase # "gone"
                /\ live'[journal'.decisions[i].res].uid = journal'.decisions[i].uid)
      BY <1>1, <1>13, <3>1, <3>2 DEF Is, Present
    <3> QED BY <3>3 DEF GoneIsGone, Decided, Is, Present
  <2>5. Traced'
    <3> SUFFICES ASSUME NEW t \in touched
                 PROVE DecidedOn(t)' \/ (t[1] \in journal.deleted
                         /\ (t[2] = 1 \/ t[1] \in journal.redelete \/ Gone(t)'))
      BY <1>1, <1>8 DEF Traced
    <3>1. DecidedOn(t) => DecidedOn(t)'
      BY <1>13 DEF DecidedOn
    <3>2. Gone(t) => Gone(t)'
      BY <1>1 DEF Gone, Is, Present
    <3> QED BY <3>1, <3>2 DEF CleanupInv, OnDisk, Traced
  <2> QED BY <2>1, <2>2, <2>3, <2>4, <2>5 DEF OnDisk
<1>17. Item' = Item /\ (First(job.queue))' = First(job.queue)
  BY <1>9 DEF Item
<1>18. Listing'
  <2>1. \A i \in DOMAIN job'.queue : Entry(job'.queue[i]) /\ job'.queue[i].uid <= live'[job'.queue[i].res].uid
    BY <1>1, <1>3, <1>9 DEF Listing, Entry
  <2>2. \A i, k \in DOMAIN job'.queue : job'.queue[i].res = job'.queue[k].res => i = k
    BY <1>3, <1>9 DEF Listing
  <2>3. \A i \in DOMAIN job'.queue, k \in DOMAIN journal'.decisions :
          job'.queue[i].res = journal'.decisions[k].res =>
            i = First(job.queue) /\ k = Len(journal'.decisions)
    BY <1>2, <1>3, <1>9, <1>13, <1>14 DEF Listing
  <2>4. job'.at \in Deciding
    BY <1>9 DEF Deciding, Sending
  <2> QED BY <1>9, <1>17, <2>1, <2>2, <2>3, <2>4 DEF Listing, LastOne
<1>19. AtLast'
  <2>1. journal'.decisions # <<>>
    BY <1>5, <1>13
  <2> QED BY <1>9, <1>13, <1>14, <1>17, <2>1 DEF AtLast, LastOne, Sending, Empty
<1>20. Working'
  BY <1>9, <1>18, <1>19 DEF Working, Resuming, Again
<1>21. Between'
  BY <1>9 DEF Between, At, ResumePlaces, Resuming, Again
<1> QED BY <1>3, <1>10, <1>11, <1>15, <1>16, <1>20, <1>21, Assembled

LEMMA DecideKeeps ==
  ASSUME CleanupInv, CleanupAssumption, Decide
  PROVE  CleanupInv'
<1>1. At("next") /\ ~Empty(job.queue) /\ UNCHANGED cluster
  BY DEF Decide
<1>2. /\ ClusterType /\ JournalType /\ JobType /\ journal \in Journals /\ LiveType
      /\ LastUid \in Nat /\ MaxPolls \in Nat
      /\ ClusterType' /\ Ages /\ LiveType' /\ touched' = touched /\ live' = live
  BY <1>1, Framed
<1>3. job.at \notin {"off", "start"}
  BY <1>1 DEF At
<1>4. ASSUME Still
      PROVE  /\ journal' \in Journals /\ SameRecords /\ journal'.state = journal.state
             /\ journal'.audited = journal.audited /\ Lasts
  BY <1>2, <1>4, StillFacts DEF Lasts
<1>5. CASE Fail /\ Still
  BY <1>2, <1>3, <1>4, <1>5, EndStep DEF Fail
<1>6. ASSUME NEW flags, Still, Stay, GoWith("settle", job.queue, "none", flags) PROVE CleanupInv'
  <2>1. DOMAIN job.queue \subseteq Nat /\ "settle" \in Places
    BY <1>2 DEF JobType, Places
  <2>2. JobType' /\ job'.at = "settle"
    BY <1>2, <1>6, <2>1, GoWithFacts
  <2>3. Between' /\ Working'
    BY <2>2, IdleOwesNothing DEF Idle
  <2>4. job'.at \notin Before /\ job'.at \notin AfterMain /\ job'.at \notin Auditing
    BY <2>2 DEF Before, AfterMain, Auditing
  <2> QED BY <1>2, <1>3, <1>4, <1>6, <2>2, <2>3, <2>4, QuietStep
<1>7. CASE Onward("next", {"skipped"}) /\ Still /\ Stay
  BY <1>1, <1>7, NextKeeps
<1>8. CASE /\ Is(Item) /\ Go("send") /\ Stay
           /\ Record([journal EXCEPT !.decisions =
                Append(@, [res |-> Item.res, uid |-> Item.uid, result |-> "none"])])
  BY <1>1, <1>8, DecisionKeeps
<1> QED BY <1>5, <1>6, <1>7, <1>8 DEF Decide

\* The process that sends a DELETE or follows one up has an open decision about
\* the incarnation on disk.
ItemAt(k) ==
  /\ k \in DOMAIN journal.decisions /\ Pending(journal.decisions[k])
  /\ journal.decisions[k].res = Item.res /\ journal.decisions[k].uid = Item.uid

LEMMA LastFacts ==
  ASSUME CleanupInv, job.at \in Deciding
  PROVE  /\ Listing /\ AtLast /\ ItemAt(LastOne)
         /\ LastOne \in Nat /\ DOMAIN journal.decisions = 1..LastOne
<1>1. Listing /\ AtLast
  BY DEF CleanupInv, Working, Cleaning
<1>2. journal.decisions \in Seq(Decision) /\ journal.decisions # <<>>
  BY <1>1 DEF CleanupInv, Types, JournalType, Journals, AtLast
<1>3. LastOne \in DOMAIN journal.decisions /\ LastOne \in Nat /\ DOMAIN journal.decisions = 1..LastOne
  BY <1>2 DEF LastOne
<1> QED BY <1>1, <1>3 DEF AtLast, ItemAt, Pending

LEMMA FirstFacts ==
  ASSUME CleanupInv, job.at \in Again
  PROVE  /\ Reopened /\ ~Empty(job.queue) /\ First(job.queue) \in DOMAIN job.queue
         /\ ItemAt(First(job.queue))
<1>1. Reopened /\ ~Empty(job.queue) /\ JobType
  BY DEF CleanupInv, Working, Types, Resuming
<1>2. First(job.queue) \in DOMAIN job.queue /\ Item = job.queue[First(job.queue)]
  BY <1>1, ItemFacts
<1> QED BY <1>1, <1>2 DEF Reopened, ItemAt

LEMMA ItemIsDecided ==
  ASSUME CleanupInv, job.at \in Deciding \union Again
  PROVE  Entry(Item) /\ Item.uid <= live[Item.res].uid /\ \E k \in DOMAIN journal.decisions : ItemAt(k)
<1>1. PICK k \in DOMAIN journal.decisions : ItemAt(k)
  BY LastFacts, FirstFacts DEF ItemAt
<1>2. journal.decisions[k].res \in Objects /\ journal.decisions[k].uid \in Uids
  BY DecisionTypes DEF CleanupInv, Types
<1>3. journal.decisions[k].uid <= live[journal.decisions[k].res].uid
  BY DEF CleanupInv, OnDisk, Seen
<1> QED BY <1>1, <1>2, <1>3 DEF ItemAt, Entry

LEMMA WorkStays ==
  ASSUME Listing, AtLast, LiveType, LiveType', Ages, LastUid \in Nat,
         job'.queue = job.queue, journal'.decisions = journal.decisions,
         job.at \in Deciding, job'.at \in Deciding, job.at \in Sending <=> job'.at \in Sending
  PROVE  Listing' /\ AtLast'
<1>1. \A e : Entry(e) /\ e.uid <= live[e.res].uid => e.uid <= live'[e.res].uid
  BY EntryLasts, Zenon
<1>2. \A i \in DOMAIN job'.queue : Entry(job'.queue[i]) /\ job'.queue[i].uid <= live'[job'.queue[i].res].uid
  BY <1>1 DEF Listing
<1>3. \A i, k \in DOMAIN job'.queue : job'.queue[i].res = job'.queue[k].res => i = k
  BY DEF Listing
<1>4. \A i \in DOMAIN job'.queue, k \in DOMAIN journal'.decisions :
        job'.queue[i].res = journal'.decisions[k].res => i = First(job.queue) /\ k = LastOne
  BY DEF Listing
<1>5. First(job.queue)' = First(job.queue) /\ LastOne' = LastOne /\ Item' = Item
  BY DEF LastOne, Item
<1>6. Listing'
  BY <1>2, <1>3, <1>4, <1>5 DEF Listing, Entry
<1>7. AtLast'
  BY <1>5 DEF AtLast, Empty
<1> QED BY <1>6, <1>7

LEMMA ReopenedStays ==
  ASSUME Reopened, job'.queue = job.queue, journal'.decisions = journal.decisions
  PROVE  Reopened'
BY DEF Reopened, Pending

\* A DELETE takes effect, or it does not; its reply is to be recorded.
LEMMA SentKeeps ==
  ASSUME CleanupInv, CleanupAssumption, Stay, Still, UNCHANGED <<expects, reinstalled>>,
         At("send") \/ At("send again"), NEW a \in AnswersOf, lost' \in 0..MaxLost,
         job' = [job EXCEPT !.answer = a, !.at = IF @ = "send" THEN "record" ELSE "record again"],
         \/ UNCHANGED <<live, touched>> /\ (a = "alreadyGone" => ~Present(Item.res))
         \/ Is(Item) /\ (DeleteObject(Item.res) \/ DeleteLate(Item.res)) /\ a # "alreadyGone"
  PROVE  CleanupInv'
<1> DEFINE place == IF job.at = "send" THEN "record" ELSE "record again"
<1>1. /\ ClusterType /\ JournalType /\ JobType /\ journal \in Journals /\ LiveType /\ OnDisk /\ Seen
      /\ LastUid \in Nat /\ MaxPolls \in Nat
  BY DEF CleanupInv, Types, JournalType, ClusterType, OnDisk, CleanupAssumption
<1>2. job.at \in {"send", "send again"}
  BY DEF At
<1>3. Entry(Item) /\ Item.uid <= live[Item.res].uid /\ \E k \in DOMAIN journal.decisions : ItemAt(k)
  BY <1>2, ItemIsDecided DEF Deciding, Sending, Again
<1>4. place \in {"record", "record again"} /\ (place = "record" <=> job.at = "send")
  BY <1>2
<1>5. job' = [job EXCEPT !.answer = a, !.at = place]
  OBVIOUS
<1> HIDE DEF place
<1>6. JobType' /\ job'.at = place /\ job'.queue = job.queue /\ job'.answer = a
  <2>1. place \in Places
    BY <1>4 DEF Places
  <2> QED BY <1>1, <1>5, <2>1, AnswerFacts
<1>7. /\ journal' \in Journals /\ SameRecords /\ journal'.state = journal.state
      /\ journal'.audited = journal.audited /\ journal'.decisions = journal.decisions
  BY <1>1, StillFacts DEF SameRecords
<1>8. /\ Ages /\ LiveType' /\ touched \subseteq touched' /\ touched' \subseteq Objects \X Uids
      /\ \A t \in touched' \ touched : DecidedOn(t) /\ t[2] <= live'[t[1]].uid
  <2>1. CASE UNCHANGED <<live, touched>>
    BY <1>1, <2>1, SameLiveAges DEF ClusterType
  <2>2. CASE Is(Item) /\ (DeleteObject(Item.res) \/ DeleteLate(Item.res))
    <3>1. Item.res \in Objects
      BY <1>3 DEF Entry
    <3>2. Ages /\ LiveType' /\ live'[Item.res].uid = live[Item.res].uid
      <4>1. CASE DeleteObject(Item.res)
        BY <1>1, <3>1, <4>1, DeletionChanges, DeletedUid
      <4>2. CASE DeleteLate(Item.res)
        BY <1>1, <4>2, SameLiveAges DEF DeleteLate
      <4> QED BY <2>2, <4>1, <4>2
    <3>3. touched' = touched \union {<<Item.res, live[Item.res].uid>>}
      BY <2>2 DEF DeleteObject, DeleteLate
    <3>4. touched' \subseteq Objects \X Uids /\ \A t \in touched' : t[2] <= live'[t[1]].uid
      BY <1>1, <3>1, <3>2, <3>3, DeletionIsSeen
    <3>5. live[Item.res].uid = Item.uid
      BY <2>2 DEF Is
    <3>6. DecidedOn(<<Item.res, live[Item.res].uid>>)
      BY <1>3, <3>5 DEF DecidedOn, ItemAt
    <3>7. ASSUME NEW t \in touched' \ touched PROVE DecidedOn(t) /\ t[2] <= live'[t[1]].uid
      <4>1. t = <<Item.res, live[Item.res].uid>>
        BY <3>3
      <4> QED BY <3>4, <3>6, <4>1
    <3> QED BY <3>2, <3>3, <3>4, <3>7
  <2> QED BY <2>1, <2>2
<1>9. ~Is(Item) => ~Is(Item)'
  <2>1. job'.queue = job.queue
    BY <1>6
  <2>2. ~Is(Item) => ~(live'[Item.res].phase # "gone" /\ live'[Item.res].uid = Item.uid)
    <3>1. \A e : Entry(e) /\ e.uid <= live[e.res].uid => (~Is(e) => ~Is(e)')
      BY <1>1, <1>8, EntryLasts, Zenon
    <3> QED BY <1>3, <3>1 DEF Is, Present
  <2> QED BY <2>1, <2>2 DEF Is, Present, Item
<1>10. Types'
  BY <1>1, <1>6, <1>7, <1>8 DEF CleanupInv, Types, ClusterType, JournalType, SameRecords, Stay
<1>11. Protocol'
  <2>1. job'.at \notin Before /\ job'.at \notin AfterMain /\ job'.at \notin Auditing
          /\ job'.at \notin {"validate", "next", "start"}
    BY <1>4, <1>6 DEF Before, AfterMain, Auditing
  <2>2. job.at \notin {"off", "start"} /\ newcomer' = newcomer /\ Types /\ Protocol
    BY <1>2 DEF Stay, CleanupInv
  <2>3. journal'.state = "Failed" => journal.state = "Failed"
    BY <1>7
  <2> QED BY <1>7, <2>1, <2>2, <2>3, ProtocolLasts
<1>12. OnDisk'
  BY <1>1, <1>7, <1>8, DiskGrows
<1>13. Between'
  BY <1>2, <1>4, <1>6, <1>7 DEF Between, At, ResumePlaces, Resuming, Again, CleanupInv, SameRecords
<1>14. Answered'
  <2>1. a = "alreadyGone" => ~Is(Item)
    BY DEF Is
  <2>2. job'.answer = a
    BY <1>6
  <2> QED BY <1>9, <2>1, <2>2 DEF Answered, AnswersOf
<1>15. Working'
  <2>1. CASE job.at = "send"
    <3>1. Listing /\ AtLast /\ job.at \in Deciding /\ job.at \in Sending
      BY <2>1, LastFacts DEF Deciding, Sending
    <3>2. job'.at = "record" /\ job'.at \in Deciding /\ job'.at \in Sending
      BY <1>4, <1>6, <2>1 DEF Deciding, Sending
    <3>3. Listing' /\ AtLast'
      BY <1>1, <1>6, <1>7, <1>8, <3>1, <3>2, WorkStays
    <3> QED BY <1>14, <3>2, <3>3 DEF Working, Resuming, Again
  <2>2. CASE job.at = "send again"
    <3>1. Reopened /\ ~Empty(job.queue)
      BY <2>2, FirstFacts DEF Again
    <3>2. job'.at = "record again"
      BY <1>4, <1>6, <2>2
    <3>3. Reopened' /\ ~Empty(job.queue)'
      BY <1>6, <1>7, <3>1, ReopenedStays DEF Empty
    <3> QED BY <1>14, <3>2, <3>3 DEF Working, Cleaning, Deciding, Sending, Waiting
  <2> QED BY <1>2, <2>1, <2>2
<1> QED BY <1>2, <1>10, <1>11, <1>12, <1>13, <1>15, Assembled DEF Stay, Locked, At

LEMMA SendKeeps ==
  ASSUME CleanupInv, CleanupAssumption, Send
  PROVE  CleanupInv'
<1>1. /\ At("send") \/ At("send again")
      /\ Still /\ Stay /\ UNCHANGED <<expects, reinstalled>>
  BY DEF Send
<1>2. lost \in 0..MaxLost /\ MaxLost \in Nat
  BY DEF CleanupInv, Types, ClusterType, CleanupAssumption
<1>3. ASSUME NEW a \in Answers \union
               (IF Faults \intersect {"error", "unverified"} = {} THEN {} ELSE {"unknown"}),
             job' = [job EXCEPT !.answer = a, !.at = IF @ = "send" THEN "record" ELSE "record again"],
             \/ a = "accepted" /\ DeleteObject(Item.res)
             \/ a = "accepted" /\ "late" \in Faults /\ DeleteLate(Item.res)
             \/ a # "accepted" /\ UNCHANGED <<live, touched>>,
             UNCHANGED lost
      PROVE  CleanupInv'
  <2>1. a \in AnswersOf
    BY DEF Answers, AnswersOf
  <2>2. a = "accepted" => Is(Item)
    BY DEF Answers, Is
  <2>3. a = "alreadyGone" => ~Present(Item.res)
    BY DEF Answers
  <2>4. \/ UNCHANGED <<live, touched>> /\ (a = "alreadyGone" => ~Present(Item.res))
        \/ Is(Item) /\ (DeleteObject(Item.res) \/ DeleteLate(Item.res)) /\ a # "alreadyGone"
    BY <1>3, <2>2, <2>3
  <2>5. lost' \in 0..MaxLost
    BY <1>2, <1>3
  <2> QED BY <1>1, <1>3, <2>1, <2>4, <2>5, SentKeeps
<1>4. ASSUME lost < MaxLost, lost' = lost + 1,
             job' = [job EXCEPT !.answer = "unknown", !.at = IF @ = "send" THEN "record" ELSE "record again"],
             UNCHANGED <<live, touched>> \/ (Is(Item) /\ DeleteObject(Item.res))
      PROVE  CleanupInv'
  <2>1. "unknown" \in AnswersOf /\ lost' \in 0..MaxLost
    BY <1>2, <1>4 DEF AnswersOf
  <2>2. \/ UNCHANGED <<live, touched>> /\ ("unknown" = "alreadyGone" => ~Present(Item.res))
        \/ Is(Item) /\ (DeleteObject(Item.res) \/ DeleteLate(Item.res)) /\ "unknown" # "alreadyGone"
    BY <1>4
  <2> QED BY <1>1, <1>4, <2>1, <2>2, SentKeeps
<1> QED BY <1>3, <1>4 DEF Send

\* An open decision gets its result: that of one that is gone only if its
\* incarnation is not there.
LEMMA DiskSettles ==
  ASSUME JournalType, OnDisk, live' = live, touched' = touched,
         NEW n \in DOMAIN journal.decisions, NEW result, Settles(n, result),
         Pending(journal.decisions[n]),
         result \in {"gone", "alreadyGone"} => ~Is(journal.decisions[n])
  PROVE  OnDisk'
<1> DEFINE ds == journal.decisions
<1>1. /\ DOMAIN journal'.decisions = DOMAIN ds /\ Len(journal'.decisions) = Len(ds)
      /\ journal'.deleted = journal.deleted /\ journal'.redelete = journal.redelete
      /\ \A i \in DOMAIN ds :
           /\ journal'.decisions[i].res = ds[i].res /\ journal'.decisions[i].uid = ds[i].uid
           /\ journal'.decisions[i].result = IF i = n THEN result ELSE ds[i].result
  BY DEF Settles
<1>2. OneEach'
  BY <1>1 DEF OnDisk, OneEach
<1>3. OneOpenDecision'
  <2>1. \A i \in DOMAIN ds : Pending(ds[i]) => i = Len(ds)
    BY DEF OnDisk, OneOpenDecision
  <2>2. n = Len(ds)
    BY <2>1
  <2>3. \A i \in DOMAIN ds : Pending(journal'.decisions[i]) => i = n \/ Pending(ds[i])
    BY <1>1 DEF Pending
  <2>4. \A i \in DOMAIN journal'.decisions : Pending(journal'.decisions[i]) => i = Len(journal'.decisions)
    BY <1>1, <2>1, <2>2, <2>3
  <2> QED BY <2>4 DEF OneOpenDecision, Pending
<1>4. Seen'
  BY <1>1 DEF OnDisk, Seen
<1>5. GoneIsGone'
  <2> SUFFICES ASSUME NEW i \in DOMAIN ds, journal'.decisions[i].result \in {"gone", "alreadyGone"}
               PROVE  ~(live[ds[i].res].phase # "gone" /\ live[ds[i].res].uid = ds[i].uid)
    BY <1>1 DEF GoneIsGone, Decided, Is, Present
  <2>1. CASE i = n
    BY <1>1, <2>1 DEF Is, Present
  <2>2. CASE i # n
    BY <1>1, <2>2 DEF OnDisk, GoneIsGone, Decided, Is, Present
  <2> QED BY <2>1, <2>2
<1>6. Traced'
  <2> SUFFICES ASSUME NEW t \in touched
               PROVE DecidedOn(t)' \/ (t[1] \in journal.deleted
                       /\ (t[2] = 1 \/ t[1] \in journal.redelete \/ Gone(t)'))
    BY <1>1 DEF Traced
  <2>1. DecidedOn(t) => DecidedOn(t)'
    BY <1>1 DEF DecidedOn
  <2>2. Gone(t) => Gone(t)'
    BY DEF Gone, Is, Present
  <2> QED BY <2>1, <2>2 DEF OnDisk, Traced
<1> QED BY <1>2, <1>3, <1>4, <1>5, <1>6 DEF OnDisk

LEMMA SettlingStep ==
  ASSUME CleanupInv, CleanupAssumption, UNCHANGED cluster, Stay, JobType',
         job.at \notin {"off", "start"}, job'.at \notin {"off", "start"} \union Before,
         NEW n \in DOMAIN journal.decisions, NEW result, Settles(n, result),
         Pending(journal.decisions[n]),
         result \in {"gone", "alreadyGone"} => ~Is(journal.decisions[n]),
         Between', Working'
  PROVE  CleanupInv'
<1>1. /\ ClusterType /\ JournalType /\ JobType /\ journal \in Journals /\ LiveType
      /\ LastUid \in Nat /\ MaxPolls \in Nat
      /\ ClusterType' /\ Ages /\ LiveType' /\ touched' = touched /\ live' = live
  BY Framed
<1>2. /\ journal' \in Journals /\ journal'.complete = journal.complete /\ journal'.deleted = journal.deleted
      /\ journal'.redelete = journal.redelete /\ journal'.state = journal.state
      /\ journal'.audited = journal.audited
  BY DEF Settles
<1>3. newcomer' = newcomer /\ completed' = completed /\ Locked
  BY DEF Stay, Locked, At
<1>4. Types'
  BY <1>1, <1>2, <1>3 DEF CleanupInv, Types, JournalType
<1>5. journal.decisions # <<>>
  OBVIOUS
<1>6. /\ journal.audited /\ journal.complete /\ newcomer # "created"
      /\ journal.state \notin {"none", "Prepared", "Applying", "Failed"}
  BY <1>5 DEF CleanupInv, Protocol, At
<1>7. Protocol'
  BY <1>2, <1>3, <1>6 DEF Protocol, At, Before, AfterMain, Auditing
<1>8. OnDisk'
  BY <1>1, DiskSettles DEF CleanupInv
<1> QED BY <1>3, <1>4, <1>7, <1>8, Assembled

\* The cleanup has settled its decision and takes the next one.
LEMMA SettledKeeps ==
  ASSUME CleanupInv, CleanupAssumption, UNCHANGED cluster, Stay, job.at \in Deciding,
         NEW result \in Results \ {"none", "requested", "unknown"}, Settles(LastOne, result),
         result \in {"gone", "alreadyGone"} => ~Is(Item), NEW flags, Onward("next", flags)
  PROVE  CleanupInv'
<1>1. /\ ClusterType /\ JournalType /\ JobType /\ journal \in Journals /\ LiveType
      /\ LastUid \in Nat /\ MaxPolls \in Nat
      /\ ClusterType' /\ Ages /\ LiveType' /\ touched' = touched /\ live' = live
  BY Framed
<1>2. Listing /\ AtLast /\ ItemAt(LastOne) /\ LastOne \in DOMAIN journal.decisions
  BY LastFacts DEF ItemAt
<1>3. JobType' /\ job'.at = "next" /\ job'.queue = Rest(job.queue)
  BY <1>1, OnwardFacts DEF Places
<1>4. Listing'
  <2>1. /\ DOMAIN Rest(job.queue) = DOMAIN job.queue \ {First(job.queue)}
        /\ \A i \in DOMAIN Rest(job.queue) : Rest(job.queue)[i] = job.queue[i]
    BY RestFacts, Zenon
  <2>2. /\ DOMAIN job'.queue \subseteq DOMAIN job.queue /\ First(job.queue) \notin DOMAIN job'.queue
        /\ \A i \in DOMAIN job'.queue : job'.queue[i] = job.queue[i]
    BY <1>3, <2>1
  <2>3. /\ DOMAIN journal'.decisions = DOMAIN journal.decisions
        /\ \A k \in DOMAIN journal.decisions : journal'.decisions[k].res = journal.decisions[k].res
    BY DEF Settles
  <2>4. Listing /\ live' = live
    BY <1>1, <1>2
  <2> QED BY <2>2, <2>3, <2>4, ListingShrinks
<1>5. Working'
  BY <1>3, <1>4 DEF Working, Deciding, Sending, Waiting, Resuming, Again
<1>6. \A i \in DOMAIN journal'.decisions : ~Pending(journal'.decisions[i])
  <2>1. \A i \in DOMAIN journal.decisions : Pending(journal.decisions[i]) => i = LastOne
    BY DEF CleanupInv, OnDisk, OneOpenDecision, LastOne
  <2>2. /\ DOMAIN journal'.decisions = DOMAIN journal.decisions
        /\ \A i \in DOMAIN journal.decisions :
             journal'.decisions[i].result = IF i = LastOne THEN result ELSE journal.decisions[i].result
    BY DEF Settles
  <2> QED BY <2>1, <2>2 DEF Pending
<1>7. Between'
  BY <1>3, <1>6 DEF Between, At, ResumePlaces, Resuming, Again, Pending
<1>8. Pending(journal.decisions[LastOne]) /\ (~Is(Item) => ~Is(journal.decisions[LastOne]))
  BY <1>2 DEF ItemAt, Is
<1>9. job.at \notin {"off", "start"} /\ job'.at \notin {"off", "start"} \union Before
  BY <1>3 DEF Deciding, Sending, Waiting, Before
<1> QED BY <1>2, <1>3, <1>5, <1>7, <1>8, <1>9, SettlingStep

LEMMA CheckpointKeeps ==
  ASSUME CleanupInv, CleanupAssumption, Checkpoint
  PROVE  CleanupInv'
<1>1. /\ At("record") /\ Stay /\ UNCHANGED cluster
      /\ Record(Resolved(Item, {"none"}, ResultOf[job.answer]))
  BY DEF Checkpoint
<1>2. /\ ClusterType /\ JournalType /\ JobType /\ journal \in Journals /\ LiveType
      /\ LastUid \in Nat /\ MaxPolls \in Nat
      /\ ClusterType' /\ Ages /\ LiveType' /\ touched' = touched /\ live' = live
  BY <1>1, Framed
<1>3. job.at = "record" /\ job.at \in Deciding /\ job.at \in Sending
  BY <1>1 DEF At, Deciding, Sending
<1>4. Listing /\ AtLast /\ ItemAt(LastOne) /\ LastOne \in DOMAIN journal.decisions
  BY <1>3, LastFacts DEF ItemAt
<1>5. Answered /\ OneEach
  BY <1>3 DEF CleanupInv, Working, OnDisk
<1>6. ResultOf[job.answer] \in Results
  BY <1>5 DEF Answered, AnswersOf, ResultOf, Results
<1>7. Settles(LastOne, ResultOf[job.answer])
  <2>1. journal.decisions[LastOne].res = Item.res /\ journal.decisions[LastOne].result \in {"none"}
    BY <1>3, <1>4 DEF AtLast
  <2> QED BY <1>1, <1>2, <1>4, <1>5, <1>6, <2>1, ResolvedFacts
<1>8. CASE job.answer = "accepted" /\ Go("wait")
  <2>1. ResultOf[job.answer] = "requested"
    BY <1>8 DEF ResultOf
  <2>2. JobType' /\ job'.at = "wait" /\ job'.queue = job.queue
    BY <1>2, <1>8, GoFacts DEF Places
  <2>3. /\ LastOne' = LastOne /\ DOMAIN journal'.decisions = DOMAIN journal.decisions
        /\ \A i \in DOMAIN journal.decisions :
             /\ journal'.decisions[i].res = journal.decisions[i].res
             /\ journal'.decisions[i].uid = journal.decisions[i].uid
        /\ journal'.decisions[LastOne].result = "requested"
    BY <1>4, <1>7, <2>1 DEF Settles, LastOne
  <2>4. First(job.queue)' = First(job.queue) /\ Item' = Item
    BY <2>2 DEF Item
  <2>5. Listing'
    <3>1. \A i \in DOMAIN job'.queue : Entry(job'.queue[i]) /\ job'.queue[i].uid <= live'[job'.queue[i].res].uid
      BY <1>2, <1>4, <2>2 DEF Listing
    <3>2. \A i, k \in DOMAIN job'.queue : job'.queue[i].res = job'.queue[k].res => i = k
      BY <1>4, <2>2 DEF Listing
    <3>3. \A i \in DOMAIN job'.queue, k \in DOMAIN journal'.decisions :
            job'.queue[i].res = journal'.decisions[k].res => i = First(job.queue) /\ k = LastOne
      BY <1>4, <2>2, <2>3 DEF Listing
    <3>4. job'.at \in Deciding
      BY <2>2 DEF Deciding, Waiting
    <3> QED BY <2>3, <2>4, <3>1, <3>2, <3>3, <3>4 DEF Listing, Entry
  <2>6. AtLast'
    <3>1. journal'.decisions # <<>>
      BY <1>4, <2>3
    <3> QED BY <1>4, <2>2, <2>3, <2>4, <3>1 DEF AtLast, Sending, Empty
  <2>7. Working'
    BY <2>2, <2>5, <2>6 DEF Working, Resuming, Again
  <2>8. Between'
    BY <2>2 DEF Between, At, ResumePlaces, Resuming, Again
  <2>9. job'.at \notin {"off", "start"} \union Before /\ Pending(journal.decisions[LastOne])
    BY <1>4, <2>2 DEF Before, ItemAt
  <2> QED BY <1>1, <1>3, <1>4, <1>7, <2>1, <2>2, <2>7, <2>8, <2>9, SettlingStep
<1>9. ASSUME NEW flags, job.answer \in {"alreadyGone", "rejected"}, Onward("next", flags)
      PROVE  CleanupInv'
  <2>1. /\ ResultOf[job.answer] \in Results \ {"none", "requested", "unknown"}
        /\ ResultOf[job.answer] \in {"gone", "alreadyGone"} => ~Is(Item)
    BY <1>5, <1>9 DEF ResultOf, Results, Answered
  <2> QED BY <1>1, <1>3, <1>7, <1>9, <2>1, SettledKeeps
<1>10. CASE job.answer \in {"blocked", "unknown"} /\ Onward("settle", {"failed"})
  <2>1. JobType' /\ job'.at = "settle"
    BY <1>2, <1>10, OnwardFacts DEF Places
  <2>2. Between' /\ Working'
    BY <2>1, IdleOwesNothing DEF Idle
  <2>3. ResultOf[job.answer] \notin {"gone", "alreadyGone"}
    BY <1>10 DEF ResultOf
  <2>4. job'.at \notin {"off", "start"} \union Before /\ Pending(journal.decisions[LastOne])
    BY <1>4, <2>1 DEF Before, ItemAt
  <2> QED BY <1>1, <1>3, <1>4, <1>7, <2>1, <2>2, <2>3, <2>4, SettlingStep
<1>11. \/ job.answer = "accepted" /\ Go("wait")
       \/ job.answer = "alreadyGone" /\ Onward("next", {})
       \/ job.answer = "rejected" /\ Onward("next", {"failed"})
       \/ job.answer \in {"blocked", "unknown"} /\ Onward("settle", {"failed"})
  <2>1. job.answer \in AnswersOf
    BY <1>5 DEF Answered
  <2> QED BY <2>1 DEF Checkpoint, AnswersOf
<1> QED BY <1>8, <1>9, <1>10, <1>11

\* A process that gives up leaves the journal as it is, or in another state.
LEMMA FailKeeps ==
  ASSUME CleanupInv, CleanupAssumption, UNCHANGED cluster, Fail, job.at \notin {"off", "start"},
         \/ Still
         \/ \E s \in {"InteractiveCleanup", "Paused", "Failed"} : SetState(s)
  PROVE  CleanupInv'
<1>1. /\ ClusterType /\ JournalType /\ JobType /\ journal \in Journals /\ LiveType
      /\ LastUid \in Nat /\ MaxPolls \in Nat
      /\ ClusterType' /\ Ages /\ LiveType' /\ touched' = touched /\ live' = live
  BY Framed
<1>2. CASE Still
  <2>1. /\ journal' \in Journals /\ SameRecords /\ journal'.state = journal.state
        /\ journal'.audited = journal.audited
    BY <1>1, <1>2, StillFacts
  <2>2. Lasts
    BY <1>1, <2>1 DEF Lasts
  <2> QED BY <1>1, <2>1, <2>2, EndStep DEF Fail
<1>3. ASSUME NEW s \in {"InteractiveCleanup", "Paused", "Failed"}, SetState(s) PROVE CleanupInv'
  <2>1. /\ journal' \in Journals /\ SameRecords /\ journal'.state = s
        /\ journal'.audited = journal.audited
    BY <1>1, <1>3, StateFacts DEF States
  <2>2. Lasts
    BY <1>1, <2>1 DEF Lasts
  <2> QED BY <1>1, <1>3, <2>1, <2>2, EndStep DEF Fail
<1> QED BY <1>2, <1>3

\* While it waits for what it has deleted, the decision stays the last one.
LEMMA WaitingKeeps ==
  ASSUME CleanupInv, CleanupAssumption, ClusterType', Ages, touched' = touched, Stay, JobType',
         job.at \in Waiting, job'.at \in Waiting, job'.queue = job.queue, journal' \in Journals,
         SameRecords, journal'.state = journal.state, journal'.audited = journal.audited
  PROVE  CleanupInv'
<1>1. LiveType /\ LiveType' /\ LastUid \in Nat /\ Lasts /\ journal'.decisions = journal.decisions
  BY DEF CleanupInv, Types, ClusterType, CleanupAssumption, Lasts, SameRecords
<1>2. Listing /\ AtLast
  BY LastFacts DEF Deciding
<1>3. /\ job.at \in Deciding /\ job'.at \in Deciding /\ job.at \notin Sending /\ job'.at \notin Sending
  BY DEF Deciding, Waiting, Sending
<1>4. Listing' /\ AtLast'
  BY <1>1, <1>2, <1>3, WorkStays
<1>5. job'.at \in {"wait", "wait again", "strip", "patch"}
  BY DEF Waiting
<1>6. Working'
  BY <1>4, <1>5 DEF Working, Resuming, Again
<1>7. Between'
  BY <1>5 DEF Between, At, ResumePlaces, Resuming, Again
<1>8. job.at \notin {"off", "start"} /\ job'.at # "start"
      /\ job'.at \notin Before /\ job'.at \notin AfterMain /\ job'.at \notin Auditing
  BY <1>5 DEF Before, AfterMain, Auditing, Waiting
<1>9. job'.at \notin {"validate", "next"}
  BY <1>5
<1>10. journal'.state = "Failed" => journal.state = "Failed"
  OBVIOUS
<1> QED BY <1>1, <1>6, <1>7, <1>8, <1>9, <1>10, QuietStep

LEMMA WaitGoneKeeps ==
  ASSUME CleanupInv, CleanupAssumption, WaitGone
  PROVE  CleanupInv'
<1>1. UNCHANGED cluster /\ job.at \in {"wait", "wait again"}
  BY DEF WaitGone, At
<1>2. /\ ClusterType /\ JournalType /\ JobType /\ journal \in Journals /\ LiveType
      /\ LastUid \in Nat /\ MaxPolls \in Nat
      /\ ClusterType' /\ Ages /\ LiveType' /\ touched' = touched /\ live' = live
  BY <1>1, Framed
<1>3. job.at \in Deciding /\ job.at \in Waiting /\ job.at \notin Sending /\ job.at \notin {"off", "start"}
  BY <1>1 DEF Deciding, Waiting, Sending
<1>4. AtLast /\ ItemAt(LastOne) /\ LastOne \in DOMAIN journal.decisions /\ OneEach
  BY <1>3, LastFacts DEF ItemAt, CleanupInv, OnDisk
<1>5. CASE ~Present(Item.res) /\ Record(Resolved(Item, {"requested"}, "gone"))
           /\ Onward("next", {}) /\ Stay
  <2>1. /\ journal.decisions[LastOne].res = Item.res /\ journal.decisions[LastOne].result \in {"requested"}
        /\ "gone" \in Results
    BY <1>3, <1>4 DEF AtLast, Results
  <2>2. Settles(LastOne, "gone")
    BY <1>2, <1>4, <1>5, <2>1, ResolvedFacts
  <2>3. "gone" \in Results \ {"none", "requested", "unknown"} /\ ~Is(Item)
    BY <1>5 DEF Results, Is
  <2> QED BY <1>1, <1>3, <1>5, <2>2, <2>3, SettledKeeps
<1>6. ASSUME Still
      PROVE  /\ journal' \in Journals /\ SameRecords /\ journal'.state = journal.state
             /\ journal'.audited = journal.audited
  BY <1>2, <1>6, StillFacts
<1>7. CASE job.polls < MaxPolls /\ job' = [job EXCEPT !.polls = @ + 1] /\ Still /\ Stay
  <2>1. JobType' /\ job'.at = job.at /\ job'.queue = job.queue
    BY <1>2, <1>7, PollFacts
  <2> QED BY <1>2, <1>3, <1>6, <1>7, <2>1, WaitingKeeps
<1>8. CASE Go("strip") /\ Still /\ Stay
  <2>1. JobType' /\ job'.at = "strip" /\ job'.queue = job.queue
    BY <1>2, <1>8, GoFacts DEF Places
  <2>2. job'.at \in Waiting
    BY <2>1 DEF Waiting
  <2> QED BY <1>2, <1>3, <1>6, <1>8, <2>1, <2>2, WaitingKeeps
<1>9. CASE Fail /\ Still
  BY <1>1, <1>3, <1>9, FailKeeps
<1>10. \A r \in Reads(Item.res) : r = "gone" => ~Present(Item.res)
  BY DEF Reads, CleanupAssumption
<1> QED BY <1>5, <1>7, <1>8, <1>9, <1>10 DEF WaitGone

LEMMA StripIntentKeeps ==
  ASSUME CleanupInv, CleanupAssumption, StripIntent
  PROVE  CleanupInv'
<1>1. UNCHANGED cluster /\ job.at = "strip"
  BY DEF StripIntent, At
<1>2. /\ ClusterType /\ JournalType /\ JobType /\ journal \in Journals /\ LiveType
      /\ LastUid \in Nat /\ MaxPolls \in Nat
      /\ ClusterType' /\ Ages /\ LiveType' /\ touched' = touched /\ live' = live
  BY <1>1, Framed
<1>3. CASE Record([journal EXCEPT !.patching = TRUE]) /\ Go("patch") /\ Stay
  <2>1. JobType' /\ job'.at = "patch" /\ job'.queue = job.queue
    BY <1>2, <1>3, GoFacts DEF Places
  <2>2. /\ journal' \in Journals /\ SameRecords /\ journal'.state = journal.state
        /\ journal'.audited = journal.audited
    BY <1>2, <1>3, PatchingFacts DEF Record
  <2>3. job.at \in Waiting /\ job'.at \in Waiting
    BY <1>1, <2>1 DEF Waiting
  <2> QED BY <1>2, <1>3, <2>1, <2>2, <2>3, WaitingKeeps
<1>4. CASE Still /\ Fail
  BY <1>1, <1>4, FailKeeps
<1> QED BY <1>3, <1>4 DEF StripIntent

LEMMA PatchKeeps ==
  ASSUME CleanupInv, CleanupAssumption, Patch
  PROVE  CleanupInv'
<1>1. job.at = "patch" /\ UNCHANGED <<expects, reinstalled, touched>>
  BY DEF Patch, At
<1>2. /\ ClusterType /\ JournalType /\ JobType /\ journal \in Journals /\ LiveType
      /\ LastUid \in Nat /\ MaxPolls \in Nat /\ MaxLost \in Nat /\ lost \in 0..MaxLost
  BY DEF CleanupInv, Types, JournalType, ClusterType, CleanupAssumption
<1>3. lost' \in 0..MaxLost
  <2>1. lost' = lost \/ (lost < MaxLost /\ lost' = lost + 1)
    BY DEF Patch
  <2> QED BY <1>2, <2>1
<1>4. Ages /\ LiveType'
  <2>1. CASE UNCHANGED live
    BY <1>2, <2>1, SameLiveAges
  <2>2. CASE live' = [live EXCEPT ![Item.res].phase = "gone"]
    <3>1. Item.res \in Objects
      BY <1>1, ItemIsDecided DEF Deciding, Waiting, Entry
    <3> QED BY <1>2, <2>2, <3>1, PhaseChanges
  <2> QED BY <2>1, <2>2 DEF Patch
<1>5. ClusterType'
  BY <1>1, <1>2, <1>3, <1>4 DEF ClusterType
<1>6. \/ Record([journal EXCEPT !.patching = FALSE]) /\ (Fail \/ (Go("wait again") /\ Stay))
      \/ Still /\ Fail
  BY DEF Patch
<1>7. /\ journal' \in Journals /\ SameRecords /\ journal'.state = journal.state
      /\ journal'.audited = journal.audited
  BY <1>2, <1>6, PatchingFacts, StillFacts DEF Record
<1>8. CASE Go("wait again") /\ Stay
  <2>1. JobType' /\ job'.at = "wait again" /\ job'.queue = job.queue
    BY <1>2, <1>8, GoFacts DEF Places
  <2>2. job.at \in Waiting /\ job'.at \in Waiting
    BY <1>1, <2>1 DEF Waiting
  <2> QED BY <1>1, <1>4, <1>5, <1>7, <1>8, <2>1, <2>2, WaitingKeeps
<1>9. CASE Fail
  <2>1. Lasts
    BY <1>1, <1>4, <1>7 DEF Lasts
  <2> QED BY <1>1, <1>5, <1>7, <1>9, <2>1, EndStep DEF Fail
<1> QED BY <1>6, <1>8, <1>9

\* A step to a place where nothing is owed, with the journal as it is.
LEMMA IdleKeeps ==
  ASSUME CleanupInv, CleanupAssumption, UNCHANGED cluster, Still, Stay, JobType',
         job.at \notin {"off", "start"}, job'.at \in {"settle", "generation"}
  PROVE  CleanupInv'
<1>1. /\ ClusterType /\ JournalType /\ JobType /\ journal \in Journals /\ LiveType
      /\ LastUid \in Nat /\ MaxPolls \in Nat
      /\ ClusterType' /\ Ages /\ LiveType' /\ touched' = touched /\ live' = live
  BY Framed
<1>2. /\ journal' \in Journals /\ SameRecords /\ journal'.state = journal.state
      /\ journal'.audited = journal.audited
  BY <1>1, StillFacts
<1>3. Between' /\ Working'
  BY IdleOwesNothing DEF Idle
<1>4. Lasts
  BY <1>1, <1>2 DEF Lasts
<1>5. job'.at \notin Before /\ job'.at \notin AfterMain /\ job'.at \notin Auditing
      /\ job'.at \notin {"validate", "next", "start"}
  BY DEF Before, AfterMain, Auditing
<1>6. journal'.state = "Failed" => journal.state = "Failed"
  BY <1>2
<1> QED BY <1>1, <1>2, <1>3, <1>4, <1>5, <1>6, QuietStep

LEMMA CleanupOverKeeps ==
  ASSUME CleanupInv, CleanupAssumption, CleanupOver
  PROVE  CleanupInv'
<1>1. job.at = "next" /\ Go("settle") /\ Still /\ Stay /\ UNCHANGED cluster
  BY DEF CleanupOver, At
<1>2. JobType /\ MaxPolls \in Nat
  BY DEF CleanupInv, Types, CleanupAssumption
<1>3. JobType' /\ job'.at = "settle"
  BY <1>1, <1>2, GoFacts DEF Places
<1> QED BY <1>1, <1>3, IdleKeeps

LEMMA SettleAgainKeeps ==
  ASSUME CleanupInv, CleanupAssumption, SettleAgain
  PROVE  CleanupInv'
<1>1. /\ job.at \in {"settle", "resume audit"} /\ Still /\ Stay /\ UNCHANGED cluster
      /\ job.polls < MaxPolls /\ job' = [job EXCEPT !.polls = @ + 1]
  BY DEF SettleAgain, At
<1>2. /\ ClusterType /\ JournalType /\ JobType /\ journal \in Journals /\ LiveType
      /\ LastUid \in Nat /\ MaxPolls \in Nat
      /\ ClusterType' /\ Ages /\ LiveType' /\ touched' = touched /\ live' = live
  BY <1>1, Framed
<1>3. /\ JobType' /\ job'.at = job.at /\ job'.queue = job.queue
      /\ job'.answer = job.answer /\ job'.flags = job.flags
  BY <1>1, <1>2, PollFacts
<1>4. /\ journal' \in Journals /\ SameRecords /\ journal'.state = journal.state
      /\ journal'.audited = journal.audited
  BY <1>1, <1>2, StillFacts
<1>5. Between' /\ Working'
  BY <1>1, <1>3, SameWork DEF CleanupInv, Still
<1>6. Lasts
  BY <1>2, <1>4 DEF Lasts
<1>7. job.at \notin {"off", "start"} /\ job'.at \notin {"validate", "next", "start"}
      /\ job'.at \notin Before /\ job'.at \notin AfterMain /\ job'.at \notin Auditing
  BY <1>1, <1>3 DEF Before, AfterMain, Auditing
<1>8. journal'.state = "Failed" => journal.state = "Failed"
  BY <1>4
<1> QED BY <1>1, <1>2, <1>3, <1>4, <1>5, <1>6, <1>7, <1>8, QuietStep

\* What is planned and was deleted is gone once no planned object is there.
LEMMA SettleKeeps ==
  ASSUME CleanupInv, CleanupAssumption, Settle
  PROVE  CleanupInv'
<1>1. UNCHANGED cluster /\ job.at = "settle"
  BY DEF Settle, At
<1>2. /\ ClusterType /\ JournalType /\ JobType /\ journal \in Journals /\ LiveType
      /\ LastUid \in Nat /\ MaxPolls \in Nat
      /\ ClusterType' /\ Ages /\ LiveType' /\ touched' = touched /\ live' = live
  BY <1>1, Framed
<1>3. CASE SetState("InteractiveCleanup") /\ Fail
  BY <1>1, <1>3, FailKeeps
<1>4. ASSUME NEW a \in {"complete", "incomplete"}, Record([journal EXCEPT !.audited = TRUE]), Stay,
             GoWith("conclude", job.queue, a,
                    job.flags \union IF StillPresent = {} THEN {} ELSE {"left"})
      PROVE  CleanupInv'
  <2> DEFINE flags == job.flags \union IF StillPresent = {} THEN {} ELSE {"left"}
  <2>1. DOMAIN job.queue \subseteq Nat /\ "conclude" \in Places
    BY <1>2 DEF JobType, Places
  <2>2. JobType' /\ job'.at = "conclude" /\ job'.answer = a /\ job'.flags = flags
    <3> HIDE DEF flags
    <3>1. GoWith("conclude", job.queue, a, flags)
      BY <1>4 DEF flags
    <3> QED BY <1>2, <2>1, <3>1, GoWithFacts
  <2>3. journal' \in Journals /\ SameRecords /\ journal'.state = journal.state /\ journal'.audited
    BY <1>2, <1>4, AuditKeptFacts DEF Record
  <2>4. Working'
    BY <2>2 DEF Working, Cleaning, Deciding, Sending, Waiting, Resuming, Again
  <2>5. ASSUME "left" \notin flags, NEW t \in touched, t[1] \in Deletes
        PROVE  ~(live[t[1]].phase # "gone" /\ live[t[1]].uid = t[2])
    <3>1. StillPresent = {}
      BY <2>5
    <3> QED BY <2>5, <3>1 DEF StillPresent, Planned, Present
  <2>6. "left" \notin flags => \A t \in touched : t[1] \in Deletes => Gone(t)'
    BY <1>2, <2>5 DEF Gone, Is, Present
  <2> HIDE DEF flags
  <2>7. Between'
    BY <1>2, <2>2, <2>6 DEF Between, At, ResumePlaces, Resuming, Again
  <2>8. Lasts
    BY <1>2, <2>3 DEF Lasts
  <2>9. job'.at \notin Before /\ job'.at \notin AfterMain /\ job'.at \notin Auditing
        /\ job'.at \notin {"validate", "next", "start"} /\ job.at \notin {"off", "start"}
    BY <1>1, <2>2 DEF Before, AfterMain, Auditing
  <2>10. journal'.state = "Failed" => journal.state = "Failed"
    BY <2>3
  <2> QED BY <1>2, <1>4, <2>2, <2>3, <2>4, <2>7, <2>8, <2>9, <2>10, QuietStep
<1>5. \A a \in Audits : a = "error" \/ a \in {"complete", "incomplete"}
  BY DEF Audits
<1> QED BY <1>3, <1>4, <1>5 DEF Settle

\* What the run has deleted is gone if all decisions say so and what it deleted
\* in its main execution is.
LEMMA AllGone ==
  ASSUME JournalType, OnDisk, \A i \in DOMAIN journal.decisions : Decided(journal.decisions[i]),
         \A t \in touched : t[1] \in journal.deleted => DecidedOn(t) \/ Gone(t)
  PROVE  \A t \in touched : Gone(t)
<1> SUFFICES ASSUME NEW t \in touched PROVE Gone(t)
  OBVIOUS
<1>1. DecidedOn(t) \/ t[1] \in journal.deleted
  BY DEF OnDisk, Traced
<1>2. DecidedOn(t) => Gone(t)
  BY DEF OnDisk, DecidedOn, GoneIsGone, Gone, Is
<1> QED BY <1>1, <1>2

LEMMA AllDecided ==
  ASSUME JournalType, ~AnyDecision(Pending), ~AnyDecision(HardFailed)
  PROVE  \A i \in DOMAIN journal.decisions : Decided(journal.decisions[i])
<1> SUFFICES ASSUME NEW i \in DOMAIN journal.decisions PROVE Decided(journal.decisions[i])
  OBVIOUS
<1>1. journal.decisions[i].result \in Results
  BY DecisionTypes
<1>2. ~Pending(journal.decisions[i]) /\ ~HardFailed(journal.decisions[i])
  BY DEF AnyDecision
<1> QED BY <1>1, <1>2 DEF Results, Pending, HardFailed, Decided

LEMMA ConcludeKeeps ==
  ASSUME CleanupInv, CleanupAssumption, Conclude
  PROVE  CleanupInv'
<1> DEFINE how == FinalState = "ApplyCompleted" /\ "left" \notin job.flags
<1>1. UNCHANGED cluster /\ job.at = "conclude" /\ SetState(FinalState) /\ End(how)
  BY DEF Conclude, At
<1>2. /\ ClusterType /\ JournalType /\ JobType /\ journal \in Journals /\ LiveType /\ OnDisk
      /\ LastUid \in Nat /\ MaxPolls \in Nat
      /\ ClusterType' /\ Ages /\ LiveType' /\ touched' = touched /\ live' = live
  BY <1>1, Framed DEF CleanupInv
<1>3. FinalState \in {"Failed", "InteractiveCleanup", "ApplyCompleted"} /\ FinalState \in States
  BY DEF FinalState, States
<1>4. journal' \in Journals /\ SameRecords /\ journal'.state = FinalState /\ journal'.audited = journal.audited
  BY <1>1, <1>2, <1>3, StateFacts
<1>5. ASSUME how PROVE CompletedOff'
  <2>1. ~AnyDecision(Pending) /\ ~AnyDecision(HardFailed)
    BY <1>5 DEF FinalState
  <2>2. \A i \in DOMAIN journal.decisions : Decided(journal.decisions[i])
    BY <1>2, <2>1, AllDecided
  <2>3. \A t \in touched : t[1] \in journal.deleted => Gone(t)
    <3>1. \A t \in touched : t[1] \in Deletes => Gone(t)
      BY <1>1, <1>5 DEF CleanupInv, Between, At
    <3> QED BY <1>2, <3>1 DEF Journals
  <2>4. \A t \in touched : Gone(t)
    BY <1>2, <2>2, <2>3, AllGone
  <2>5. \A t \in touched' : Gone(t)'
    BY <1>2, <2>4 DEF Gone, Is, Present
  <2>6. job'.at = "off" /\ journal'.state = "ApplyCompleted" /\ journal'.decisions = journal.decisions
    BY <1>1, <1>2, <1>4, <1>5, NoJobFacts DEF End, SameRecords
  <2> QED BY <2>2, <2>5, <2>6 DEF CompletedOff, At, Decided
<1>6. how \in BOOLEAN
  OBVIOUS
<1>7. Lasts /\ job.at \notin {"off", "start"}
  BY <1>1, <1>2, <1>4 DEF Lasts
<1>8. journal'.state \in {"InteractiveCleanup", "Paused", "ApplyCompleted", "Failed"}
  BY <1>3, <1>4
<1> HIDE DEF how
<1> QED BY <1>1, <1>2, <1>4, <1>5, <1>6, <1>7, <1>8, EndStep
-----------------------------------------------------------------------------
(***************************************************************************)
(* The resume                                                              *)
(***************************************************************************)

LEMMA PlanFacts ==
  ASSUME CleanupAssumption
  PROVE  DOMAIN Plan \subseteq Nat /\ \A i \in DOMAIN Plan : Plan[i] \in Objects
<1>1. PlanOrder \in Seq(Objects)
  BY DEF CleanupAssumption
<1>2. DOMAIN PlanOrder \subseteq Nat /\ \A i \in DOMAIN PlanOrder : PlanOrder[i] \in Objects
  BY <1>1
<1> QED BY <1>2 DEF Plan, RestrictValues, Restrict

\* The objects of the plan are looked at one after the other.
LEMMA LookingKeeps ==
  ASSUME CleanupInv, CleanupAssumption, UNCHANGED cluster, Stay, Still, JobType',
         job.at \notin {"off", "start"}, job'.at \in {"reconcile", "records"},
         \A i \in DOMAIN job'.queue : job'.queue[i] \in Objects
  PROVE  CleanupInv'
<1>1. /\ ClusterType /\ JournalType /\ JobType /\ journal \in Journals /\ LiveType
      /\ LastUid \in Nat /\ MaxPolls \in Nat
      /\ ClusterType' /\ Ages /\ LiveType' /\ touched' = touched /\ live' = live
  BY Framed
<1>2. /\ journal' \in Journals /\ SameRecords /\ journal'.state = journal.state
      /\ journal'.audited = journal.audited
  BY <1>1, StillFacts
<1>3. Between'
  BY DEF Between, At, ResumePlaces, Resuming, Again
<1>4. Working'
  BY DEF Working, Cleaning, Deciding, Sending, Waiting, Resuming, Again
<1>5. Lasts
  BY <1>1, <1>2 DEF Lasts
<1>6. job'.at \notin Before /\ job'.at \notin AfterMain /\ job'.at \notin Auditing
      /\ job'.at \notin {"validate", "next", "start"}
  BY DEF Before, AfterMain, Auditing
<1>7. journal'.state = "Failed" => journal.state = "Failed"
  BY <1>2
<1> QED BY <1>1, <1>2, <1>3, <1>4, <1>5, <1>6, <1>7, QuietStep

LEMMA EmptyDomain == DOMAIN <<>> = {} /\ DOMAIN <<>> \subseteq Nat
OBVIOUS

LEMMA CheckGenerationKeeps ==
  ASSUME CleanupInv, CleanupAssumption, CheckGeneration
  PROVE  CleanupInv'
<1>1. UNCHANGED cluster /\ Still /\ job.at = "generation"
  BY DEF CheckGeneration, At
<1>2. JobType /\ MaxPolls \in Nat /\ "reconcile" \in Places
  BY DEF CleanupInv, Types, CleanupAssumption, Places
<1>3. CASE Fail
  BY <1>1, <1>3, FailKeeps
<1>4. ASSUME NEW list \in {Plan, <<>>}, GoWith("reconcile", list, "none", job.flags), Stay
      PROVE  CleanupInv'
  <2>1. DOMAIN list \subseteq Nat /\ \A i \in DOMAIN list : list[i] \in Objects
    <3>1. CASE list = Plan
      BY <3>1, PlanFacts
    <3>2. CASE list = <<>>
      BY <3>2, EmptyDomain
    <3> QED BY <3>1, <3>2
  <2>2. JobType' /\ job'.at = "reconcile" /\ job'.queue = list
    BY <1>2, <1>4, <2>1, GoWithFacts
  <2> QED BY <1>1, <1>4, <2>1, <2>2, LookingKeeps
<1>5. Fail \/ (GoWith("reconcile", IF journal.complete THEN Plan ELSE <<>>, "none", job.flags) /\ Stay)
  BY DEF CheckGeneration
<1> QED BY <1>3, <1>4, <1>5

LEMMA ReconcileKeeps ==
  ASSUME CleanupInv, CleanupAssumption, Reconcile
  PROVE  CleanupInv'
<1>1. UNCHANGED cluster /\ Still /\ job.at = "reconcile"
  BY DEF Reconcile, At
<1>2. /\ JobType /\ MaxPolls \in Nat /\ "reconcile" \in Places /\ "records" \in Places
      /\ \A i \in DOMAIN job.queue : job.queue[i] \in Objects
  BY <1>1 DEF CleanupInv, Types, CleanupAssumption, Places, Between
<1>3. CASE Fail
  BY <1>1, <1>3, FailKeeps
<1>4. ASSUME NEW place \in {"reconcile", "records"}, NEW list, NEW flags, Stay,
             GoWith(place, list, "none", flags),
             DOMAIN list \subseteq Nat, \A i \in DOMAIN list : list[i] \in Objects
      PROVE  CleanupInv'
  <2>1. JobType' /\ job'.at = place /\ job'.queue = list
    BY <1>2, <1>4, GoWithFacts
  <2> QED BY <1>1, <1>4, <2>1, LookingKeeps
<1>5. CASE GoWith("records", RestrictValues(Plan, LeftToAudit), "none", job.flags) /\ Stay
  <2>1. /\ DOMAIN RestrictValues(Plan, LeftToAudit) \subseteq Nat
        /\ \A i \in DOMAIN RestrictValues(Plan, LeftToAudit) :
             RestrictValues(Plan, LeftToAudit)[i] \in Objects
    BY PlanFacts DEF RestrictValues, Restrict
  <2> QED BY <1>4, <1>5, <2>1
<1>6. CASE Onward("reconcile", {}) /\ Stay
  <2>1. DOMAIN Rest(job.queue) \subseteq DOMAIN job.queue
        /\ \A i \in DOMAIN Rest(job.queue) : Rest(job.queue)[i] = job.queue[i]
    BY RestFacts, Zenon
  <2>2. DOMAIN Rest(job.queue) \subseteq Nat /\ \A i \in DOMAIN Rest(job.queue) : Rest(job.queue)[i] \in Objects
    BY <1>2, <2>1 DEF JobType
  <2> QED BY <1>4, <1>6, <2>2 DEF Onward
<1>7. CASE GoWith("reconcile", <<>>, "none", {"early"}) /\ Stay
  BY <1>4, <1>7, EmptyDomain
<1> QED BY <1>3, <1>5, <1>6, <1>7 DEF Reconcile

\* A record of an object deleted again is dropped once that is not there.
LEMMA ReconcileRecordKeeps ==
  ASSUME CleanupInv, CleanupAssumption, ReconcileRecord
  PROVE  CleanupInv'
<1>1. UNCHANGED cluster /\ job.at = "records" /\ ~Empty(job.queue)
  BY DEF ReconcileRecord, At
<1>2. /\ ClusterType /\ JournalType /\ JobType /\ journal \in Journals /\ LiveType
      /\ LastUid \in Nat /\ MaxPolls \in Nat
      /\ ClusterType' /\ Ages /\ LiveType' /\ touched' = touched /\ live' = live
  BY <1>1, Framed
<1>3. \A i \in DOMAIN job.queue : job.queue[i] \in Objects
  BY <1>1 DEF CleanupInv, Between
<1>4. CASE Fail /\ Still
  BY <1>1, <1>4, FailKeeps
<1>5. ASSUME Onward("records", {})
      PROVE  JobType' /\ job'.at = "records" /\ \A i \in DOMAIN job'.queue : job'.queue[i] \in Objects
  <2>1. JobType' /\ job'.at = "records" /\ job'.queue = Rest(job.queue)
    BY <1>2, <1>5, OnwardFacts DEF Places
  <2>2. DOMAIN Rest(job.queue) \subseteq DOMAIN job.queue
        /\ \A i \in DOMAIN Rest(job.queue) : Rest(job.queue)[i] = job.queue[i]
    BY RestFacts, Zenon
  <2> QED BY <1>3, <2>1, <2>2
<1>6. CASE Onward("records", {}) /\ Still /\ Stay
  BY <1>1, <1>5, <1>6, LookingKeeps
<1>7. CASE /\ ~Present(Item) /\ Record([journal EXCEPT !.redelete = @ \ {Item}])
           /\ Onward("records", {}) /\ Stay
  <2>1. journal' = [journal EXCEPT !.redelete = journal.redelete \ {Item}]
    BY <1>7 DEF Record
  <2>2. /\ journal' \in Journals /\ journal'.decisions = journal.decisions
        /\ journal'.complete = journal.complete /\ journal'.deleted = journal.deleted
        /\ journal'.redelete = journal.redelete \ {Item} /\ journal'.state = journal.state
        /\ journal'.audited = journal.audited
    BY <1>2, <2>1 DEF Journals
  <2>3. newcomer' = newcomer /\ completed' = completed /\ Locked
    BY <1>1, <1>7 DEF Stay, Locked, At
  <2>4. JobType' /\ job'.at = "records" /\ \A i \in DOMAIN job'.queue : job'.queue[i] \in Objects
    BY <1>5, <1>7
  <2>5. Types'
    BY <1>2, <2>2, <2>3, <2>4 DEF CleanupInv, Types, JournalType
  <2>6. Protocol'
    BY <1>1, <2>2, <2>3, <2>4 DEF CleanupInv, Protocol, At, Before, AfterMain, Auditing
  <2>7. OnDisk'
    <3>1. OneEach' /\ OneOpenDecision' /\ Seen'
      BY <1>2, <2>2 DEF CleanupInv, OnDisk, OneEach, OneOpenDecision, Pending, Seen
    <3>2. GoneIsGone'
      BY <1>2, <2>2 DEF CleanupInv, OnDisk, GoneIsGone, Decided, Is, Present
    <3>3. Traced'
      <4> SUFFICES ASSUME NEW t \in touched
                   PROVE DecidedOn(t)' \/ (t[1] \in journal.deleted
                           /\ (t[2] = 1 \/ t[1] \in journal'.redelete \/ Gone(t)'))
        BY <1>2, <2>2 DEF Traced
      <4>1. DecidedOn(t) => DecidedOn(t)'
        BY <2>2 DEF DecidedOn
      <4>2. Gone(t) => Gone(t)'
        BY <1>2 DEF Gone, Is, Present
      <4>3. t[1] = Item => Gone(t)
        BY <1>7 DEF Gone, Is
      <4>4. DecidedOn(t) \/ (t[1] \in journal.deleted /\ (t[2] = 1 \/ t[1] \in journal.redelete \/ Gone(t)))
        BY DEF CleanupInv, OnDisk, Traced
      <4> QED BY <2>2, <4>1, <4>2, <4>3, <4>4
    <3> QED BY <3>1, <3>2, <3>3 DEF OnDisk
  <2>8. Between' /\ Working'
    <3>1. Between'
      BY <2>4 DEF Between, At, ResumePlaces, Resuming, Again
    <3>2. Working'
      BY <2>4 DEF Working, Cleaning, Deciding, Sending, Waiting, Resuming, Again
    <3> QED BY <3>1, <3>2
  <2> QED BY <2>3, <2>5, <2>6, <2>7, <2>8, Assembled
<1>8. \A r \in Reads(Item) : r = "gone" => ~Present(Item)
  BY DEF Reads, CleanupAssumption
<1> QED BY <1>4, <1>6, <1>7, <1>8 DEF ReconcileRecord

\* Once there are decisions, a resume goes on with them.
LEMMA ClassifyKeeps ==
  ASSUME CleanupInv, CleanupAssumption, Classify
  PROVE  CleanupInv'
<1>1. UNCHANGED cluster /\ job.at = "records"
  BY DEF Classify, At
<1>2. /\ ClusterType /\ JournalType /\ JobType /\ journal \in Journals /\ LiveType
      /\ LastUid \in Nat /\ MaxPolls \in Nat
      /\ ClusterType' /\ Ages /\ LiveType' /\ touched' = touched /\ live' = live
  BY <1>1, Framed
<1>3. CASE Fail /\ Still
  BY <1>1, <1>3, FailKeeps
<1>4. CASE ~Refused /\ Go("resume") /\ Still /\ Stay
  <2>1. /\ journal' \in Journals /\ SameRecords /\ journal'.state = journal.state
        /\ journal'.audited = journal.audited
    BY <1>2, <1>4, StillFacts
  <2>2. JobType' /\ job'.at = "resume"
    BY <1>2, <1>4, GoFacts DEF Places
  <2>3. journal'.redelete = {}
    BY <1>4, <2>1 DEF Refused, SameRecords
  <2>4. Between'
    BY <2>2, <2>3 DEF Between, At
  <2>5. Working'
    BY <2>2 DEF Working, Cleaning, Deciding, Sending, Waiting, Resuming, Again
  <2>6. Lasts
    BY <1>2, <2>1 DEF Lasts
  <2>7. job'.at \notin Before /\ job'.at \notin AfterMain /\ job'.at \notin Auditing
        /\ job'.at \notin {"validate", "next", "start"} /\ job.at \notin {"off", "start"}
    BY <1>1, <2>2 DEF Before, AfterMain, Auditing
  <2>8. journal'.state = "Failed" => journal.state = "Failed"
    BY <2>1
  <2> QED BY <1>2, <1>4, <2>1, <2>2, <2>4, <2>5, <2>6, <2>7, <2>8, QuietStep
<1>5. ASSUME ~Refused, ~GoesToCleanup, SetState("Applying"), Stay,
             NEW place \in {"done", "main"}, place = "done" => journal.complete,
             GoWith(place, job.queue, "none", {})
      PROVE  CleanupInv'
  <2>1. /\ journal' \in Journals /\ SameRecords /\ journal'.state = "Applying"
        /\ journal'.audited = journal.audited
    BY <1>2, <1>5, StateFacts DEF States
  <2>2. JobType' /\ job'.at = place
    <3>1. DOMAIN job.queue \subseteq Nat /\ place \in Places
      BY <1>2 DEF JobType, Places
    <3> QED BY <1>2, <1>5, <3>1, GoWithFacts
  <2>3. journal.decisions = <<>>
    <3> SUFFICES ASSUME journal.decisions # <<>> PROVE FALSE
      OBVIOUS
    <3>1. /\ journal.audited /\ journal.complete
          /\ journal.state \notin {"none", "Prepared", "Applying", "Failed"}
      BY <1>1 DEF CleanupInv, Protocol, At
    <3>2. journal.state \in States
      BY <1>2 DEF Journals
    <3> QED BY <1>5, <3>1, <3>2 DEF GoesToCleanup, States
  <2>4. newcomer' = newcomer /\ completed' = completed /\ Locked /\ newcomer # "created"
    BY <1>1, <1>5 DEF Stay, Locked, At, CleanupInv, Protocol
  <2>5. Types'
    BY <1>2, <2>1, <2>2, <2>4 DEF CleanupInv, Types, JournalType, SameRecords
  <2>6. Protocol'
    <3>1. job'.at \notin Auditing /\ job'.at \notin {"off", "start", "validate", "next"}
      BY <2>2 DEF Auditing
    <3>2. job'.at \in AfterMain => journal.complete
      BY <1>5, <2>2 DEF AfterMain
    <3> QED BY <2>1, <2>3, <2>4, <3>1, <3>2 DEF Protocol, At, SameRecords
  <2>7. OnDisk'
    BY <1>2, <2>1, DiskLasts DEF Lasts, CleanupInv
  <2>8. Between' /\ Working'
    BY <2>2, IdleOwesNothing DEF Idle
  <2> QED BY <2>4, <2>5, <2>6, <2>7, <2>8, Assembled
<1>6. \/ Fail /\ Still
      \/ ~Refused /\ Go("resume") /\ Still /\ Stay
      \/ /\ ~Refused /\ ~GoesToCleanup /\ SetState("Applying") /\ Stay
         /\ GoWith(IF journal.complete /\ ~Early THEN "done" ELSE "main", job.queue, "none", {})
  BY DEF Classify
<1> QED BY <1>3, <1>4, <1>5, <1>6

\* In a resume, as long as the work list has open decisions, the journal may
\* stay as it is or change its state, and an open decision may be settled.
LEMMA ResumeGoesOn ==
  ASSUME CleanupInv, CleanupAssumption, UNCHANGED cluster, Stay, JobType',
         job.at \in ResumePlaces, job'.at \in ResumePlaces \ {"record again"},
         \/ Still
         \/ \E s \in {"InteractiveCleanup", "Paused"} : SetState(s),
         job'.at \in Resuming => Reopened', job'.at \in Again => ~Empty(job'.queue)
  PROVE  CleanupInv'
<1>1. /\ ClusterType /\ JournalType /\ JobType /\ journal \in Journals /\ LiveType
      /\ LastUid \in Nat /\ MaxPolls \in Nat
      /\ ClusterType' /\ Ages /\ LiveType' /\ touched' = touched /\ live' = live
  BY Framed
<1>2. /\ journal' \in Journals /\ SameRecords /\ journal'.audited = journal.audited
      /\ \/ journal'.state = journal.state
         \/ journal'.state \in {"InteractiveCleanup", "Paused"}
  BY <1>1, StillFacts, StateFacts DEF States
<1>3. /\ job.at \notin {"off", "start"} /\ job'.at \notin {"start", "next", "conclude", "recheck", "validate"}
      /\ job'.at \notin {"reconcile", "records"}
      /\ job'.at \notin Before /\ job'.at \notin AfterMain /\ job'.at \notin Auditing
      /\ job'.at \notin Cleaning /\ job'.at \notin {"record", "record again"}
  BY DEF ResumePlaces, Resuming, Again, Before, AfterMain, Auditing, Cleaning, Deciding, Sending, Waiting
<1>4. Between'
  <2>1. journal.redelete = {}
    BY DEF CleanupInv, Between
  <2> QED BY <1>2, <1>3, <2>1 DEF Between, At, SameRecords
<1>5. Working'
  BY <1>3 DEF Working, Empty, Cleaning
<1>6. Lasts
  BY <1>1, <1>2 DEF Lasts
<1>7. journal'.state = "Failed" => journal.state = "Failed"
  BY <1>2
<1>8. journal'.state = journal.state \/ journal'.state \in {"InteractiveCleanup", "Paused", "ApplyCompleted", "Failed"}
  BY <1>2
<1> QED BY <1>1, <1>2, <1>3, <1>4, <1>5, <1>6, <1>7, <1>8, QuietStep

LEMMA ResumeSettles ==
  ASSUME CleanupInv, CleanupAssumption, UNCHANGED cluster, Stay, JobType',
         job.at \in Again, job'.at \in ResumePlaces \ {"record again"},
         NEW result, Settles(First(job.queue), result),
         result \in {"gone", "alreadyGone"} => ~Is(Item),
         job'.at \in Resuming => Reopened', job'.at \in Again => ~Empty(job'.queue)
  PROVE  CleanupInv'
<1> DEFINE n == First(job.queue)
<1>1. ItemAt(n) /\ n \in DOMAIN journal.decisions /\ Pending(journal.decisions[n])
  BY FirstFacts DEF ItemAt
<1>2. result \in {"gone", "alreadyGone"} => ~Is(journal.decisions[n])
  BY <1>1 DEF ItemAt, Is
<1>3. /\ job.at \notin {"off", "start"} /\ job'.at \notin {"off", "start"} \union Before
      /\ job'.at \notin {"next", "recheck", "conclude", "reconcile", "records"}
      /\ job'.at \notin Cleaning /\ job'.at \notin {"record", "record again"}
  BY DEF ResumePlaces, Resuming, Again, Before, Cleaning, Deciding, Sending, Waiting
<1>4. Between'
  <2>1. journal.redelete = {}
    BY DEF CleanupInv, Between, ResumePlaces, Resuming
  <2> QED BY <1>3, <2>1 DEF Between, At, Settles
<1>5. Working'
  BY <1>3 DEF Working, Empty, Cleaning
<1> HIDE DEF n
<1> QED BY <1>1, <1>2, <1>3, <1>4, <1>5, SettlingStep DEF n

\* On with the rest of the list: only the decision of its first is settled.
LEMMA RestStaysReopened ==
  ASSUME CleanupInv, job.at \in Resuming, job'.queue = Rest(job.queue),
         DOMAIN journal'.decisions = DOMAIN journal.decisions,
         \A i \in DOMAIN journal.decisions : i # First(job.queue) =>
           /\ journal'.decisions[i].res = journal.decisions[i].res
           /\ journal'.decisions[i].uid = journal.decisions[i].uid
           /\ journal'.decisions[i].result = journal.decisions[i].result
  PROVE  Reopened'
<1>1. Reopened
  BY DEF CleanupInv, Working
<1>2. DOMAIN Rest(job.queue) = DOMAIN job.queue \ {First(job.queue)}
      /\ \A i \in DOMAIN Rest(job.queue) : Rest(job.queue)[i] = job.queue[i]
  BY RestFacts, Zenon
<1> SUFFICES ASSUME NEW i \in DOMAIN job'.queue
             PROVE  /\ i \in DOMAIN journal'.decisions /\ Pending(journal'.decisions[i])
                    /\ journal'.decisions[i].res = job'.queue[i].res
                    /\ journal'.decisions[i].uid = job'.queue[i].uid
  BY DEF Reopened, Pending
<1>3. i \in DOMAIN job.queue /\ i # First(job.queue) /\ job'.queue[i] = job.queue[i]
  BY <1>2
<1>4. /\ i \in DOMAIN journal.decisions /\ Pending(journal.decisions[i])
      /\ journal.decisions[i].res = job.queue[i].res /\ journal.decisions[i].uid = job.queue[i].uid
  BY <1>1, <1>3 DEF Reopened
<1> QED BY <1>3, <1>4 DEF Pending

LEMMA OnwardKeeps ==
  ASSUME CleanupInv, CleanupAssumption, UNCHANGED cluster, Stay, job.at \in Again,
         NEW place \in {"resume next", "resume audit"}, NEW flags, Onward(place, flags),
         \/ Still
         \/ \E from \in SUBSET Results, result \in Results :
              /\ Record(Resolved(Item, from, result))
              /\ result \in {"gone", "alreadyGone"} => ~Is(Item)
  PROVE  CleanupInv'
<1>1. /\ ClusterType /\ JournalType /\ JobType /\ journal \in Journals /\ LiveType
      /\ LastUid \in Nat /\ MaxPolls \in Nat
      /\ ClusterType' /\ Ages /\ LiveType' /\ touched' = touched /\ live' = live
  BY Framed
<1>2. JobType' /\ job'.at = place /\ job'.queue = Rest(job.queue)
  <2>1. place \in Places
    BY DEF Places
  <2> QED BY <1>1, <2>1, OnwardFacts
<1>3. /\ job.at \in Resuming /\ job.at \in ResumePlaces /\ job'.at \in ResumePlaces \ {"record again"}
      /\ job'.at \notin Again
  BY <1>2 DEF Resuming, ResumePlaces, Again
<1>4. ItemAt(First(job.queue)) /\ OneEach
  BY FirstFacts DEF CleanupInv, OnDisk
<1>5. CASE Still
  <2>1. Reopened'
    BY <1>2, <1>3, <1>5, RestStaysReopened DEF Still
  <2> QED BY <1>1, <1>2, <1>3, <1>5, <2>1, ResumeGoesOn
<1>6. ASSUME NEW from \in SUBSET Results, NEW result \in Results, Record(Resolved(Item, from, result)),
             result \in {"gone", "alreadyGone"} => ~Is(Item)
      PROVE  CleanupInv'
  <2> DEFINE n == First(job.queue)
  <2>1. n \in DOMAIN journal.decisions /\ journal.decisions[n].res = Item.res
    BY <1>4 DEF ItemAt
  <2> HIDE DEF n
  <2>2. IF journal.decisions[n].result \in from THEN Settles(n, result) ELSE journal' = journal
    BY <1>1, <1>4, <1>6, <2>1, ResolvedFacts
  <2>3. CASE journal' = journal
    BY <1>5, <2>3 DEF Still
  <2>4. CASE Settles(n, result)
    <3>1. Reopened'
      BY <1>2, <1>3, <2>4, RestStaysReopened DEF Settles, n
    <3> QED BY <1>1, <1>2, <1>3, <1>6, <2>4, <3>1, ResumeSettles DEF n
  <2> QED BY <2>2, <2>3, <2>4
<1> QED BY <1>5, <1>6

\* Further with the same decision.
LEMMA FurtherKeeps ==
  ASSUME CleanupInv, CleanupAssumption, UNCHANGED cluster, Stay, Still,
         job.at \in Resuming, ~Empty(job.queue), NEW place \in Again \ {"record again"}, Go(place)
  PROVE  CleanupInv'
<1>1. JobType /\ MaxPolls \in Nat
  BY Framed
<1>2. JobType' /\ job'.at = place /\ job'.queue = job.queue
  <2>1. place \in Places
    BY DEF Again, Places
  <2> QED BY <1>1, <2>1, GoFacts
<1>3. job.at \in ResumePlaces /\ job'.at \in ResumePlaces \ {"record again"}
  BY <1>2 DEF ResumePlaces, Resuming
<1>4. Reopened'
  <2>1. Reopened /\ journal'.decisions = journal.decisions
    BY DEF CleanupInv, Working, Still
  <2> QED BY <1>2, <2>1, ReopenedStays
<1> QED BY <1>2, <1>3, <1>4, ResumeGoesOn DEF Empty

LEMMA ResumeCleanupKeeps ==
  ASSUME CleanupInv, CleanupAssumption, ResumeCleanup
  PROVE  CleanupInv'
<1> DEFINE pending == RestrictValues(journal.decisions, Pending)
<1>1. UNCHANGED cluster /\ job.at = "resume"
  BY DEF ResumeCleanup, At
<1>2. JobType /\ MaxPolls \in Nat /\ journal \in Journals
  BY <1>1, Framed
<1>3. job.at \notin {"off", "start"} /\ job.at \in ResumePlaces
  BY <1>1 DEF ResumePlaces
<1>4. CASE SetState("Failed") /\ Fail
  BY <1>1, <1>3, <1>4, FailKeeps
<1>5. CASE /\ SetState("InteractiveCleanup") /\ Stay
           /\ GoWith(IF Empty(pending) THEN "nothing pending" ELSE "resume next", pending, "none", {})
  <2> DEFINE place == IF Empty(pending) THEN "nothing pending" ELSE "resume next"
  <2>1. /\ DOMAIN pending \subseteq Nat
        /\ \A i \in DOMAIN pending : /\ i \in DOMAIN journal.decisions
                                     /\ pending[i] = journal.decisions[i] /\ Pending(pending[i])
    <3>1. DOMAIN journal.decisions \subseteq Nat
      BY <1>2 DEF Journals
    <3> QED BY <3>1 DEF RestrictValues, Restrict
  <2>2. place \in {"nothing pending", "resume next"} /\ place \in Places
    BY DEF Places
  <2>3. GoWith(place, pending, "none", {})
    BY <1>5
  <2> HIDE DEF place, pending
  <2>4. JobType' /\ job'.at = place /\ job'.queue = pending
    BY <1>2, <2>1, <2>2, <2>3, GoWithFacts
  <2>5. job'.at \in ResumePlaces \ {"record again"} /\ job'.at \notin Again
    BY <2>2, <2>4 DEF ResumePlaces, Resuming, Again
  <2>6. journal'.decisions = journal.decisions
    BY <1>2, <1>5 DEF SetState, Record, Journals
  <2>7. Reopened'
    BY <2>1, <2>4, <2>6 DEF Reopened, Pending
  <2> QED BY <1>1, <1>3, <1>5, <2>4, <2>5, <2>7, ResumeGoesOn
<1> QED BY <1>4, <1>5 DEF ResumeCleanup

\* To the audit, from anywhere in a resume.
LEMMA ToAuditKeeps ==
  ASSUME CleanupInv, CleanupAssumption, UNCHANGED cluster, Stay, job.at \in ResumePlaces,
         Go("resume audit"), Still \/ SetState("Paused")
  PROVE  CleanupInv'
<1>1. JobType' /\ job'.at = "resume audit"
  BY Framed, GoFacts DEF Places
<1>2. job'.at \in ResumePlaces \ {"record again"} /\ job'.at \notin Resuming /\ job'.at \notin Again
  BY <1>1 DEF ResumePlaces, Resuming, Again
<1> QED BY <1>1, <1>2, ResumeGoesOn

LEMMA NothingPendingKeeps ==
  ASSUME CleanupInv, CleanupAssumption, NothingPending
  PROVE  CleanupInv'
<1>1. UNCHANGED cluster /\ Still /\ job.at = "nothing pending"
  BY DEF NothingPending, At
<1>2. job.at \notin {"off", "start"} /\ job.at \in ResumePlaces
  BY <1>1 DEF ResumePlaces
<1>3. Fail \/ (Go("resume audit") /\ Stay)
  BY DEF NothingPending
<1> QED BY <1>1, <1>2, <1>3, FailKeeps, ToAuditKeeps

LEMMA ResumeNextKeeps ==
  ASSUME CleanupInv, CleanupAssumption, ResumeNext
  PROVE  CleanupInv'
<1>1. UNCHANGED cluster /\ Stay /\ job.at = "resume next" /\ job.at \in Resuming /\ job.at \in ResumePlaces
  BY DEF ResumeNext, At, Resuming, ResumePlaces
<1>2. CASE Go("resume audit") /\ (Still \/ SetState("Paused"))
  BY <1>1, <1>2, ToAuditKeeps
<1>3. ASSUME NEW place \in {"requested", "unresolved"}, Go(place), Still, ~Empty(job.queue) PROVE CleanupInv'
  <2>1. place \in Again \ {"record again"}
    BY DEF Again
  <2> QED BY <1>1, <1>3, <2>1, FurtherKeeps
<1> QED BY <1>2, <1>3 DEF ResumeNext

\* At a decision that a resume is about.
LEMMA AgainFacts ==
  ASSUME CleanupInv, job.at \in Again
  PROVE  job.at \in Resuming /\ job.at \in ResumePlaces /\ ~Empty(job.queue) /\ job.at \notin {"off", "start"}
<1>1. job.at \in Resuming /\ job.at \in ResumePlaces /\ job.at \notin {"off", "start"}
  BY DEF Resuming, ResumePlaces, Again
<1> QED BY <1>1, FirstFacts

LEMMA ReadGone ==
  ASSUME CleanupAssumption, NEW o
  PROVE  "gone" \in Reads(o) => ~Present(o)
BY DEF Reads, CleanupAssumption

LEMMA RequestedKeeps ==
  ASSUME CleanupInv, CleanupAssumption, Requested
  PROVE  CleanupInv'
<1>1. UNCHANGED cluster /\ Stay /\ job.at \in Again
  BY DEF Requested, At, Again
<1>2. job.at \in Resuming /\ ~Empty(job.queue)
  BY <1>1, AgainFacts
<1>3. CASE ~Is(Item) /\ Record(Resolved(Item, {"requested"}, "gone")) /\ Onward("resume next", {})
  <2>1. {"requested"} \in SUBSET Results /\ "gone" \in Results
    BY DEF Results
  <2> QED BY <1>1, <1>3, <2>1, OnwardKeeps
<1>4. ASSUME NEW place \in {"permit", "linger"}, Go(place), Still PROVE CleanupInv'
  <2>1. place \in Again \ {"record again"}
    BY DEF Again
  <2> QED BY <1>1, <1>2, <1>4, <2>1, FurtherKeeps
<1>5. CASE Onward("resume next", {"retryable"}) /\ Still
  BY <1>1, <1>5, OnwardKeeps
<1>6. \A r \in Reads(Item.res) : r = "gone" => ~Is(Item)
  BY ReadGone DEF Is
<1> QED BY <1>3, <1>4, <1>5, <1>6 DEF Requested

LEMMA LingerKeeps ==
  ASSUME CleanupInv, CleanupAssumption, Linger
  PROVE  CleanupInv'
<1>1. UNCHANGED cluster /\ Stay /\ job.at = "linger" /\ job.at \in Again
  BY DEF Linger, At, Again
<1>2. job.at \in Resuming /\ ~Empty(job.queue)
  BY <1>1, AgainFacts
<1>3. CASE ~Is(Item) /\ Record(Resolved(Item, {"requested"}, "gone")) /\ Onward("resume next", {})
  <2>1. {"requested"} \in SUBSET Results /\ "gone" \in Results
    BY DEF Results
  <2> QED BY <1>1, <1>3, <2>1, OnwardKeeps
<1>4. CASE job.polls < MaxPolls /\ job' = [job EXCEPT !.polls = @ + 1] /\ Still
  <2>1. JobType' /\ job'.at = job.at /\ job'.queue = job.queue
    BY <1>1, <1>4, Framed, PollFacts
  <2>2. Reopened'
    <3>1. Reopened /\ journal'.decisions = journal.decisions
      BY <1>2, <1>4 DEF CleanupInv, Working, Still
    <3> QED BY <2>1, <3>1, ReopenedStays
  <2>3. job'.at \in ResumePlaces \ {"record again"} /\ job.at \in ResumePlaces
    BY <1>1, <2>1 DEF ResumePlaces, Resuming
  <2>4. ~Empty(job'.queue)
    BY <1>2, <2>1 DEF Empty
  <2> QED BY <1>1, <1>4, <2>1, <2>2, <2>3, <2>4, ResumeGoesOn
<1>5. CASE Onward("resume next", {"retryable"}) /\ Still
  BY <1>1, <1>5, OnwardKeeps
<1>6. \A r \in Reads(Item.res) : r = "gone" => ~Is(Item)
  BY ReadGone DEF Is
<1> QED BY <1>3, <1>4, <1>5, <1>6 DEF Linger

LEMMA PermitAgainKeeps ==
  ASSUME CleanupInv, CleanupAssumption, PermitAgain
  PROVE  CleanupInv'
<1>1. UNCHANGED cluster /\ Still /\ job.at \in Again
  BY DEF PermitAgain, At, Again
<1>2. job.at \in Resuming /\ ~Empty(job.queue) /\ job.at \notin {"off", "start"}
  BY <1>1, AgainFacts
<1>3. CASE Fail
  BY <1>1, <1>2, <1>3, FailKeeps
<1>4. CASE Stay /\ Go("send again")
  <2>1. "send again" \in Again \ {"record again"}
    BY DEF Again
  <2> QED BY <1>1, <1>2, <1>4, <2>1, FurtherKeeps
<1>5. CASE Stay /\ Onward("resume next", {"retryable"})
  BY <1>1, <1>5, OnwardKeeps
<1> QED BY <1>3, <1>4, <1>5 DEF PermitAgain

LEMMA UnresolvedKeeps ==
  ASSUME CleanupInv, CleanupAssumption, Unresolved
  PROVE  CleanupInv'
<1>1. UNCHANGED cluster /\ job.at \in Again
  BY DEF Unresolved, At, Again
<1>2. job.at \in Resuming /\ job.at \in ResumePlaces /\ ~Empty(job.queue) /\ job.at \notin {"off", "start"}
  BY <1>1, AgainFacts
<1>3. CASE SetState("Paused") /\ Go("resume audit") /\ Stay
  BY <1>1, <1>2, <1>3, ToAuditKeeps
<1>4. CASE Still /\ Fail
  BY <1>1, <1>2, <1>4, FailKeeps
<1>5. ASSUME Still, Stay, NEW place \in {"compare", "absent"}, Go(place) PROVE CleanupInv'
  <2>1. place \in Again \ {"record again"}
    BY DEF Again
  <2> QED BY <1>1, <1>2, <1>5, <2>1, FurtherKeeps
<1> QED BY <1>3, <1>4, <1>5 DEF Unresolved

LEMMA CompareKeeps ==
  ASSUME CleanupInv, CleanupAssumption, Compare
  PROVE  CleanupInv'
<1>1. UNCHANGED cluster /\ job.at \in Again
  BY DEF Compare, At, Again
<1>2. job.at \in Resuming /\ ~Empty(job.queue) /\ job.at \notin {"off", "start"}
  BY <1>1, AgainFacts
<1>3. CASE ~Is(Item) /\ Record(Resolved(Item, {"none"}, "alreadyGone")) /\ Onward("resume next", {}) /\ Stay
  <2>1. {"none"} \in SUBSET Results /\ "alreadyGone" \in Results
    BY DEF Results
  <2> QED BY <1>1, <1>3, <2>1, OnwardKeeps
<1>4. CASE Go("recheck all") /\ Still /\ Stay
  <2>1. "recheck all" \in Again \ {"record again"}
    BY DEF Again
  <2> QED BY <1>1, <1>2, <1>4, <2>1, FurtherKeeps
<1>5. CASE Fail /\ Still
  BY <1>1, <1>2, <1>5, FailKeeps
<1>6. \A r \in Reads(Item.res) : r = "gone" => ~Is(Item)
  BY ReadGone DEF Is
<1> QED BY <1>3, <1>4, <1>5, <1>6 DEF Compare

LEMMA RecheckAllKeeps ==
  ASSUME CleanupInv, CleanupAssumption, RecheckAll
  PROVE  CleanupInv'
<1>1. UNCHANGED cluster /\ Still /\ job.at \in Again
  BY DEF RecheckAll, At, Again
<1>2. job.at \in Resuming /\ ~Empty(job.queue) /\ job.at \notin {"off", "start"}
  BY <1>1, AgainFacts
<1>3. CASE Fail
  BY <1>1, <1>2, <1>3, FailKeeps
<1>4. CASE Stay /\ Go("send again")
  <2>1. "send again" \in Again \ {"record again"}
    BY DEF Again
  <2> QED BY <1>1, <1>2, <1>4, <2>1, FurtherKeeps
<1> QED BY <1>3, <1>4 DEF RecheckAll

\* The answer to a DELETE sent again, on disk: the decision stays open, for the
\* wait, or is settled, and the list goes on.
LEMMA AcceptedAgainKeeps ==
  ASSUME CleanupInv, CleanupAssumption, UNCHANGED cluster, Stay, job.at \in Again,
         Record(Resolved(Item, {"none"}, "requested")), Go("linger")
  PROVE  CleanupInv'
<1> DEFINE n == First(job.queue)
<1>1. /\ JobType /\ journal \in Journals /\ MaxPolls \in Nat
      /\ job.at \in Resuming /\ job.at \in ResumePlaces /\ ~Empty(job.queue)
  BY Framed, AgainFacts
<1>2. ItemAt(n) /\ OneEach /\ n \in DOMAIN journal.decisions /\ journal.decisions[n].res = Item.res
  BY FirstFacts DEF CleanupInv, OnDisk, ItemAt
<1>3. JobType' /\ job'.at = "linger" /\ job'.queue = job.queue
  BY <1>1, GoFacts DEF Places
<1>4. "requested" \in Results /\ "linger" \in Again \ {"record again"}
  BY DEF Results, Again
<1> HIDE DEF n
<1>5. IF journal.decisions[n].result \in {"none"} THEN Settles(n, "requested") ELSE journal' = journal
  BY <1>1, <1>2, <1>4, ResolvedFacts
<1>6. CASE journal' = journal
  BY <1>1, <1>4, <1>6, FurtherKeeps DEF Still
<1>7. CASE Settles(n, "requested")
  <2>1. Reopened
    BY <1>1 DEF CleanupInv, Working
  <2>2. Reopened'
    BY <1>3, <1>7, <2>1 DEF Reopened, Settles, Pending
  <2>3. job'.at \in ResumePlaces \ {"record again"} /\ ~Empty(job'.queue)
    BY <1>1, <1>3, <1>4 DEF ResumePlaces, Resuming, Empty
  <2> QED BY <1>3, <1>7, <2>2, <2>3, ResumeSettles DEF n
<1> QED BY <1>5, <1>6, <1>7

LEMMA CheckpointAgainKeeps ==
  ASSUME CleanupInv, CleanupAssumption, CheckpointAgain
  PROVE  CleanupInv'
<1>1. UNCHANGED cluster /\ Stay /\ job.at = "record again" /\ job.at \in Again
  BY DEF CheckpointAgain, At, Again
<1>2. job.at \in Resuming /\ ~Empty(job.queue)
  BY <1>1, AgainFacts
<1>3. job.answer \in AnswersOf /\ (job.answer = "alreadyGone" => ~Is(Item))
  BY <1>1 DEF CleanupInv, Working, Answered
<1>4. {"none"} \in SUBSET Results /\ {"requested"} \in SUBSET Results
  BY DEF Results
<1>5. ASSUME Go("linger"), Still PROVE CleanupInv'
  <2>1. "linger" \in Again \ {"record again"}
    BY DEF Again
  <2> QED BY <1>1, <1>2, <1>5, <2>1, FurtherKeeps
<1>6. CASE CheckpointRequested
  <2>1. CASE job.answer = "accepted"
    BY <1>5, <1>6, <2>1 DEF CheckpointRequested
  <2>2. CASE job.answer = "alreadyGone"
    <3>1. Record(Resolved(Item, {"requested"}, "gone")) /\ Onward("resume next", {})
      BY <1>6, <2>2 DEF CheckpointRequested
    <3>2. "gone" \in Results
      BY DEF Results
    <3> QED BY <1>1, <1>3, <1>4, <2>2, <3>1, <3>2, OnwardKeeps
  <2>3. CASE job.answer = "unknown"
    <3>1. Record(Resolved(Item, {"requested"}, "unknown")) /\ Onward("resume audit", {"retryable"})
      BY <1>6, <2>3 DEF CheckpointRequested
    <3>2. "unknown" \in Results
      BY DEF Results
    <3> QED BY <1>1, <1>4, <3>1, <3>2, OnwardKeeps
  <2>4. CASE job.answer \in {"blocked", "rejected"}
    <3>1. Onward("resume next", {"hard"}) /\ Still
      BY <1>6, <2>4 DEF CheckpointRequested
    <3> QED BY <1>1, <3>1, OnwardKeeps
  <2> QED BY <1>3, <2>1, <2>2, <2>3, <2>4 DEF AnswersOf
<1>7. CASE CheckpointUnresolved
  <2> DEFINE result == ResultOf[job.answer]
  <2>1. /\ job.answer = "accepted" => result = "requested"
        /\ result \in Results /\ (result \in {"gone", "alreadyGone"} => job.answer = "alreadyGone")
    BY <1>3 DEF ResultOf, AnswersOf, Results
  <2>2. Record(Resolved(Item, {"none"}, result))
    BY <1>7 DEF CheckpointUnresolved
  <2>3. \/ job.answer = "accepted" /\ Go("linger")
        \/ \E place \in {"resume next", "resume audit"} : \E flags : Onward(place, flags)
    BY <1>3, <1>7 DEF CheckpointUnresolved, AnswersOf
  <2> HIDE DEF result
  <2>4. CASE job.answer = "accepted" /\ Go("linger")
    BY <1>1, <2>1, <2>2, <2>4, AcceptedAgainKeeps
  <2>5. ASSUME NEW place \in {"resume next", "resume audit"}, NEW flags, Onward(place, flags)
        PROVE  CleanupInv'
    <3>1. result \in {"gone", "alreadyGone"} => ~Is(Item)
      BY <1>3, <2>1
    <3> QED BY <1>1, <1>4, <2>1, <2>2, <2>5, <3>1, OnwardKeeps
  <2> QED BY <2>3, <2>4, <2>5
<1> QED BY <1>6, <1>7 DEF CheckpointAgain

\* A resume that reports the run complete has seen that no planned object is
\* there as it was, has no record of one deleted again, and no open decision.
LEMMA ResumeAuditKeeps ==
  ASSUME CleanupInv, CleanupAssumption, ResumeAudit
  PROVE  CleanupInv'
<1>1. UNCHANGED cluster /\ job.at = "resume audit" /\ job.at \notin {"off", "start"} /\ job.at \in ResumePlaces
  BY DEF ResumeAudit, At, ResumePlaces
<1>2. /\ ClusterType /\ JournalType /\ JobType /\ journal \in Journals /\ LiveType /\ OnDisk
      /\ LastUid \in Nat /\ MaxPolls \in Nat
      /\ ClusterType' /\ Ages /\ LiveType' /\ touched' = touched /\ live' = live
  BY <1>1, Framed DEF CleanupInv
<1>3. CASE \E s \in {"InteractiveCleanup", "Paused", "Failed"} : SetState(s) /\ Fail
  BY <1>1, <1>3, FailKeeps
<1>4. ASSUME NEW state \in {"Failed", "InteractiveCleanup", "ApplyCompleted"}, NEW audited \in BOOLEAN,
             Record([journal EXCEPT !.state = state, !.audited = @ \/ audited]),
             state = "ApplyCompleted" =>
               Generation = "absent" /\ ~AnyDecision(Pending) /\ ~AnyDecision(HardFailed),
             End(state = "ApplyCompleted")
      PROVE  CleanupInv'
  <2> DEFINE how == state = "ApplyCompleted"
  <2>1. /\ journal' \in Journals /\ SameRecords /\ journal'.state = state
        /\ journal'.audited = (journal.audited \/ audited)
    <3>1. state \in States /\ (journal.audited \/ audited) \in BOOLEAN
      BY <1>2 DEF States, Journals
    <3>2. journal' = [journal EXCEPT !.state = state, !.audited = journal.audited \/ audited]
      BY <1>4 DEF Record
    <3> QED BY <1>2, <3>1, <3>2, AuditedFacts
  <2>2. ASSUME how PROVE CompletedOff'
    <3>1. \A i \in DOMAIN journal.decisions : Decided(journal.decisions[i])
      BY <1>2, <1>4, <2>2, AllDecided
    <3>2. ASSUME NEW t \in touched, t[1] \in journal.deleted PROVE DecidedOn(t) \/ Gone(t)
      <4>1. DecidedOn(t) \/ t[2] = 1 \/ t[1] \in journal.redelete \/ Gone(t)
        BY <1>2 DEF OnDisk, Traced
      <4>2. journal.redelete = {}
        BY <1>1 DEF CleanupInv, Between
      <4>3. t[2] = 1 => Gone(t)
        <5>1. t[1] \in Deletes
          BY <1>2, <3>2 DEF Journals
        <5>2. ~(Present(t[1]) /\ live[t[1]].uid = 1)
          BY <1>4, <2>2, <5>1 DEF Generation
        <5> QED BY <5>2 DEF Gone, Is
      <4> QED BY <4>1, <4>2, <4>3
    <3>3. \A t \in touched : Gone(t)
      BY <1>2, <3>1, <3>2, AllGone
    <3>4. \A t \in touched' : Gone(t)'
      BY <1>2, <3>3 DEF Gone, Is, Present
    <3>5. job'.at = "off" /\ journal'.state = "ApplyCompleted" /\ journal'.decisions = journal.decisions
      BY <1>2, <1>4, <2>1, <2>2, NoJobFacts DEF End, SameRecords
    <3> QED BY <3>1, <3>4, <3>5 DEF CompletedOff, At, Decided
  <2>3. how \in BOOLEAN /\ End(how)
    BY <1>4
  <2>4. Lasts
    BY <1>2, <2>1 DEF Lasts
  <2>5. journal'.state \in {"InteractiveCleanup", "Paused", "ApplyCompleted", "Failed"}
        /\ (journal.audited => journal'.audited)
    BY <2>1
  <2> HIDE DEF how
  <2> QED BY <1>1, <1>2, <2>2, <2>3, <2>4, <2>5, EndStep
<1>5. ASSUME NEW g \in Generations, NEW a \in Audits,
             LET state ==
                   IF g # "absent" \/ a = "error" \/ (a = "complete" /\ AnyDecision(HardFailed))
                   THEN "Failed"
                   ELSE IF a = "incomplete" \/ AnyDecision(Pending) THEN "InteractiveCleanup"
                   ELSE "ApplyCompleted"
             IN  /\ Record([journal EXCEPT !.state = state,
                              !.audited = @ \/ (g = "absent" /\ a # "error")])
                 /\ End(state = "ApplyCompleted")
      PROVE  CleanupInv'
  <2> DEFINE state ==
         IF g # "absent" \/ a = "error" \/ (a = "complete" /\ AnyDecision(HardFailed))
         THEN "Failed"
         ELSE IF a = "incomplete" \/ AnyDecision(Pending) THEN "InteractiveCleanup"
         ELSE "ApplyCompleted"
       audited == g = "absent" /\ a # "error"
  <2>1. state \in {"Failed", "InteractiveCleanup", "ApplyCompleted"} /\ audited \in BOOLEAN
    OBVIOUS
  <2>2. state = "ApplyCompleted" =>
          Generation = "absent" /\ ~AnyDecision(Pending) /\ ~AnyDecision(HardFailed)
    <3>1. g = "absent" => Generation = "absent"
      BY DEF Generations
    <3>2. a \in {"complete", "incomplete", "error"}
      BY DEF Audits
    <3> QED BY <3>1, <3>2
  <2>3. Record([journal EXCEPT !.state = state, !.audited = @ \/ audited]) /\ End(state = "ApplyCompleted")
    BY <1>5
  <2> HIDE DEF state, audited
  <2> QED BY <1>4, <2>1, <2>2, <2>3
<1> QED BY <1>3, <1>5 DEF ResumeAudit
-----------------------------------------------------------------------------
(***************************************************************************)
(* The theorems                                                            *)
(***************************************************************************)

LEMMA InitInv ==
  ASSUME Init, CleanupAssumption
  PROVE  CleanupInv
<1>1. /\ job = NoJob /\ journal = NoJournal /\ touched = {} /\ newcomer = "none" /\ completed = FALSE
      /\ live = [o \in Objects |-> [uid |-> 1, phase |-> "live"]]
      /\ reinstalled = FALSE /\ lost = 0 /\ expects \subseteq Others
  BY DEF Init
<1>2. 1 \in Uids /\ MaxPolls \in Nat /\ MaxLost \in Nat
  BY DEF CleanupAssumption, Uids
<1>3. JobType /\ job.at = "off"
  BY <1>1, <1>2 DEF NoJob, JobType, Places
<1>4. /\ journal \in Journals /\ journal.redelete = {} /\ journal.decisions = <<>> /\ journal.state = "none"
  BY <1>1 DEF NoJournal, Journals, States
<1>5. ClusterType
  <2>1. LiveType
    BY <1>1, <1>2 DEF LiveType
  <2>2. lost \in 0..MaxLost
    BY <1>1, <1>2
  <2> QED BY <1>1, <2>1, <2>2 DEF ClusterType
<1>6. Types
  BY <1>1, <1>3, <1>4, <1>5 DEF Types, JournalType
<1>7. Protocol
  BY <1>1, <1>3, <1>4 DEF Protocol, At, Before, AfterMain, Auditing
<1>8. OnDisk
  BY <1>1, <1>4 DEF OnDisk, OneEach, OneOpenDecision, Seen, GoneIsGone, Traced
<1>9. Between
  BY <1>3 DEF Between, At, ResumePlaces, Resuming, Again
<1>10. Working
  BY <1>3 DEF Working, Cleaning, Deciding, Sending, Waiting, Resuming, Again
<1>11. CompletedOff
  BY <1>1 DEF CompletedOff
<1> QED BY <1>6, <1>7, <1>8, <1>9, <1>10, <1>11 DEF CleanupInv

LEMMA StutterKeeps ==
  ASSUME CleanupInv, UNCHANGED vars
  PROVE  CleanupInv'
<1>1. /\ expects' = expects /\ live' = live /\ reinstalled' = reinstalled /\ touched' = touched
      /\ lost' = lost /\ journal' = journal /\ newcomer' = newcomer /\ job' = job /\ completed' = completed
  BY DEF vars
<1>2. Types'
  BY <1>1 DEF CleanupInv, Types, ClusterType, LiveType, JournalType, JobType
<1>3. Protocol'
  BY <1>1 DEF CleanupInv, Protocol, At
<1>4. OnDisk'
  <2>1. OneEach' /\ OneOpenDecision' /\ Seen'
    BY <1>1 DEF CleanupInv, OnDisk, OneEach, OneOpenDecision, Pending, Seen
  <2>2. GoneIsGone'
    BY <1>1 DEF CleanupInv, OnDisk, GoneIsGone, Decided, Is, Present
  <2>3. Traced'
    BY <1>1 DEF CleanupInv, OnDisk, Traced, DecidedOn, Gone, Is, Present
  <2> QED BY <2>1, <2>2, <2>3 DEF OnDisk
<1>5. Between' /\ Working'
  <2>1. cluster' = cluster
    BY <1>1 DEF cluster
  <2> QED BY <1>1, <2>1, SameWork DEF CleanupInv
<1>6. CompletedOff'
  BY <1>1 DEF CleanupInv, CompletedOff, At, Gone, Is, Present, Decided
<1> QED BY <1>2, <1>3, <1>4, <1>5, <1>6 DEF CleanupInv

LEMMA StepKeeps ==
  ASSUME CleanupInv, CleanupAssumption, [Next]_vars
  PROVE  CleanupInv'
<1>1. CASE Cluster
  BY <1>1, ClusterKeeps
<1>2. CASE Process
  BY <1>2, CreateKeeps, LoadKeeps, LockKeeps, CrashKeeps, PauseKeeps DEF Process
<1>3. CASE Main
  BY <1>3, BeginMainKeeps, MainDeleteKeeps, MainDoneKeeps, MainEndsKeeps DEF Main
<1>4. CASE Cleanup
  BY <1>4, PostAuditKeeps, RecheckKeeps, ValidateKeeps, DecideKeeps, SendKeeps, CheckpointKeeps,
     WaitGoneKeeps, StripIntentKeeps, PatchKeeps, CleanupOverKeeps, SettleAgainKeeps, SettleKeeps,
     ConcludeKeeps DEF Cleanup
<1>5. CASE ResumeStep
  BY <1>5, CheckGenerationKeeps, ReconcileKeeps, ReconcileRecordKeeps, ClassifyKeeps,
     ResumeCleanupKeeps, NothingPendingKeeps, ResumeNextKeeps, RequestedKeeps, LingerKeeps,
     PermitAgainKeeps, UnresolvedKeeps, CompareKeeps, RecheckAllKeeps, CheckpointAgainKeeps,
     ResumeAuditKeeps DEF ResumeStep
<1>6. CASE UNCHANGED vars
  BY <1>6, StutterKeeps
<1> QED BY <1>1, <1>2, <1>3, <1>4, <1>5, <1>6 DEF Next

\* The invariant of the cleanup and the resume: at every place of the process
\* its work list, the journal on disk and the cluster fit (workflow.rs,
\* executor.rs), through crashes, lost replies, pauses and resumes.
THEOREM CleanupInvariant == Spec => []CleanupInv
<1> USE CleanupAssumption
<1>1. Init => CleanupInv
  BY InitInv
<1>2. CleanupInv /\ [Next]_vars => CleanupInv'
  BY StepKeeps
<1> QED BY <1>1, <1>2, PTL DEF Spec

\* Types, and no object is decided upon twice, which the updates of the journal
\* by resource and result rely on (executor.rs, workflow.rs).
THEOREM ResidualTypes == Spec => []ResidualTypeOK
<1>1. CleanupInv => ResidualTypeOK
  <2> SUFFICES ASSUME CleanupInv PROVE ResidualTypeOK
    OBVIOUS
  <2>1. Types /\ OneEach
    BY DEF CleanupInv, OnDisk
  <2>2. \A i \in DOMAIN journal.decisions :
          journal.decisions[i] \in [res : Objects, uid : Uids, result : Results]
    BY <2>1, DecisionTypes DEF Types, Decision
  <2>3. /\ journal.state \in {"none", "Prepared", "Applying", "ApplyCompleted",
                              "InteractiveCleanup", "Paused", "Failed"}
        /\ journal.deleted \subseteq Deletes /\ journal.redelete \subseteq journal.deleted
    BY <2>1 DEF Types, JournalType, Journals, States
  <2> QED BY <2>1, <2>2, <2>3
        DEF ResidualTypeOK, Types, ClusterType, LiveType, JobType, OneEach
<1> QED BY <1>1, CleanupInvariant, PTL

\* An incarnation that the journal says is gone does not exist (executor.rs, the
\* waits; workflow.rs, the reconciliation of DeleteRequested).
THEOREM ResidualGoneIsGone == Spec => []GoneIsGone
<1>1. CleanupInv => GoneIsGone
  BY DEF CleanupInv, OnDisk
<1> QED BY <1>1, CleanupInvariant, PTL

\* At most one decision is open, and it is the last (executor.rs, "outcome
\* unknown or blocked"), through all resumes.
THEOREM ResidualOneOpenDecision == Spec => []OneOpenDecision
<1>1. CleanupInv => OneOpenDecision
  BY DEF CleanupInv, OnDisk
<1> QED BY <1>1, CleanupInvariant, PTL

\* When the run is reported complete all that it deleted is gone, and all its
\* decisions are settled (workflow.rs require_completed).
THEOREM ResidualNothingHalfDeleted == Spec => []NothingHalfDeleted
<1>1. CleanupInv => NothingHalfDeleted
  BY DEF CleanupInv, CompletedOff, NothingHalfDeleted, Gone
<1> QED BY <1>1, CleanupInvariant, PTL

\* The steps after which an incarnation is among those that the run deleted.
LEMMA TouchingSteps ==
  ASSUME CleanupInv, CleanupAssumption, [Next]_vars, NEW t \in touched' \ touched
  PROVE  \/ At("main")
         \/ /\ job.at \in Deciding \union Again
            /\ t = <<Item.res, live[Item.res].uid>> /\ Is(Item)
<1>1. CASE Send
  <2>1. job.at \in Deciding \union Again
    BY <1>1 DEF Send, At, Deciding, Sending, Again
  <2>2. CASE Is(Item) /\ (DeleteObject(Item.res) \/ DeleteLate(Item.res))
    BY <2>1, <2>2 DEF DeleteObject, DeleteLate
  <2>3. CASE UNCHANGED touched
    BY <2>3
  <2>4. "accepted" \in Answers => Is(Item)
    BY DEF Answers, CleanupAssumption
  <2>5. (Is(Item) /\ (DeleteObject(Item.res) \/ DeleteLate(Item.res))) \/ UNCHANGED touched
    BY <1>1, <2>4 DEF Send
  <2> QED BY <2>2, <2>3, <2>5
<1>2. CASE ~Send
  <2>1. CASE \E d \in Deletes : MainDelete(d)
    BY <2>1 DEF MainDelete
  <2>2. touched' = touched \/ \E d \in Deletes : MainDelete(d)
    <3>1. Cluster \/ UNCHANGED vars => touched' = touched
      BY DEF Cluster, vars
    <3>2. Process \/ ResumeStep => touched' = touched
      BY DEF Process, ResumeStep, cluster, CheckGeneration, Reconcile, ReconcileRecord, Classify,
         ResumeCleanup, NothingPending, ResumeNext, Requested, Linger, PermitAgain, Unresolved,
         Compare, RecheckAll, CheckpointAgain, ResumeAudit
    <3>3. Main => touched' = touched \/ \E d \in Deletes : MainDelete(d)
      BY DEF Main, cluster, BeginMain, MainDone, MainEnds
    <3>4. Cleanup => touched' = touched
      BY <1>2 DEF Cleanup, cluster, PostAudit, Recheck, Validate, Decide, Checkpoint, WaitGone,
         StripIntent, Patch, CleanupOver, SettleAgain, Settle, Conclude
    <3> QED BY <3>1, <3>2, <3>3, <3>4 DEF Next
  <2> QED BY <2>1, <2>2
<1> QED BY <1>1, <1>2

\* After the main execution a DELETE takes effect only on an incarnation with an
\* open decision on disk (executor.rs, "Record decision BEFORE mutation").
THEOREM ResidualTouchedIsDecided == Spec => TouchedIsDecided
<1> DEFINE Decides == \A t \in touched' \ touched :
             At("main") \/ AnyDecision(LAMBDA d : d.res = t[1] /\ d.uid = t[2] /\ Pending(d))
<1> USE CleanupAssumption
<1>1. CleanupInv /\ [Next]_vars => [Decides]_vars
  <2> SUFFICES ASSUME CleanupInv, [Next]_vars, NEW t \in touched' \ touched, ~At("main")
               PROVE  AnyDecision(LAMBDA d : d.res = t[1] /\ d.uid = t[2] /\ Pending(d))
    OBVIOUS
  <2>1. /\ job.at \in Deciding \union Again
        /\ t = <<Item.res, live[Item.res].uid>> /\ Is(Item)
    BY TouchingSteps
  <2>2. t[1] = Item.res /\ t[2] = Item.uid
    BY <2>1 DEF Is
  <2>3. PICK k \in DOMAIN journal.decisions : ItemAt(k)
    BY <2>1, ItemIsDecided
  <2>4. /\ journal.decisions[k].res = t[1] /\ journal.decisions[k].uid = t[2]
        /\ Pending(journal.decisions[k])
    BY <2>2, <2>3 DEF ItemAt
  <2> QED BY <2>4 DEF AnyDecision
<1> QED BY <1>1, CleanupInvariant, PTL DEF Spec, TouchedIsDecided

\* A run that has failed is left as it is (workflow.rs, "Re-verify after lock").
THEOREM ResidualFailedIsFinal == Spec => FailedIsFinal
<1> USE CleanupAssumption
<1>1. CleanupInv /\ [Next]_vars => [journal.state = "Failed" => journal' = journal]_vars
  <2> SUFFICES ASSUME CleanupInv, [Next]_vars, journal.state = "Failed" PROVE journal' = journal
    OBVIOUS
  <2>1. At("off")
    BY DEF CleanupInv, Protocol
  <2>2. Cluster \/ UNCHANGED vars => journal' = journal
    BY DEF Cluster, vars
  <2>3. Process => journal' = journal
    BY DEF Process, Create, Load, Lock, Crash, Pause, Still
  <2>4. ~Main
    BY <2>1 DEF Main, At, BeginMain, MainDelete, MainDone, MainEnds
  <2>5. ~Cleanup
    BY <2>1 DEF Cleanup, At, PostAudit, Recheck, Validate, Decide, Send, Checkpoint, WaitGone,
       StripIntent, Patch, CleanupOver, SettleAgain, Settle, Conclude
  <2>6. ~ResumeStep
    BY <2>1 DEF ResumeStep, At, CheckGeneration, Reconcile, ReconcileRecord, Classify,
       ResumeCleanup, NothingPending, ResumeNext, Requested, Linger, PermitAgain, Unresolved,
       Compare, RecheckAll, CheckpointAgain, ResumeAudit
  <2> QED BY <2>2, <2>3, <2>4, <2>5, <2>6 DEF Next
<1> QED BY <1>1, CleanupInvariant, PTL DEF Spec, FailedIsFinal
=============================================================================
