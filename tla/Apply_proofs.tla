------------------------------ MODULE Apply_proofs ------------------------------
(***************************************************************************)
(* From the plan to the first DELETE, for any cluster, planner, names and  *)
(* bounds: what is run is what was saved for review, and all of it has     *)
(* been backed up.  Two inductive invariants, one for each: what the       *)
(* process holds at each place agrees with the file and the journal; and   *)
(* what it has staged, published and been given a receipt for covers the   *)
(* plan and is durable from the receipt on.                                *)
(***************************************************************************)
EXTENDS Apply, TLAPS

\* What the planner makes of the operands has no phase of explicit targets, and
\* keeps their place free.
Plain(phases) ==
  /\ phases = [i \in DOMAIN phases |-> phases[i]]
  /\ ExplicitPlace \notin DOMAIN phases
  /\ \A i \in DOMAIN phases : ~Explicit(phases[i])

\* The objects and uids that evidence is about.
Names(evidence) == {[obj |-> t.obj, uid |-> t.uid] : t \in evidence}
Reviewed == WithoutExplicit(saved.phases)

Comparing == {"explicit", "scanning"}
GatePlaces == {"discover", "fetch", "staged", "reserved", "published"}
Ahead == {"resolved", "backedUp", "journaled", "running"} \union GatePlaces

\* The plan of the process is the one that was saved, the journal's as well.
ReviewInv ==
  /\ pc \in {"idle", "bailed"} \union Comparing \union Ahead
  /\ saved.made => Plain(Reviewed) /\ saved.phases = Inject(Reviewed, Names(saved.targets))
  /\ pc \in Comparing \union Ahead => saved.made
  /\ pc \in Comparing => plan.phases = Reviewed
  /\ pc = "scanning" => targets = Names(targets)
  /\ pc \in Ahead => plan.phases = saved.phases
  /\ journal.written => saved.made /\ journal.plan.phases = saved.phases

Covers(content, phases) == PlannedUids(phases) \subseteq content.captured \union content.absent

\* A receipt from the moment it is given: what it is about is there, durable and
\* covers the plan.
Safe(r, phases) ==
  r.name \in RunNames /\ Intact(r) /\ dir[r.name].synced /\ Covers(r.content, phases)

Directories ==
  /\ dir = [n \in RunNames |-> dir[n]]
  /\ \A n \in RunNames :
       dir[n] = [there |-> dir[n].there, content |-> dir[n].content, synced |-> dir[n].synced]

OperatorsOf(rs) == {r.op : r \in rs}

\* Of the operators, the backed up ones have their receipts.
BackupInv ==
  /\ Directories
  /\ seen # None => pc \in {"idle", "bailed"} /\ ~journal.written
  /\ pc \in {"idle", "bailed", "resolved"} \union Comparing => receipts = {}
  /\ pc \in GatePlaces \union {"backedUp"} =>
       /\ \A r \in receipts : Safe(r, plan.phases)
       /\ WithBackup => policy.operators \subseteq toBackUp \union OperatorsOf(receipts)
  /\ pc = "backedUp" => toBackUp = {}
  /\ pc = "fetch" => PlannedUids(plan.phases) \subseteq candidates
  /\ pc \in {"staged", "reserved", "published"} => Covers(staged, plan.phases) /\ runName \in RunNames
  /\ pc = "published" => dir[runName].there /\ dir[runName].content = staged
  /\ journal.written =>
       /\ \A r \in journal.receipts : Safe(r, journal.plan.phases)
       /\ WithBackup => policy.operators \subseteq OperatorsOf(journal.receipts)
  /\ pc \in {"journaled", "running"} => journal.written /\ plan = journal.plan
-----------------------------------------------------------------------------
(***************************************************************************)
(* The plan and its explicit phase                                         *)
(***************************************************************************)

\* What validate_execution_plan_against_fresh takes out of the plan that was
\* saved is what was put into it.
LEMMA ExplicitIsTakenOut ==
  ASSUME NEW phases, Plain(phases), NEW ts
  PROVE  WithoutExplicit(Inject(phases, ts)) = phases
<1> DEFINE whole == Inject(phases, ts)
<1>1. \A i \in DOMAIN phases : i \in DOMAIN whole /\ whole[i] = phases[i]
  BY DEF Inject, Plain
<1>2. \A i \in DOMAIN whole : i \notin DOMAIN phases => Explicit(whole[i])
  BY DEF Inject, Explicit, Phase, Plain
<1>3. \A i \in DOMAIN phases : ~Explicit(phases[i])
  BY DEF Plain
<1> HIDE DEF whole
<1>4. {i \in DOMAIN whole : ~Explicit(whole[i])} = DOMAIN phases
  BY <1>1, <1>2, <1>3
<1>5. WithoutExplicit(whole) = [i \in DOMAIN phases |-> whole[i]]
  BY <1>4 DEF WithoutExplicit, Restrict
<1>6. [i \in DOMAIN phases |-> whole[i]] = [i \in DOMAIN phases |-> phases[i]]
  BY <1>1
<1>7. WithoutExplicit(whole) = phases
  BY <1>5, <1>6 DEF Plain
<1> QED BY <1>7 DEF whole

LEMMA PhasesArePlain ==
  ASSUME NEW c, NEW found, NEW arguments, NEW pick
  PROVE  Plain(Phases(c, found, arguments, pick))
<1> DEFINE phases == Phases(c, found, arguments, pick)
<1>1. phases = [i \in DOMAIN phases |-> phases[i]] /\ ExplicitPlace \notin DOMAIN phases
  BY DEF Phases
<1>2. \A i \in DOMAIN phases : ~Explicit(phases[i])
  BY DEF Phases, Explicit, Phase
<1> QED BY <1>1, <1>2 DEF Plain

\* The evidence names the targets it is about.
LEMMA EvidenceNames ==
  ASSUME NEW ts, ts = Names(ts)
  PROVE  Names(Evidence(ts)) = ts
<1>1. \A e \in Evidence(ts) : \E t \in ts : e.obj = t.obj /\ e.uid = t.uid
  BY DEF Evidence
<1>2. \A t \in ts : \E e \in Evidence(ts) : e.obj = t.obj /\ e.uid = t.uid
  <2> SUFFICES ASSUME NEW t \in ts PROVE \E e \in Evidence(ts) : e.obj = t.obj /\ e.uid = t.uid
    OBVIOUS
  <2> DEFINE e == [obj |-> t.obj, uid |-> t.uid, refs |-> Uids(cluster, Referrers(cluster, t.obj))]
  <2>1. e \in Evidence(ts)
    BY DEF Evidence
  <2>2. e.obj = t.obj /\ e.uid = t.uid
    OBVIOUS
  <2> HIDE DEF e
  <2> QED BY <2>1, <2>2
<1>3. Names(Evidence(ts)) = Names(ts)
  BY <1>1, <1>2 DEF Names
<1> QED BY <1>3
LEMMA BoundNames ==
  ASSUME NEW S
  PROVE  {Bound(o) : o \in S} = Names({Bound(o) : o \in S})
BY DEF Bound, Names
-----------------------------------------------------------------------------
(***************************************************************************)
(* What was reviewed is what is applied                                    *)
(***************************************************************************)

LEMMA ReviewInit == Init => ReviewInv
BY DEF Init, ReviewInv, NoFile, NoJournal, Comparing, Ahead, GatePlaces

\* A step that leaves the file, the journal, the plan and the place alone.
LEMMA ReviewUnchanged ==
  ASSUME ReviewInv, UNCHANGED <<saved, journal, pc, plan, targets>>
  PROVE  ReviewInv'
BY DEF ReviewInv, Reviewed

LEMMA ReviewBail ==
  ASSUME ReviewInv, Bail, UNCHANGED <<saved, journal>>
  PROVE  ReviewInv'
BY DEF ReviewInv, Reviewed, Bail, Comparing, Ahead, GatePlaces

\* The process goes on with the plan it has.
LEMMA ReviewGoesOn ==
  ASSUME ReviewInv, pc \in Ahead, pc' \in Ahead,
         UNCHANGED <<saved, plan>>,
         journal' = journal \/ journal' = [written |-> TRUE, plan |-> plan, receipts |-> receipts]
  PROVE  ReviewInv'
<1>1. saved.made /\ plan.phases = saved.phases
  BY DEF ReviewInv
<1>2. pc' \notin Comparing /\ pc' # "scanning"
  BY DEF Comparing, Ahead, GatePlaces
<1>3. journal'.written => journal'.plan.phases = saved.phases
  BY <1>1 DEF ReviewInv
<1> QED BY <1>1, <1>2, <1>3 DEF ReviewInv, Reviewed

LEMMA ReviewMakePlan ==
  ASSUME ReviewInv, MakePlan
  PROVE  ReviewInv'
<1>1. PICK pick \in Choices :
        saved' = [made |-> TRUE, phases |-> Inject(Fresh(pick), {Bound(o) : o \in policy.explicit}),
                  targets |-> Evidence({Bound(o) : o \in policy.explicit})]
  BY DEF MakePlan
<1> DEFINE ts == {Bound(o) : o \in policy.explicit}
           fresh == Fresh(pick)
<1>2. Plain(fresh)
  BY PhasesArePlain DEF Fresh
<1>3. ts = Names(ts)
  BY BoundNames
<1>4. saved'.made /\ saved'.phases = Inject(fresh, ts) /\ saved'.targets = Evidence(ts)
  BY <1>1
<1>5. ~saved.made /\ pc' = pc /\ journal' = journal
  BY DEF MakePlan, processVars, diskVars
<1> HIDE DEF ts, fresh
<1>6. WithoutExplicit(saved'.phases) = fresh
  BY <1>2, <1>4, ExplicitIsTakenOut
<1>7. Names(saved'.targets) = ts
  BY <1>3, <1>4, EvidenceNames
<1>8. Plain(WithoutExplicit(saved'.phases)) /\ saved'.phases = Inject(fresh, Names(saved'.targets))
  BY <1>2, <1>4, <1>6, <1>7
<1>9. pc \notin Comparing \union Ahead /\ ~journal.written /\ pc \in {"idle", "bailed"} \union Comparing \union Ahead
  BY <1>5 DEF ReviewInv
<1>10. saved'.made => Plain(Reviewed') /\ saved'.phases = Inject(Reviewed', Names(saved'.targets))
  BY <1>6, <1>8 DEF Reviewed
<1>11. pc' \in {"idle", "bailed"} /\ pc' # "scanning" /\ pc' \notin Comparing \union Ahead
  BY <1>5, <1>9 DEF Comparing
<1> QED BY <1>5, <1>9, <1>10, <1>11 DEF ReviewInv

LEMMA ReviewRegenerate ==
  ASSUME ReviewInv, Regenerate
  PROVE  ReviewInv'
<1>1. UNCHANGED <<saved, journal>> /\ saved.made /\ ~journal.written
  BY DEF Regenerate, MayApply, diskVars
<1>2. CASE Bail
  BY <1>1, <1>2, ReviewBail
<1>3. CASE \E pick \in Choices :
             /\ Fresh(pick) = WithoutExplicit(saved.phases)
             /\ plan' = [phases |-> Fresh(pick), blockers |-> Blockers(seen.crs, policy, pick)]
             /\ pc' = IF saved.targets = {} THEN "resolved" ELSE "explicit"
             /\ targets' = targets
  <2>1. plan'.phases = Reviewed
    BY <1>3 DEF Reviewed
  <2>2. pc' = IF saved.targets = {} THEN "resolved" ELSE "explicit"
    BY <1>3
  <2>3. saved.targets = {} => saved.phases = Reviewed
    BY <1>1 DEF ReviewInv, Names, Inject
  <2>4. Reviewed' = Reviewed
    BY <1>1 DEF Reviewed
  <2>5. pc' \in Comparing => plan'.phases = Reviewed'
    BY <2>1, <2>4
  <2>6. pc' \in Ahead => plan'.phases = saved'.phases
    BY <1>1, <2>1, <2>2, <2>3 DEF Ahead, GatePlaces
  <2>7. pc' \in {"idle", "bailed"} \union Comparing \union Ahead /\ pc' # "scanning"
    BY <2>2 DEF Comparing, Ahead
  <2>8. saved'.made => Plain(Reviewed') /\ saved'.phases = Inject(Reviewed', Names(saved'.targets))
    BY <1>1, <2>4 DEF ReviewInv
  <2> QED BY <1>1, <2>5, <2>6, <2>7, <2>8 DEF ReviewInv
<1> QED BY <1>2, <1>3 DEF Regenerate

LEMMA ReviewGetTargets ==
  ASSUME ReviewInv, GetTargets
  PROVE  ReviewInv'
<1>1. UNCHANGED <<saved, journal, plan>> /\ pc = "explicit" /\ pc' = "scanning"
  BY DEF GetTargets, planVars, diskVars, Goto
<1>2. targets' = Names(targets')
  <2>1. targets' = {Bound(o) : o \in {t.obj : t \in saved.targets}}
    BY DEF GetTargets
  <2> QED BY <2>1, BoundNames
<1>3. Names(targets)' = Names(targets')
  BY DEF Names
<1> QED BY <1>1, <1>2, <1>3 DEF ReviewInv, Reviewed, Comparing, Ahead, GatePlaces

LEMMA ReviewScanReferrers ==
  ASSUME ReviewInv, ScanReferrers
  PROVE  ReviewInv'
<1>1. UNCHANGED <<saved, journal>> /\ pc = "scanning" /\ pc' = "resolved"
  BY DEF ScanReferrers, planVars, diskVars, Goto
<1>2. targets = Names(targets) /\ plan.phases = Reviewed /\ saved.made
  BY <1>1 DEF ReviewInv, Comparing
<1>3. Names(saved.targets) = targets
  <2>1. Evidence(targets) = saved.targets
    BY DEF ScanReferrers
  <2> QED BY <1>2, <2>1, EvidenceNames
<1>4. saved.phases = Inject(plan.phases, targets)
  BY <1>2, <1>3 DEF ReviewInv
<1>5. plan'.phases = saved.phases
  BY <1>4 DEF ScanReferrers
<1> QED BY <1>1, <1>5 DEF ReviewInv, Reviewed, Comparing, Ahead

\* Every other step leaves the file alone, and the process goes on or bails out.
LEMMA ReviewOther ==
  ASSUME ReviewInv,
         \/ Drift \/ Discover \/ Refuse \/ EnterGate \/ DiscoverBackup \/ FetchBackup \/ Reserve
         \/ Publish \/ FinishBackup \/ NameTaken \/ Other \/ WriteJournal \/ Start \/ Crash
         \/ Resume \/ UNCHANGED vars
  PROVE  ReviewInv'
<1>1. CASE Drift
  <2>1. UNCHANGED <<saved, journal, pc, plan, targets>>
    BY <1>1 DEF Drift, Vanish, Recreate, Appear, Reown, Change, planVars, processVars, diskVars
  <2> QED BY <2>1, ReviewUnchanged
<1>2. CASE Discover \/ Other \/ UNCHANGED vars
  <2>1. UNCHANGED <<saved, journal, pc, plan, targets>>
    BY <1>2 DEF Discover, Other, OtherReserve, OtherPublish, OtherFinish, vars,
                planVars, processVars, diskVars
  <2> QED BY <2>1, ReviewUnchanged
<1>3. CASE Refuse \/ NameTaken \/ Crash
  <2>1. Bail /\ UNCHANGED <<saved, journal>>
    BY <1>3 DEF Refuse, NameTaken, Crash, planVars, diskVars
  <2> QED BY <2>1, ReviewBail
<1>4. CASE EnterGate \/ DiscoverBackup \/ FetchBackup \/ Reserve \/ Publish \/ FinishBackup
  <2>1. UNCHANGED <<saved, plan>>
    BY <1>4 DEF EnterGate, DiscoverBackup, FetchBackup, Reserve, Publish, FinishBackup, planVars
  <2>2. pc \in Ahead /\ pc' \in Ahead
    BY <1>4 DEF EnterGate, DiscoverBackup, FetchBackup, Reserve, Publish, FinishBackup,
                Goto, Ahead, GatePlaces
  <2>3. journal' = journal
    BY <1>4 DEF EnterGate, DiscoverBackup, FetchBackup, Reserve, Publish, FinishBackup, diskVars
  <2> QED BY <2>1, <2>2, <2>3, ReviewGoesOn
<1>5. CASE Start
  <2>1. UNCHANGED <<saved, journal>> /\ pc = "journaled"
    BY <1>5 DEF Start, planVars, diskVars
  <2>2. CASE Bail
    BY <2>1, <2>2, ReviewBail
  <2>3. CASE pc' = "running" /\ plan' = plan
    BY <2>1, <2>3, ReviewGoesOn DEF Ahead
  <2> QED BY <1>5, <2>2, <2>3 DEF Start
<1>6. CASE Resume
  <2>1. UNCHANGED <<saved, journal, targets>> /\ journal.written /\ plan' = journal.plan /\ pc' = "journaled"
    BY <1>6 DEF Resume, planVars, diskVars
  <2>2. saved.made /\ journal.plan.phases = saved.phases
    BY <2>1 DEF ReviewInv
  <2> QED BY <2>1, <2>2 DEF ReviewInv, Reviewed, Ahead, Comparing, GatePlaces
<1>7. CASE WriteJournal
  <2>1. saved' = saved /\ pc = "backedUp"
    BY <1>7 DEF WriteJournal, planVars
  <2>2. CASE Bail /\ UNCHANGED journal
    BY <2>1, <2>2, ReviewBail
  <2>3. CASE /\ pc' = "journaled" /\ plan' = plan
             /\ journal' = [written |-> TRUE, plan |-> plan, receipts |-> receipts]
    BY <2>1, <2>3, ReviewGoesOn DEF Ahead
  <2> QED BY <1>7, <2>2, <2>3 DEF WriteJournal
<1> QED BY <1>1, <1>2, <1>3, <1>4, <1>5, <1>6, <1>7

LEMMA ReviewStep == ReviewInv /\ [Next]_vars => ReviewInv'
BY ReviewMakePlan, ReviewRegenerate, ReviewGetTargets, ReviewScanReferrers, ReviewOther
   DEF Next, Apply, Gate

\* The plan in the hands of apply, its journal and its resume agrees with the
\* execution plan file: with the file's phases less the explicit one while the
\* explicit targets are read anew, and with all of them from then on
\* (workflow.rs:1306-1387).
THEOREM ApplyReviewInvariant == Spec => []ReviewInv
<1>1. Init => ReviewInv
  BY ReviewInit
<1>2. ReviewInv /\ [Next]_vars => ReviewInv'
  BY ReviewStep
<1> QED BY <1>1, <1>2, PTL DEF Spec

\* For any cluster and however it changes between plan and apply, what is
\* journaled and run is what was saved for review, phase for phase and uid for
\* uid, explicit targets included (workflow.rs:1306-1370).
THEOREM ApplyReviewedIsApplied == Spec => []ReviewedIsApplied
<1>1. ReviewInv => ReviewedIsApplied
  BY DEF ReviewInv, ReviewedIsApplied, Ahead
<1> QED BY <1>1, ApplyReviewInvariant, PTL
-----------------------------------------------------------------------------
(***************************************************************************)
(* What is run has been backed up                                          *)
(***************************************************************************)

LEMMA BackupInit == Init => BackupInv
<1> SUFFICES ASSUME Init PROVE BackupInv
  OBVIOUS
<1>1. dir = [n \in RunNames |-> NoDirectory]
  BY DEF Init
<1>2. Directories
  BY <1>1 DEF Directories, NoDirectory
<1>3. pc = "idle" /\ receipts = {} /\ seen = None /\ ~journal.written
  BY DEF Init, NoJournal
<1> QED BY <1>2, <1>3 DEF BackupInv, Comparing, GatePlaces

\* A step after which what was published and durable still is.
Durable ==
  \A n \in RunNames : dir[n].there /\ dir[n].synced =>
    dir'[n].there /\ dir'[n].synced /\ dir'[n].content = dir[n].content

LEMMA SafeStays ==
  ASSUME Durable, NEW r, NEW phases, Safe(r, phases)
  PROVE  Safe(r, phases)'
BY DEF Durable, Safe, Intact, Covers

\* What the invariant says of the directories and of the journal.
Written ==
  journal.written =>
    /\ \A r \in journal.receipts : Safe(r, journal.plan.phases)
    /\ WithBackup => policy.operators \subseteq OperatorsOf(journal.receipts)

LEMMA WrittenStays ==
  ASSUME Durable, Written, UNCHANGED <<policy, journal>>
  PROVE  Written'
<1>1. ASSUME journal.written, NEW r \in journal.receipts
      PROVE  Safe(r, journal.plan.phases)'
  <2>1. Safe(r, journal.plan.phases)
    BY <1>1 DEF Written
  <2>2. Durable /\ r.name \in RunNames /\ dir[r.name].there /\ dir[r.name].content = r.content
        /\ dir[r.name].synced /\ Covers(r.content, journal.plan.phases)
    BY <2>1 DEF Safe, Intact
  <2> QED BY <2>2 DEF Durable, Safe, Intact
<1>2. OperatorsOf(journal.receipts)' = OperatorsOf(journal.receipts)
  BY DEF OperatorsOf
<1> QED BY <1>1, <1>2 DEF Written

\* The receipts of the process stay safe as long as its plan stays.
LEMMA ReceiptsStay ==
  ASSUME Durable, UNCHANGED plan, NEW r, Safe(r, plan.phases)
  PROVE  Safe(r, plan.phases)'
BY DEF Durable, Safe, Intact

LEMMA BackupBail ==
  ASSUME BackupInv, Bail, UNCHANGED <<policy, journal>>, Directories', Durable,
         seen' \in {seen, None},
         seen # None => ~journal.written
  PROVE  BackupInv'
<1>1. Written'
  BY WrittenStays DEF BackupInv, Written
<1> QED BY <1>1 DEF BackupInv, Bail, Written, Comparing, GatePlaces

LEMMA BackupUnchanged ==
  ASSUME BackupInv,
         UNCHANGED <<policy, seen, journal, pc, plan, dir, receipts, toBackUp, candidates,
                     staged, runName>>
  PROVE  BackupInv'
<1>1. Directories' /\ Durable
  BY DEF BackupInv, Directories, Durable
<1>2. Written'
  BY <1>1, WrittenStays DEF BackupInv, Written
<1>3. ASSUME pc \in GatePlaces \union {"backedUp"}
      PROVE  \A r \in receipts : Safe(r, plan.phases)'
  BY <1>1, <1>3, ReceiptsStay DEF BackupInv
<1> QED BY <1>1, <1>2, <1>3 DEF BackupInv, Written, OperatorsOf

\* The directories are left alone.
LEMMA SameDirectories ==
  ASSUME Directories, UNCHANGED dir
  PROVE  Directories' /\ Durable
BY DEF Directories, Durable

\* The steps between the plan and the gate.
LEMMA BackupBefore ==
  ASSUME BackupInv,
         pc' \in {"idle", "bailed", "resolved"} \union Comparing, receipts' = {},
         seen' # None => pc' \in {"idle", "bailed"} /\ ~journal.written,
         UNCHANGED <<policy, dir, journal>>
  PROVE  BackupInv'
<1>1. Directories' /\ Durable
  BY SameDirectories DEF BackupInv
<1>2. Written'
  BY <1>1, WrittenStays DEF BackupInv, Written
<1>3. pc' \notin GatePlaces \union {"backedUp", "journaled", "running"}
  BY DEF Comparing, GatePlaces
<1>4. pc' \notin {"fetch", "staged", "reserved", "published", "backedUp"}
  BY <1>3 DEF GatePlaces
<1> QED BY <1>1, <1>2, <1>3, <1>4 DEF BackupInv, Written

LEMMA BackupEnterGate ==
  ASSUME BackupInv, EnterGate
  PROVE  BackupInv'
<1>1. UNCHANGED <<policy, seen, plan, dir, journal, receipts>> /\ pc = "resolved"
  BY DEF EnterGate, planVars, diskVars, Goto
<1>2. Directories' /\ Durable
  BY <1>1, SameDirectories DEF BackupInv
<1>3. Written'
  BY <1>1, <1>2, WrittenStays DEF BackupInv, Written
<1>4. receipts' = {} /\ seen' = None
  BY <1>1 DEF BackupInv
<1>5. CASE WithBackup
  <2>1. pc' = "discover" /\ toBackUp' = policy.operators
    BY <1>5 DEF EnterGate, Goto
  <2> QED BY <1>1, <1>2, <1>3, <1>4, <2>1 DEF BackupInv, Written, Comparing
<1>6. CASE ~WithBackup
  <2>1. pc' = "backedUp" /\ toBackUp' = {}
    BY <1>6 DEF EnterGate, Goto
  <2> QED BY <1>2, <1>3, <1>4, <1>6, <2>1 DEF BackupInv, Written, Comparing
<1> QED BY <1>5, <1>6

\* A step of the gate that gives no receipt.
LEMMA BackupInGate ==
  ASSUME BackupInv, pc \in GatePlaces, pc' \in GatePlaces, Directories', Durable,
         UNCHANGED <<policy, seen, plan, journal, receipts, toBackUp>>,
         pc' = "fetch" => PlannedUids(plan.phases) \subseteq candidates',
         pc' \in {"staged", "reserved", "published"} =>
           Covers(staged', plan.phases) /\ runName' \in RunNames,
         pc' = "published" => dir'[runName'].there /\ dir'[runName'].content = staged'
  PROVE  BackupInv'
<1>1. Written'
  BY WrittenStays DEF BackupInv, Written
<1>2. \A r \in receipts : Safe(r, plan.phases)'
  BY ReceiptsStay DEF BackupInv
<1>3. (WithBackup => policy.operators \subseteq toBackUp \union OperatorsOf(receipts))'
  BY DEF BackupInv, OperatorsOf
<1>4. pc' \notin {"idle", "bailed", "resolved", "backedUp", "journaled", "running"} \union Comparing
  BY DEF GatePlaces, Comparing
<1>5. seen' = None
  BY DEF BackupInv, GatePlaces
<1>6. Covers(staged, plan.phases)' = Covers(staged', plan.phases)
  BY DEF Covers
<1> QED BY <1>1, <1>2, <1>3, <1>4, <1>5, <1>6 DEF BackupInv, Written

LEMMA BackupDiscover ==
  ASSUME BackupInv, DiscoverBackup
  PROVE  BackupInv'
<1>1. UNCHANGED <<policy, seen, plan, dir, journal, receipts, toBackUp>>
      /\ pc = "discover" /\ pc' = "fetch"
  BY DEF DiscoverBackup, planVars, diskVars, Goto
<1>2. Directories' /\ Durable
  BY <1>1, SameDirectories DEF BackupInv
<1>3. PlannedUids(plan.phases) \subseteq candidates'
  BY DEF DiscoverBackup
<1> QED BY <1>1, <1>2, <1>3, BackupInGate DEF GatePlaces

LEMMA BackupFetch ==
  ASSUME BackupInv, FetchBackup
  PROVE  BackupInv'
<1>1. UNCHANGED <<policy, seen, plan, dir, journal, receipts, toBackUp>>
      /\ pc = "fetch" /\ pc' = "staged"
  BY DEF FetchBackup, planVars, diskVars, Goto
<1>2. Directories' /\ Durable
  BY <1>1, SameDirectories DEF BackupInv
<1>3. runName' \in RunNames
  BY DEF FetchBackup
<1>4. candidates \subseteq staged'.captured \union staged'.absent
  BY DEF FetchBackup
<1>5. Covers(staged', plan.phases)
  BY <1>1, <1>4 DEF BackupInv, Covers
<1> QED BY <1>1, <1>2, <1>3, <1>5, BackupInGate DEF GatePlaces

LEMMA BackupReserve ==
  ASSUME BackupInv, Reserve
  PROVE  BackupInv'
<1>1. UNCHANGED <<policy, seen, plan, dir, journal, receipts, toBackUp, staged, runName>>
      /\ pc = "staged" /\ pc' = "reserved"
  BY DEF Reserve, planVars, Goto
<1>2. Directories' /\ Durable
  BY <1>1, SameDirectories DEF BackupInv
<1>3. Covers(staged', plan.phases) /\ runName' \in RunNames
  BY <1>1 DEF BackupInv
<1> QED BY <1>1, <1>2, <1>3, BackupInGate DEF GatePlaces

\* A directory is published under a name that is not taken.
LEMMA BackupPublish ==
  ASSUME BackupInv, Publish
  PROVE  BackupInv'
<1>1. UNCHANGED <<policy, seen, plan, journal, receipts, toBackUp, staged, runName>>
      /\ pc = "reserved" /\ pc' = "published"
  BY DEF Publish, planVars, Goto
<1>2. Covers(staged, plan.phases) /\ runName \in RunNames
  BY <1>1 DEF BackupInv
<1>3. dir' = [dir EXCEPT ![runName] = [there |-> TRUE, content |-> staged, synced |-> FALSE]]
      /\ ~dir[runName].there
  BY DEF Publish
<1>4. Directories' /\ dir'[runName] = [there |-> TRUE, content |-> staged, synced |-> FALSE]
  BY <1>2, <1>3 DEF BackupInv, Directories
<1>5. Durable
  BY <1>2, <1>3 DEF BackupInv, Directories, Durable
<1>6. dir'[runName'].there /\ dir'[runName'].content = staged'
  BY <1>1, <1>4
<1> QED BY <1>1, <1>2, <1>4, <1>5, <1>6, BackupInGate DEF GatePlaces

LEMMA Synced ==
  ASSUME NEW there, NEW content, NEW synced, NEW x
  PROVE  [[there |-> there, content |-> content, synced |-> synced] EXCEPT !.synced = x]
           = [there |-> there, content |-> content, synced |-> x]
OBVIOUS

LEMMA SyncedDirectory ==
  ASSUME NEW d, d = [there |-> d.there, content |-> d.content, synced |-> d.synced], NEW x
  PROVE  [d EXCEPT !.synced = x] = [there |-> d.there, content |-> d.content, synced |-> x]
<1>1. [[there |-> d.there, content |-> d.content, synced |-> d.synced] EXCEPT !.synced = x]
        = [there |-> d.there, content |-> d.content, synced |-> x]
  BY Synced
<1> QED BY ONLY <1>1, d = [there |-> d.there, content |-> d.content, synced |-> d.synced], Zenon

LEMMA BackupFinish ==
  ASSUME BackupInv, FinishBackup
  PROVE  BackupInv'
<1> DEFINE receipt == [op |-> InHand, name |-> runName, content |-> staged]
<1>1. UNCHANGED <<policy, seen, plan, journal>> /\ pc = "published"
  BY DEF FinishBackup, planVars
<1>2. Covers(staged, plan.phases) /\ runName \in RunNames
      /\ dir[runName].there /\ dir[runName].content = staged
  BY <1>1 DEF BackupInv
<1>3. dir' = [dir EXCEPT ![runName].synced = TRUE]
  BY DEF FinishBackup
<1>4. Directories' /\ dir'[runName] = [there |-> TRUE, content |-> staged, synced |-> TRUE]
  <2>1. dir[runName] = [there |-> dir[runName].there, content |-> dir[runName].content,
                        synced |-> dir[runName].synced]
    BY <1>2 DEF BackupInv, Directories
  <2>2. dir' = [n \in RunNames |-> IF n = runName THEN [dir[n] EXCEPT !.synced = TRUE] ELSE dir[n]]
    BY <1>3 DEF BackupInv, Directories
  <2>3. dir'[runName] = [dir[runName] EXCEPT !.synced = TRUE]
    BY ONLY <1>2, <2>2
  <2>4. dir'[runName] = [there |-> TRUE, content |-> staged, synced |-> TRUE]
    <3>1. [dir[runName] EXCEPT !.synced = TRUE]
            = [there |-> dir[runName].there, content |-> dir[runName].content, synced |-> TRUE]
      BY <2>1, SyncedDirectory
    <3> QED BY <1>2, <2>3, <3>1
  <2>5. dir' = [n \in RunNames |-> dir'[n]]
    BY <2>2
  <2>6. \A n \in RunNames \ {runName} : dir'[n] = dir[n]
    BY <2>2
  <2> QED BY <2>4, <2>5, <2>6 DEF BackupInv, Directories
<1>5. Durable
  <2>1. \A n \in RunNames \ {runName} : dir'[n] = dir[n]
    BY <1>3 DEF BackupInv, Directories
  <2> QED BY <1>2, <1>4, <2>1 DEF Durable
<1>6. Written'
  BY <1>1, <1>5, WrittenStays DEF BackupInv, Written
<1>7. receipts' = receipts \union {receipt} /\ toBackUp' = toBackUp \ {InHand} /\ receipt.op = InHand
  BY DEF FinishBackup
<1>8. \A r \in receipts : Safe(r, plan.phases)'
  BY <1>1, <1>5, ReceiptsStay DEF BackupInv, GatePlaces
<1>9. ASSUME NEW r, r = receipt
      PROVE  Safe(r, plan.phases)'
  <2>1. r.name = runName /\ r.content = staged
    BY <1>9
  <2>2. dir'[runName].there /\ dir'[runName].content = staged /\ dir'[runName].synced
    BY <1>4
  <2> HIDE DEF receipt
  <2> QED BY <1>1, <1>2, <2>1, <2>2 DEF Safe, Intact, Covers
<1>10. WithBackup => policy.operators \subseteq toBackUp' \union OperatorsOf(receipts')
  <2>1. WithBackup => policy.operators \subseteq toBackUp \union OperatorsOf(receipts)
    BY <1>1 DEF BackupInv, GatePlaces
  <2>2. OperatorsOf(receipts) \union {InHand} \subseteq OperatorsOf(receipts')
    <3> HIDE DEF receipt
    <3> QED BY <1>7 DEF OperatorsOf
  <2> QED BY <1>7, <2>1, <2>2
<1>11. pc' = IF toBackUp' = {} THEN "backedUp" ELSE "discover"
  BY DEF FinishBackup
<1>12. pc' = "backedUp" => toBackUp' = {}
  BY <1>11
<1>13. pc' \in {"backedUp", "discover"} /\ seen' = None
  BY <1>1, <1>11 DEF BackupInv
<1>14. (WithBackup => policy.operators \subseteq toBackUp \union OperatorsOf(receipts))'
  BY <1>1, <1>10 DEF OperatorsOf
<1>15. \A r \in receipts' : Safe(r, plan.phases)'
  <2> TAKE r \in receipts'
  <2>1. CASE r \in receipts
    BY <1>8, <2>1
  <2>2. CASE r = receipt
    BY <1>9, <2>2
  <2> HIDE DEF receipt
  <2> QED BY <1>7, <2>1, <2>2
<1> QED BY <1>4, <1>6, <1>12, <1>13, <1>14, <1>15 DEF BackupInv, Written, Comparing

\* The other process takes a free name, and what is there stays.
LEMMA BackupOther ==
  ASSUME BackupInv, Other
  PROVE  BackupInv'
<1>1. UNCHANGED <<policy, seen, journal, pc, plan, receipts, toBackUp, candidates, staged, runName>>
  BY DEF Other, OtherReserve, OtherPublish, OtherFinish, planVars, processVars
<1>2. CASE UNCHANGED dir
  BY <1>1, <1>2, BackupUnchanged
<1>3. CASE OtherPublish
  <2> DEFINE foreign == [there |-> TRUE, content |-> Foreign, synced |-> FALSE]
  <2>1. dir' = [n \in RunNames |->
                  IF n = other.name /\ ~dir[n].there THEN foreign ELSE dir[n]]
    BY <1>3 DEF OtherPublish, BackupInv, Directories
  <2>2. Directories'
    BY <2>1 DEF BackupInv, Directories
  <2>3. \A n \in RunNames : dir[n].there => dir'[n] = dir[n]
    BY <2>1
  <2>4. Durable
    BY <2>3 DEF Durable
  <2>5. Written'
    BY <1>1, <2>4, WrittenStays DEF BackupInv, Written
  <2>6. ASSUME pc \in GatePlaces \union {"backedUp"}
        PROVE  \A r \in receipts : Safe(r, plan.phases)'
    BY <1>1, <2>4, <2>6, ReceiptsStay DEF BackupInv
  <2>7. (WithBackup => policy.operators \subseteq toBackUp \union OperatorsOf(receipts))'
        = (WithBackup => policy.operators \subseteq toBackUp \union OperatorsOf(receipts))
    BY <1>1 DEF OperatorsOf
  <2>8. pc = "published" => dir'[runName].there /\ dir'[runName].content = staged
    BY <2>3 DEF BackupInv
  <2>9. Covers(staged, plan.phases)' = Covers(staged, plan.phases)
    BY <1>1 DEF Covers
  <2> HIDE DEF foreign
  <2> QED BY <1>1, <2>2, <2>5, <2>6, <2>7, <2>8, <2>9 DEF BackupInv, Written
<1> QED BY <1>2, <1>3 DEF Other, OtherReserve, OtherFinish

LEMMA BackupWriteJournal ==
  ASSUME BackupInv, WriteJournal
  PROVE  BackupInv'
<1>1. UNCHANGED <<policy, seen, dir>> /\ pc = "backedUp"
  BY DEF WriteJournal, planVars
<1>2. Directories' /\ Durable
  BY <1>1, SameDirectories DEF BackupInv
<1>3. CASE Bail /\ UNCHANGED journal
  <2>1. seen = None
    BY <1>1 DEF BackupInv
  <2> QED BY <1>1, <1>2, <1>3, <2>1, BackupBail
<1>4. CASE /\ UNCHANGED <<plan, receipts, toBackUp>> /\ pc' = "journaled"
           /\ journal' = [written |-> TRUE, plan |-> plan, receipts |-> receipts]
  <2>1. journal'.written /\ journal'.plan = plan /\ journal'.receipts = receipts
    BY <1>4
  <2>2. \A r \in receipts : Safe(r, plan.phases)'
    BY <1>1, <1>2, <1>4, ReceiptsStay DEF BackupInv
  <2>3. WithBackup => policy.operators \subseteq OperatorsOf(receipts)
    BY <1>1 DEF BackupInv
  <2>4. \A r \in journal'.receipts : Safe(r, journal.plan.phases)'
    BY <1>4, <2>1, <2>2 DEF Safe, Intact, Covers
  <2>5. WithBackup => policy.operators' \subseteq OperatorsOf(journal.receipts)'
    BY <1>1, <2>1, <2>3 DEF OperatorsOf
  <2>6. seen' = None /\ plan' = journal'.plan
    BY <1>1, <1>4, <2>1 DEF BackupInv
  <2> QED BY <1>1, <1>2, <1>4, <2>1, <2>4, <2>5, <2>6 DEF BackupInv, Comparing, GatePlaces
<1> QED BY <1>3, <1>4 DEF WriteJournal

\* What was not yet durable may be lost, and what is left is durable.
LEMMA BackupCrash ==
  ASSUME BackupInv, Crash
  PROVE  BackupInv'
<1>1. PICK lost \in SUBSET {n \in RunNames : dir[n].there /\ ~dir[n].synced} :
        dir' = [n \in RunNames |-> IF n \in lost \/ ~dir[n].there THEN NoDirectory
                                   ELSE [dir[n] EXCEPT !.synced = TRUE]]
  BY DEF Crash
<1>2. \A n \in RunNames :
        [dir[n] EXCEPT !.synced = TRUE]
          = [there |-> dir[n].there, content |-> dir[n].content, synced |-> TRUE]
  <2> TAKE n \in RunNames
  <2>1. dir[n] = [there |-> dir[n].there, content |-> dir[n].content, synced |-> dir[n].synced]
    BY DEF BackupInv, Directories
  <2> QED BY <2>1, SyncedDirectory
<1>3. dir' = [n \in RunNames |->
                IF n \in lost \/ ~dir[n].there THEN NoDirectory
                ELSE [there |-> dir[n].there, content |-> dir[n].content, synced |-> TRUE]]
  BY <1>1, <1>2
<1>4. Directories'
  BY <1>3 DEF Directories, NoDirectory
<1>5. Durable
  BY <1>1, <1>3 DEF Durable
<1>6. Bail /\ UNCHANGED <<policy, journal, seen>> /\ pc \notin {"idle", "bailed"}
  BY DEF Crash, planVars
<1> QED BY <1>4, <1>5, <1>6, BackupBail DEF BackupInv

LEMMA BackupResume ==
  ASSUME BackupInv, Resume
  PROVE  BackupInv'
<1>1. UNCHANGED <<policy, seen, dir, journal>> /\ journal.written
      /\ plan' = journal.plan /\ pc' = "journaled"
  BY DEF Resume, planVars, diskVars
<1>2. Directories' /\ Durable
  BY <1>1, SameDirectories DEF BackupInv
<1>3. Written'
  BY <1>1, <1>2, WrittenStays DEF BackupInv, Written
<1>4. seen' = None
  BY <1>1 DEF BackupInv
<1> QED BY <1>1, <1>2, <1>3, <1>4 DEF BackupInv, Written, Comparing, GatePlaces

LEMMA BackupStart ==
  ASSUME BackupInv, Start
  PROVE  BackupInv'
<1>1. UNCHANGED <<policy, seen, dir, journal>> /\ pc = "journaled"
  BY DEF Start, planVars, diskVars
<1>2. Directories' /\ Durable
  BY <1>1, SameDirectories DEF BackupInv
<1>3. Written'
  BY <1>1, <1>2, WrittenStays DEF BackupInv, Written
<1>4. seen = None /\ journal.written /\ plan = journal.plan
  BY <1>1 DEF BackupInv
<1>5. CASE Bail
  BY <1>1, <1>2, <1>4, <1>5, BackupBail
<1>6. CASE pc' = "running" /\ plan' = plan
  BY <1>1, <1>2, <1>3, <1>4, <1>6 DEF BackupInv, Written, Comparing, GatePlaces
<1> QED BY <1>5, <1>6 DEF Start

\* The steps that give the process its plan: nothing has been backed up for it.
LEMMA BackupPlan ==
  ASSUME ReviewInv, BackupInv, Discover \/ MakePlan \/ Regenerate \/ GetTargets \/ ScanReferrers
  PROVE  BackupInv'
<1>1. UNCHANGED <<policy, dir, journal>>
  BY DEF Discover, MakePlan, Regenerate, GetTargets, ScanReferrers, diskVars, planVars
<1>2. CASE Discover
  <2>1. pc' = pc /\ receipts' = receipts /\ pc \in {"idle", "bailed"} /\ ~journal.written
    BY <1>2 DEF Discover, processVars, MayApply, ReviewInv
  <2> QED BY <1>1, <2>1, BackupBefore DEF BackupInv
<1>3. CASE MakePlan
  <2>1. pc' = pc /\ receipts' = receipts /\ seen' = None /\ seen # None
    BY <1>3 DEF MakePlan, processVars
  <2> QED BY <1>1, <2>1, BackupBefore DEF BackupInv
<1>4. CASE Regenerate
  <2>1. seen' = None /\ seen # None
    BY <1>4 DEF Regenerate
  <2>2. receipts = {}
    BY <2>1 DEF BackupInv
  <2>3. receipts' = {}
    BY <1>4, <2>2 DEF Regenerate, Bail
  <2>4. pc' \in {"bailed", "resolved", "explicit"}
    BY <1>4 DEF Regenerate, Bail
  <2> QED BY <1>1, <2>1, <2>3, <2>4, BackupBefore DEF Comparing
<1>5. CASE GetTargets \/ ScanReferrers
  <2>1. pc \in Comparing /\ pc' \in {"scanning", "resolved"} /\ receipts' = receipts /\ seen' = seen
    BY <1>5 DEF GetTargets, ScanReferrers, Goto, planVars, Comparing
  <2>2. receipts = {} /\ seen = None
    BY <2>1 DEF BackupInv, Comparing
  <2> QED BY <1>1, <2>1, <2>2, BackupBefore DEF Comparing
<1> QED BY <1>2, <1>3, <1>4, <1>5

LEMMA BackupStep == ReviewInv /\ BackupInv /\ [Next]_vars => BackupInv'
<1> SUFFICES ASSUME ReviewInv, BackupInv, [Next]_vars PROVE BackupInv'
  OBVIOUS
<1>1. CASE Drift \/ UNCHANGED vars
  <2>1. UNCHANGED <<policy, seen, journal, pc, plan, dir, receipts, toBackUp, candidates,
                    staged, runName>>
    BY <1>1 DEF Drift, Vanish, Recreate, Appear, Reown, Change, planVars, processVars, diskVars, vars
  <2> QED BY <2>1, BackupUnchanged
<1>2. CASE Refuse \/ NameTaken
  <2>1. Bail /\ UNCHANGED <<policy, journal, seen, dir>>
    BY <1>2 DEF Refuse, NameTaken, planVars, diskVars
  <2>2. Directories' /\ Durable
    BY <2>1, SameDirectories DEF BackupInv
  <2> QED BY <2>1, <2>2, BackupBail DEF BackupInv
<1>3. CASE Discover \/ MakePlan \/ Regenerate \/ GetTargets \/ ScanReferrers
  BY <1>3, BackupPlan
<1>4. CASE Gate
  BY <1>2, <1>4, BackupEnterGate, BackupDiscover, BackupFetch, BackupReserve, BackupPublish,
     BackupFinish DEF Gate
<1>5. CASE Other \/ WriteJournal \/ Start \/ Crash \/ Resume
  BY <1>5, BackupOther, BackupWriteJournal, BackupStart, BackupCrash, BackupResume
<1> QED BY <1>1, <1>2, <1>3, <1>4, <1>5 DEF Next, Apply

\* In every state and under every name: a receipt, the process's or the
\* journal's, is about a directory that is published, durable and holds what
\* the plan removes; what is being backed up has been captured whole before it
\* has a name; and the operators that have no receipt yet are the ones still to
\* be backed up (backup.rs:1149-1200, workflow.rs:1372-1422).
THEOREM ApplyBackupInvariant == Spec => []BackupInv
<1>1. Init => BackupInv
  BY BackupInit
<1>2. ReviewInv /\ BackupInv /\ [Next]_vars => BackupInv'
  BY BackupStep
<1> QED BY <1>1, <1>2, ApplyReviewInvariant, PTL DEF Spec

\* For any number of operators, names, crashes and backups of another process:
\* no phase runs before each target's backup of all that the plan removes is
\* durable and what its receipt says (workflow.rs:1372-1387).
THEOREM ApplyBackedUpBeforeRun == Spec => []BackedUpBeforeRun
<1>1. BackupInv => BackedUpBeforeRun
  <2> SUFFICES ASSUME BackupInv, WithBackup, pc = "running", NEW op \in policy.operators
               PROVE  \E r \in journal.receipts :
                        /\ r.op = op /\ Intact(r) /\ dir[r.name].synced
                        /\ PlannedUids(plan.phases) \subseteq r.content.captured \union r.content.absent
    BY DEF BackedUpBeforeRun
  <2>1. journal.written /\ plan = journal.plan
    BY DEF BackupInv
  <2>2. PICK r \in journal.receipts : r.op = op
    BY <2>1 DEF BackupInv, OperatorsOf
  <2>3. Safe(r, plan.phases)
    BY <2>1 DEF BackupInv
  <2> QED BY <2>2, <2>3 DEF Safe, Covers
<1> QED BY <1>1, ApplyBackupInvariant, PTL
=============================================================================
