--------------------------- MODULE Barrier_proofs ---------------------------
(***************************************************************************)
(* The safety of the barrier for any number of targets.  The argument for  *)
(* AllGoneIsFresh follows an answer: what a full round of GETs finds       *)
(* absent was absent during that round, the round replaces every entry,    *)
(* and no WATCH event or LIST between the round and the judgement makes an *)
(* entry Gone.                                                             *)
(***************************************************************************)
EXTENDS Barrier, TLAPS

Versions == Version(MaxUid, MaxFins)
Entries == Entry(MaxUid, MaxFins)

ClusterTypes ==
  /\ life \in [Resources -> Seq(Versions)]
  /\ \A r \in Resources : Len(life[r]) >= 1
  /\ served \in BOOLEAN

StoreTypes == entry \in [Resources -> Entries]

RoundTypes ==
  /\ pending \subseteq asked /\ asked \subseteq Resources /\ failed \subseteq Resources
  /\ absent \subseteq Resources
  /\ got \in [Resources -> Nat] /\ \A r \in Resources : got[r] <= Len(life[r])

WatchTypes ==
  /\ at \in [Resources -> Nat] /\ \A r \in Resources : at[r] <= Len(life[r])
  /\ stream \in {"off", "listed", "watching"}

\* The WATCH task has been listed to a version of each target, which exists.
Listed == stream # "off" => \A r \in Resources : at[r] >= 1

WaitTypes ==
  /\ pc \in {"initial", "first look", "top", "verify", "reconcile", "judge",
             "wait", "backoff", "returned"}
  /\ unknowns \in 0..MaxUnknownRetries
  /\ cancelled \in BOOLEAN
  /\ result \in {"none", "AllGone", "Cancelled", "unreachable", "timeout", "Recreated", "Stalled"}

\* The last count of unknown rounds is that of a wait that is over, and a wait
\* is over exactly when it has a result.
Over ==
  /\ unknowns = MaxUnknownRetries => pc = "returned"
  /\ pc = "returned" <=> result # "none"

\* A GET that was answered has an answer, and a full round asks for every target.
Answered ==
  /\ Fetching => \A r \in asked \ pending : r \notin failed => got[r] >= 1
  /\ pc \in FullRound => asked = Resources

\* What is absent during a full round is in `absent`, and what one of its GETs
\* did not find is there too.
RoundIsHonest ==
  pc \in FullRound =>
    /\ AbsentNow \subseteq absent
    /\ \A r \in Resources \ pending :
         r \notin failed /\ ~Exists(life[r][got[r]]) => r \in absent

\* After a full round an entry is Gone only if the round found it so.
GoneIsFresh ==
  pc \in {"first look", "judge"} =>
    \A r \in Resources : entry[r].state = "Gone" => r \in absent

CameBack(r) == \E i \in DOMAIN life[r] : life[r][i].uid > 1

\* The tracked uid is another one, or the entry Recreated, only when the target
\* came back.
TrackedCameBack ==
  \A r \in Resources : entry[r].state = "Recreated" \/ entry[r].uid # 1 => CameBack(r)

IInv ==
  /\ ClusterTypes /\ StoreTypes /\ RoundTypes /\ WatchTypes /\ Listed /\ WaitTypes
  /\ Over /\ Answered /\ RoundIsHonest /\ GoneIsFresh
  /\ AllGoneIsFresh /\ TrackedCameBack /\ RecreationHappened
-----------------------------------------------------------------------------
(***************************************************************************)
(* What an observation makes of an entry                                   *)
(***************************************************************************)

LEMMA EntryRecord ==
  ASSUME NEW e \in Entries
  PROVE  /\ e.state \in States /\ e.uid \in 1..2 /\ e.fins \in 0..1
         /\ e.needs_verification \in BOOLEAN /\ e.progressed \in BOOLEAN
         /\ e = [state |-> e.state, uid |-> e.uid, fins |-> e.fins,
                 needs_verification |-> e.needs_verification, progressed |-> e.progressed]
BY DEF Entries, Entry, MaxUid, MaxFins

LEMMA VersionRecord ==
  ASSUME NEW v \in Versions
  PROVE  v.uid \in 0..2 /\ v.deleting \in BOOLEAN /\ v.fins \in 0..1
BY DEF Versions, Version, MaxUid, MaxFins

\* The updates the operators are made of.
WithState(e, s) == [e EXCEPT !.state = s]
WithBoth(e, s, f) == [e EXCEPT !.state = s, !.fins = f]
WithUid(e, s, u) == [e EXCEPT !.state = s, !.uid = u]

LEMMA StateUpdate ==
  ASSUME NEW e \in Entries, NEW s \in States
  PROVE  /\ WithState(e, s) \in Entries
         /\ WithState(e, s).state = s
         /\ WithState(e, s).uid = e.uid
BY EntryRecord DEF Entries, Entry, WithState

LEMMA BothUpdates ==
  ASSUME NEW e \in Entries, NEW s \in States, NEW f \in 0..1
  PROVE  /\ WithBoth(e, s, f) \in Entries
         /\ WithBoth(e, s, f).state = s
         /\ WithBoth(e, s, f).uid = e.uid
BY EntryRecord DEF Entries, Entry, MaxFins, WithBoth

LEMMA UidUpdate ==
  ASSUME NEW e \in Entries, NEW s \in States, NEW v \in Versions, Exists(v)
  PROVE  /\ WithUid(e, s, v.uid) \in Entries
         /\ WithUid(e, s, v.uid).state = s
         /\ WithUid(e, s, v.uid).uid = v.uid
<1>1. PICK u \in 1..2 : u = v.uid
  BY VersionRecord DEF Exists
<1>2. /\ WithUid(e, s, u) \in Entries
      /\ WithUid(e, s, u).state = s
      /\ WithUid(e, s, u).uid = u
  BY EntryRecord DEF Entries, Entry, MaxUid, WithUid
<1> QED  BY <1>1, <1>2

LEMMA FlagUpdate ==
  ASSUME NEW e \in Entries, NEW b \in BOOLEAN
  PROVE  /\ [e EXCEPT !.needs_verification = b] \in Entries
         /\ [e EXCEPT !.needs_verification = b].state = e.state
         /\ [e EXCEPT !.needs_verification = b].uid = e.uid
BY EntryRecord DEF Entries, Entry

LEMMA ProgressUpdate ==
  ASSUME NEW e \in Entries
  PROVE  /\ Progress(e) \in Entries /\ Progress(e).state = e.state /\ Progress(e).uid = e.uid
BY EntryRecord DEF Progress, Entries, Entry

\* A live object with the tracked uid: the entry stays an entry, keeps the uid,
\* and becomes neither Gone nor Recreated.
LEMMA TransitionLemma ==
  ASSUME NEW e \in Entries, NEW v \in Versions, NEW n \in Transition(e, v)
  PROVE  /\ n \in Entries /\ n.uid = e.uid
         /\ n.state = "Gone" => e.state = "Gone"
         /\ n.state = "Recreated" => e.state = "Recreated"
<1> DEFINE state == IF ~v.deleting THEN e.state
                    ELSE IF v.fins > 0 THEN "FinalizerBlocked" ELSE "Deleting"
           next == WithBoth(e, state, v.fins)
<1>1. /\ state \in States
      /\ state = "Gone" => e.state = "Gone"
      /\ state = "Recreated" => e.state = "Recreated"
  BY EntryRecord DEF States
<1>2. next \in Entries /\ next.state = state /\ next.uid = e.uid
  BY <1>1, VersionRecord, BothUpdates
<1>3. n \in {Progress(next), next, WithState(next, "Stalled")}
  BY DEF Transition, WithBoth, WithState
<1>4. "Stalled" \in States
  BY DEF States
<1> HIDE DEF next, state
<1>5. CASE n = Progress(next)
  BY <1>1, <1>2, <1>5, ProgressUpdate
<1>6. CASE n = next
  BY <1>1, <1>2, <1>6
<1>7. CASE n = WithState(next, "Stalled")
  BY <1>2, <1>4, <1>7, StateUpdate
<1> QED  BY <1>3, <1>5, <1>6, <1>7

\* An answer: Gone only when the object is absent, another uid only when the
\* object has it.
LEMMA AuthoritativeLemma ==
  ASSUME NEW e \in Entries, NEW v \in Versions, NEW n \in Authoritative(e, v)
  PROVE  /\ n \in Entries
         /\ n.state = "Gone" => ~Exists(v)
         /\ n.uid # e.uid => n.uid = v.uid /\ Exists(v)
         /\ n.state = "Recreated" => e.state = "Recreated" \/ (v.uid # e.uid /\ Exists(v))
<1> DEFINE seen == [e EXCEPT !.needs_verification = FALSE]
<1>1. seen \in Entries /\ seen.state = e.state /\ seen.uid = e.uid
  BY FlagUpdate
<1>2. "Gone" \in States /\ "Unknown" \in States /\ "Recreated" \in States
  BY DEF States
<1>3. CASE ~Exists(v)
  <2>1. (n = seen /\ e.state = "Gone") \/ n = Progress(WithBoth(seen, "Gone", 0))
    BY <1>3 DEF Authoritative, WithBoth
  <2> HIDE DEF seen
  <2>2. /\ WithBoth(seen, "Gone", 0) \in Entries
        /\ WithBoth(seen, "Gone", 0).state = "Gone"
        /\ WithBoth(seen, "Gone", 0).uid = e.uid
    BY <1>1, <1>2, BothUpdates
  <2> QED  BY <2>1, <2>2, <1>1, <1>3, ProgressUpdate
<1>4. ASSUME Exists(v), v.uid # e.uid, n = Recreated(seen, v)
      PROVE  n \in Entries /\ n.state = "Recreated" /\ n.uid = v.uid
  <2>1. n = Progress(WithUid(seen, "Recreated", v.uid))
    BY <1>4 DEF Recreated, WithUid
  <2> HIDE DEF seen
  <2>2. /\ WithUid(seen, "Recreated", v.uid) \in Entries
        /\ WithUid(seen, "Recreated", v.uid).state = "Recreated"
        /\ WithUid(seen, "Recreated", v.uid).uid = v.uid
    BY <1>1, <1>2, <1>4, UidUpdate
  <2> QED  BY <2>1, <2>2, ProgressUpdate
<1>5. CASE Exists(v) /\ e.state = "Gone"
  <2>1. CASE v.uid # e.uid
    <3>1. n = Recreated(seen, v)
      BY <1>1, <1>5, <2>1 DEF Authoritative, Reappeared
    <3> QED  BY <1>4, <1>5, <2>1, <3>1
  <2>2. CASE v.uid = e.uid
    <3>1. n = Progress(WithState(seen, "Unknown"))
      BY <1>1, <1>5, <2>2 DEF Authoritative, Reappeared, WithState
    <3> HIDE DEF seen
    <3>2. /\ WithState(seen, "Unknown") \in Entries
          /\ WithState(seen, "Unknown").state = "Unknown"
          /\ WithState(seen, "Unknown").uid = e.uid
      BY <1>1, <1>2, StateUpdate
    <3> QED  BY <1>5, <3>1, <3>2, ProgressUpdate
  <2> QED  BY <2>1, <2>2
<1>6. CASE Exists(v) /\ e.state # "Gone" /\ v.uid # e.uid
  <2>1. n = Recreated(seen, v)
    BY <1>6 DEF Authoritative
  <2> QED  BY <1>4, <1>6, <2>1
<1>7. CASE Exists(v) /\ e.state # "Gone" /\ v.uid = e.uid
  <2>1. n \in Transition(seen, v)
    BY <1>7 DEF Authoritative
  <2> QED  BY <2>1, <1>1, <1>7, TransitionLemma
<1> QED  BY <1>3, <1>5, <1>6, <1>7

\* A WATCH event makes nothing Gone or Recreated and changes no uid.
LEMMA NonAuthoritativeLemma ==
  ASSUME NEW e \in Entries, NEW v \in Versions, NEW n \in NonAuthoritative(e, v)
  PROVE  /\ n \in Entries /\ n.uid = e.uid
         /\ n.state = "Gone" => e.state = "Gone"
         /\ n.state = "Recreated" => e.state = "Recreated"
<1>1. CASE n \in Transition(e, v)
  BY <1>1, TransitionLemma
<1>2. CASE n = e
  BY <1>2
<1>3. CASE n = Hinted(e)
  BY <1>3, EntryRecord DEF Hinted, Entries, Entry
<1> QED  BY <1>1, <1>2, <1>3 DEF NonAuthoritative

LEMMA UnobservedLemma ==
  ASSUME NEW e \in Entries
  PROVE  /\ Unobserved(e) \in Entries /\ Unobserved(e).uid = e.uid
         /\ Unobserved(e).state = "Unknown"
BY EntryRecord DEF Unobserved, Entries, Entry, States
-----------------------------------------------------------------------------
(***************************************************************************)
(* What the store makes of a version the target had                        *)
(***************************************************************************)

LEMMA VersionOf ==
  ASSUME ClusterTypes, NEW r \in Resources, NEW i \in Nat, i >= 1, i <= Len(life[r])
  PROVE  life[r][i] \in Versions /\ i \in DOMAIN life[r]
BY DEF ClusterTypes

LEMMA LiveVersion ==
  ASSUME ClusterTypes, NEW r \in Resources
  PROVE  /\ Live(r) \in Versions /\ life[r] \in Seq(Versions)
         /\ Len(life[r]) \in Nat /\ Len(life[r]) >= 1
<1>1. life[r] \in Seq(Versions) /\ Len(life[r]) \in Nat /\ Len(life[r]) >= 1
  BY DEF ClusterTypes
<1> QED  BY <1>1, VersionOf DEF Live

LEMMA AnswerLemma ==
  ASSUME ClusterTypes, StoreTypes, TrackedCameBack,
         NEW r \in Resources, NEW i \in Nat, i >= 1, i <= Len(life[r]),
         NEW n \in Authoritative(entry[r], life[r][i])
  PROVE  /\ n \in Entries
         /\ n.state = "Gone" => ~Exists(life[r][i])
         /\ n.state = "Recreated" \/ n.uid # 1 => CameBack(r)
<1> DEFINE v == life[r][i]
<1>1. entry[r] \in Entries /\ v \in Versions /\ i \in DOMAIN life[r]
  BY VersionOf DEF StoreTypes
<1>2. entry[r].uid \in 1..2 /\ v.uid \in 0..2
  BY <1>1, EntryRecord, VersionRecord
<1>3. v.uid # 1 /\ Exists(v) => CameBack(r)
  BY <1>1, <1>2 DEF CameBack, Exists
<1>4. entry[r].uid # 1 \/ entry[r].state = "Recreated" => CameBack(r)
  BY DEF TrackedCameBack
<1> HIDE DEF v
<1>5. /\ n \in Entries
      /\ n.state = "Gone" => ~Exists(v)
      /\ n.uid # entry[r].uid => n.uid = v.uid /\ Exists(v)
      /\ n.state = "Recreated" => entry[r].state = "Recreated" \/ (v.uid # entry[r].uid /\ Exists(v))
  BY <1>1, AuthoritativeLemma DEF v
<1> QED  BY <1>3, <1>4, <1>5 DEF v

LEMMA EventLemma ==
  ASSUME ClusterTypes, StoreTypes, TrackedCameBack,
         NEW r \in Resources, NEW i \in Nat, i >= 1, i <= Len(life[r]),
         NEW n \in NonAuthoritative(entry[r], life[r][i])
  PROVE  /\ n \in Entries
         /\ n.state = "Gone" => entry[r].state = "Gone"
         /\ n.state = "Recreated" \/ n.uid # 1 => CameBack(r)
<1>1. entry[r] \in Entries /\ life[r][i] \in Versions
  BY VersionOf DEF StoreTypes
<1>2. /\ n \in Entries /\ n.uid = entry[r].uid
      /\ n.state = "Gone" => entry[r].state = "Gone"
      /\ n.state = "Recreated" => entry[r].state = "Recreated"
  BY <1>1, NonAuthoritativeLemma
<1> QED  BY <1>2 DEF TrackedCameBack

\* last_progress_check = now: nothing of an entry changes that matters here.
LEMMA NoticedLemma ==
  ASSUME StoreTypes
  PROVE  /\ Noticed \in [Resources -> Entries]
         /\ \A r \in Resources : /\ Noticed[r].state = entry[r].state
                                 /\ Noticed[r].uid = entry[r].uid
<1>1. ASSUME NEW e \in Entries
      PROVE  /\ [e EXCEPT !.progressed = FALSE] \in Entries
             /\ [e EXCEPT !.progressed = FALSE].state = e.state
             /\ [e EXCEPT !.progressed = FALSE].uid = e.uid
  BY DEF Entries, Entry
<1> QED  BY <1>1 DEF Noticed, StoreTypes
-----------------------------------------------------------------------------
(***************************************************************************)
(* The initial state, and the steps of the cluster                         *)
(***************************************************************************)

LEMMA InitIInv == Init => IInv
<1> SUFFICES ASSUME Init PROVE IInv
  OBVIOUS
<1> DEFINE first == {Absent} \union Version(1, MaxFins)
<1>1. first \subseteq Versions
  <2>1. Absent \in Versions
    BY DEF Versions, Version, Absent, MaxUid, MaxFins
  <2>2. ASSUME NEW v \in Version(1, MaxFins) PROVE v \in Versions
    BY DEF Versions, Version, MaxUid, MaxFins
  <2> QED  BY <2>1, <2>2
<1>2. ClusterTypes
  <2>1. life \in [Resources -> {<<v>> : v \in first}]
    BY DEF Init
  <2>2. ASSUME NEW v \in first PROVE <<v>> \in Seq(Versions) /\ Len(<<v>>) = 1
    BY <1>1
  <2>3. served = TRUE
    BY DEF Init
  <2> HIDE DEF first
  <2>4. ASSUME NEW r \in Resources PROVE life[r] \in Seq(Versions) /\ Len(life[r]) >= 1
    <3>1. PICK v \in first : life[r] = <<v>>
      BY <2>1
    <3> QED  BY <2>2, <3>1
  <2>5. life \in [Resources -> Seq(Versions)]
    BY <2>1, <2>4
  <2> QED  BY <2>3, <2>4, <2>5 DEF ClusterTypes
<1>3. \A r \in Resources : \E state \in {"ExpectingGone", "DeleteRequested"} :
         entry[r] = Registered(state, 1)
  BY DEF Init
<1>4. \A state \in {"ExpectingGone", "DeleteRequested"} :
         /\ Registered(state, 1) \in Entries
         /\ Registered(state, 1).state = state /\ Registered(state, 1).uid = 1
  BY DEF Registered, Entries, Entry, States, MaxUid, MaxFins
<1>5. StoreTypes /\ TrackedCameBack
  BY <1>3, <1>4 DEF Init, StoreTypes, TrackedCameBack
<1>6. absent = AbsentNow /\ AbsentNow \subseteq Resources
  BY DEF Init, AbsentNow
<1>7. RoundTypes /\ WatchTypes /\ Listed
  BY <1>2, <1>6 DEF Init, RoundTypes, WatchTypes, Listed, ClusterTypes
<1>8. WaitTypes /\ Over
  <2>1. unknowns = 0 /\ pc = "initial" /\ result = "none" /\ cancelled = FALSE
    BY DEF Init
  <2>2. unknowns \in 0..MaxUnknownRetries /\ unknowns # MaxUnknownRetries
    BY <2>1 DEF MaxUnknownRetries
  <2> QED  BY <2>1, <2>2 DEF WaitTypes, Over
<1>9. Answered /\ RoundIsHonest
  BY <1>6 DEF Init, Answered, RoundIsHonest
<1>10. GoneIsFresh /\ AllGoneIsFresh /\ RecreationHappened
  BY DEF Init, GoneIsFresh, AllGoneIsFresh, RecreationHappened
<1> QED  BY <1>2, <1>5, <1>7, <1>8, <1>9, <1>10 DEF IInv

\* A target that changes keeps the versions it had.
LEMMA Grows ==
  ASSUME ClusterTypes, NEW r \in Resources, NEW v \in Versions,
         life' = [life EXCEPT ![r] = Append(@, v)], NEW q \in Resources
  PROVE  /\ life'[q] \in Seq(Versions)
         /\ Len(life[q]) \in Nat /\ Len(life[q]) >= 1
         /\ Len(life'[q]) >= Len(life[q])
         /\ \A i \in 1..Len(life[q]) : life'[q][i] = life[q][i]
         /\ q # r => life'[q][Len(life'[q])] = Live(q)
<1>1. life[q] \in Seq(Versions) /\ Len(life[q]) \in Nat /\ Len(life[q]) >= 1
  BY LiveVersion
<1>2. CASE q = r
  <2>1. life'[q] = Append(life[q], v)
    BY <1>2 DEF ClusterTypes
  <2> QED  BY <1>1, <1>2, <2>1
<1>3. CASE q # r
  <2>1. life'[q] = life[q]
    BY <1>3 DEF ClusterTypes
  <2> QED  BY <1>1, <1>3, <2>1 DEF Live
<1> QED  BY <1>2, <1>3

LEMMA BecomeIInv ==
  ASSUME IInv, NEW r \in Resources, NEW v \in Versions, Become(r, v)
  PROVE  IInv'
<1> USE DEF IInv
<1>1. /\ life' = [life EXCEPT ![r] = Append(@, v)]
      /\ result = "none" /\ result' = "none" /\ served' = served /\ entry' = entry
      /\ pc' = pc /\ asked' = asked /\ pending' = pending /\ got' = got /\ failed' = failed
      /\ stream' = stream /\ at' = at /\ unknowns' = unknowns /\ cancelled' = cancelled
  BY DEF Become, Waiting, watch
<1>2. absent' = IF pc \in FullRound /\ ~Exists(v) /\ served THEN absent \union {r} ELSE absent
  BY DEF Become
<1>3. ClusterTypes'
  <2>1. life' \in [Resources -> Seq(Versions)]
    BY <1>1, Grows DEF ClusterTypes
  <2>2. \A q \in Resources : Len(life'[q]) >= 1
    <3> TAKE q \in Resources
    <3>1. life'[q] \in Seq(Versions) /\ Len(life[q]) >= 1 /\ Len(life'[q]) >= Len(life[q])
          /\ Len(life[q]) \in Nat
      BY <1>1, Grows
    <3> QED  BY <3>1
  <2> QED  BY <1>1, <2>1, <2>2 DEF ClusterTypes
<1>4. StoreTypes' /\ Listed' /\ WaitTypes' /\ Over'
  BY <1>1 DEF StoreTypes, Listed, WaitTypes, Over
<1>5. \A q \in Resources : got[q] <= Len(life'[q]) /\ at[q] <= Len(life'[q])
  <2> TAKE q \in Resources
  <2>1. Len(life'[q]) >= Len(life[q]) /\ life'[q] \in Seq(Versions) /\ Len(life[q]) \in Nat
    BY <1>1, Grows
  <2>2. got[q] \in Nat /\ at[q] \in Nat /\ got[q] <= Len(life[q]) /\ at[q] <= Len(life[q])
    BY DEF RoundTypes, WatchTypes
  <2> QED  BY <2>1, <2>2
<1>6. RoundTypes' /\ WatchTypes'
  BY <1>1, <1>2, <1>5 DEF RoundTypes, WatchTypes
<1>7. Answered'
  BY <1>1 DEF Answered, Fetching
<1>12. \A q \in Resources : /\ q = r => life'[q][Len(life'[q])] = v
                            /\ q # r => life'[q][Len(life'[q])] = Live(q)
  <2> TAKE q \in Resources
  <2>1. life' = [life EXCEPT ![r] = Append(@, v)]
    BY <1>1
  <2>2. CASE q = r
    <3>1. life'[q] = Append(life[q], v) /\ life[q] \in Seq(Versions)
      BY <2>1, <2>2 DEF ClusterTypes
    <3> QED  BY <2>2, <3>1
  <2>3. CASE q # r
    BY <2>1, <2>3, Grows
  <2> QED  BY <2>2, <2>3
<1>8. RoundIsHonest'
  <2> SUFFICES ASSUME pc \in FullRound PROVE (AbsentNow \subseteq absent)' /\
        \A q \in Resources \ pending :
          q \notin failed /\ ~Exists(life'[q][got[q]]) => q \in absent'
    BY <1>1 DEF RoundIsHonest
  <2>1. ASSUME NEW q \in AbsentNow' PROVE q \in absent'
    <3>1. q \in Resources /\ served /\ ~Exists(life'[q][Len(life'[q])])
      BY <1>1, <2>1 DEF AbsentNow, Live
    <3>2. CASE q = r
      BY <1>2, <1>12, <3>1, <3>2
    <3>3. CASE q # r
      <4>1. ~Exists(Live(q))
        BY <1>12, <3>1, <3>3
      <4> QED  BY <1>2, <3>1, <4>1 DEF AbsentNow, RoundIsHonest
    <3> QED  BY <3>2, <3>3
  <2>2. ASSUME NEW q \in Resources \ pending, q \notin failed, ~Exists(life'[q][got[q]])
        PROVE  q \in absent'
    <3>1. got[q] \in 1..Len(life[q])
      BY <2>2, LiveVersion DEF Answered, Fetching, FullRound, RoundTypes
    <3>2. life'[q][got[q]] = life[q][got[q]]
      BY <1>1, <3>1, Grows
    <3> QED  BY <1>2, <2>2, <3>2 DEF RoundIsHonest
  <2> QED  BY <2>1, <2>2
<1>9. GoneIsFresh' /\ AllGoneIsFresh' /\ RecreationHappened'
  BY <1>1, <1>2 DEF GoneIsFresh, AllGoneIsFresh, RecreationHappened
<1>10. ASSUME NEW q \in Resources, CameBack(q) PROVE CameBack(q)'
  <2>1. PICK i \in 1..Len(life[q]) : life[q][i].uid > 1
    BY <1>10, LiveVersion DEF CameBack
  <2>2. life'[q][i] = life[q][i] /\ i \in DOMAIN life'[q]
    BY <1>1, <2>1, Grows
  <2> QED  BY <2>1, <2>2 DEF CameBack
<1>11. TrackedCameBack'
  BY <1>1, <1>10 DEF TrackedCameBack
<1> QED  BY <1>3, <1>4, <1>6, <1>7, <1>8, <1>9, <1>11

LEMMA ClusterIInv ==
  ASSUME IInv, Cluster
  PROVE  IInv'
<1>1. CASE EndpointGone
  <2>1. /\ served' = FALSE /\ life' = life /\ absent' = absent /\ entry' = entry /\ pc' = pc
        /\ asked' = asked /\ pending' = pending /\ got' = got /\ failed' = failed
        /\ stream' = stream /\ at' = at /\ unknowns' = unknowns /\ cancelled' = cancelled
        /\ result' = result
    BY <1>1 DEF EndpointGone, rounds, watch
  <2>2. AbsentNow' = {}
    BY <2>1 DEF AbsentNow
  <2>3. ClusterTypes' /\ StoreTypes' /\ RoundTypes' /\ WatchTypes' /\ Listed' /\ WaitTypes' /\ Over'
    BY <2>1 DEF IInv, ClusterTypes, StoreTypes, RoundTypes, WatchTypes, Listed, WaitTypes, Over
  <2>4. Answered' /\ RoundIsHonest' /\ GoneIsFresh'
    BY <2>1, <2>2 DEF IInv, Answered, Fetching, RoundIsHonest, GoneIsFresh
  <2>5. AllGoneIsFresh' /\ TrackedCameBack' /\ RecreationHappened'
    BY <2>1 DEF IInv, AllGoneIsFresh, TrackedCameBack, CameBack, RecreationHappened
  <2> QED  BY <2>3, <2>4, <2>5 DEF IInv
<1>2. ASSUME NEW r \in Resources PROVE Live(r) \in Versions
  BY LiveVersion DEF IInv
<1>3. ASSUME NEW r \in Resources, Mark(r) PROVE IInv'
  <2>1. [Live(r) EXCEPT !.deleting = TRUE] \in Versions
    BY <1>2 DEF Versions, Version
  <2> QED  BY <1>3, <2>1, BecomeIInv DEF Mark
<1>4. ASSUME NEW r \in Resources, DropFinalizer(r) PROVE IInv'
  <2>1. [Live(r) EXCEPT !.fins = @ - 1] \in Versions
    BY <1>2, <1>4 DEF DropFinalizer, Versions, Version, MaxFins
  <2> QED  BY <1>4, <2>1, BecomeIInv DEF DropFinalizer
<1>5. ASSUME NEW r \in Resources, Vanish(r) PROVE IInv'
  <2>1. Absent \in Versions
    BY DEF Absent, Versions, Version, MaxUid, MaxFins
  <2> QED  BY <1>5, <2>1, BecomeIInv DEF Vanish
<1>6. ASSUME NEW r \in Resources, Recreate(r) PROVE IInv'
  <2>1. [uid |-> MaxUid, deleting |-> FALSE, fins |-> 0] \in Versions
    BY DEF Versions, Version, MaxUid, MaxFins
  <2> QED  BY <1>6, <2>1, BecomeIInv DEF Recreate
<1> QED  BY <1>1, <1>3, <1>4, <1>5, <1>6 DEF Cluster
-----------------------------------------------------------------------------
(***************************************************************************)
(* The rounds of GETs                                                      *)
(***************************************************************************)

LEMMA GetIInv ==
  ASSUME IInv, NEW r \in Resources, Get(r)
  PROVE  IInv'
<1> USE DEF IInv
<1>1. /\ Fetching /\ r \in pending /\ pending' = pending \ {r}
      /\ life' = life /\ served' = served /\ entry' = entry /\ pc' = pc /\ asked' = asked
      /\ stream' = stream /\ at' = at /\ unknowns' = unknowns /\ cancelled' = cancelled
      /\ result' = result /\ absent' = absent
  BY DEF Get, cluster, watch
<1>2. \/ /\ served /\ got' = [got EXCEPT ![r] = Len(life[r])] /\ failed' = failed \ {r}
      \/ got' = got /\ failed' = failed \union {r}
  BY DEF Get
<1>3. Len(life[r]) \in Nat /\ Len(life[r]) >= 1
  BY LiveVersion
<1>4. ClusterTypes' /\ StoreTypes' /\ WatchTypes' /\ Listed' /\ WaitTypes' /\ Over'
  BY <1>1 DEF ClusterTypes, StoreTypes, WatchTypes, Listed, WaitTypes, Over
<1>5. RoundTypes'
  BY <1>1, <1>2, <1>3 DEF RoundTypes
<1>6. \A q \in Resources : q # r =>
         got'[q] = got[q] /\ (q \in failed' <=> q \in failed)
  BY <1>2 DEF RoundTypes
<1>7. r \in failed' \/ (served /\ got'[r] = Len(life[r]))
  BY <1>2 DEF RoundTypes
<1>8. Answered'
  <2>1. pc' \in FullRound => asked' = Resources
    BY <1>1 DEF Answered
  <2>2. ASSUME NEW q \in asked' \ pending', q \notin failed' PROVE got'[q] >= 1
    <3>1. q \in Resources /\ (q = r \/ q \in asked \ pending)
      BY <1>1, <2>2 DEF RoundTypes
    <3>2. CASE q = r
      BY <1>3, <1>7, <2>2, <3>2
    <3>3. CASE q # r
      BY <1>1, <1>6, <2>2, <3>1, <3>3 DEF Answered
    <3> QED  BY <3>2, <3>3
  <2> QED  BY <2>1, <2>2 DEF Answered
<1>9. RoundIsHonest'
  <2> SUFFICES ASSUME pc \in FullRound,
                      NEW q \in Resources \ pending', q \notin failed',
                      ~Exists(life[q][got'[q]])
               PROVE  q \in absent
    BY <1>1 DEF RoundIsHonest, AbsentNow, Live
  <2>1. CASE q = r
    BY <1>7, <2>1 DEF RoundIsHonest, AbsentNow, Live
  <2>2. CASE q # r
    BY <1>1, <1>6, <2>2 DEF RoundIsHonest
  <2> QED  BY <2>1, <2>2
<1>10. GoneIsFresh' /\ AllGoneIsFresh' /\ TrackedCameBack' /\ RecreationHappened'
  BY <1>1 DEF GoneIsFresh, AllGoneIsFresh, TrackedCameBack, CameBack, RecreationHappened
<1> QED  BY <1>4, <1>5, <1>8, <1>9, <1>10

\* What a round makes of the entry of a target.
LEMMA ObservedLemma ==
  ASSUME IInv, Fetching, pending = {}, NEW r \in Resources, NEW n \in Observed(r)
  PROVE  /\ n \in Entries
         /\ n.state = "Recreated" \/ n.uid # 1 => CameBack(r)
         /\ pc \in FullRound /\ n.state = "Gone" => r \in absent
<1> USE DEF IInv
<1>1. entry[r] \in Entries /\ (entry[r].state = "Recreated" \/ entry[r].uid # 1 => CameBack(r))
  BY DEF StoreTypes, TrackedCameBack
<1>2. CASE r \notin asked
  BY <1>1, <1>2 DEF Observed, Answered
<1>3. CASE r \in asked /\ r \in failed
  <2>1. n = Unobserved(entry[r])
    BY <1>3 DEF Observed
  <2> QED  BY <1>1, <2>1, UnobservedLemma
<1>4. CASE r \in asked /\ r \notin failed
  <2>1. n \in Authoritative(entry[r], life[r][got[r]])
    BY <1>4 DEF Observed
  <2>2. got[r] \in Nat /\ got[r] >= 1 /\ got[r] <= Len(life[r])
    BY <1>4 DEF Answered, RoundTypes
  <2>3. /\ n \in Entries
        /\ n.state = "Gone" => ~Exists(life[r][got[r]])
        /\ n.state = "Recreated" \/ n.uid # 1 => CameBack(r)
    BY <2>1, <2>2, AnswerLemma
  <2> QED  BY <1>4, <2>3 DEF RoundIsHonest
<1> QED  BY <1>2, <1>3, <1>4

LEMMA ApplyIInv ==
  ASSUME IInv, Apply
  PROVE  IInv'
<1> USE DEF IInv
<1>1. /\ Fetching /\ pending = {} /\ got' = [r \in Resources |-> 0]
      /\ life' = life /\ served' = served /\ failed' = failed
      /\ stream' = stream /\ at' = at /\ unknowns' = unknowns /\ cancelled' = cancelled
      /\ result' = result
  BY DEF Apply, cluster, watch
<1>2. /\ entry' \in [Resources -> UNION {Observed(r) : r \in Resources}]
      /\ \A r \in Resources : entry'[r] \in Observed(r)
  BY DEF Apply, StoreBecomes
<1>3. \A r \in Resources :
         /\ entry'[r] \in Entries
         /\ entry'[r].state = "Recreated" \/ entry'[r].uid # 1 => CameBack(r)
         /\ pc \in FullRound /\ entry'[r].state = "Gone" => r \in absent
  BY <1>1, <1>2, ObservedLemma
<1>4. StoreTypes' /\ TrackedCameBack'
  BY <1>1, <1>2, <1>3 DEF StoreTypes, TrackedCameBack, CameBack
<1>5. \/ /\ pc \in FullRound /\ pc' \in {"first look", "judge"}
         /\ asked' = asked /\ pending' = pending /\ absent' = absent
      \/ /\ pc' = "reconcile" /\ asked' = Resources /\ pending' = Resources
         /\ absent' = AbsentNow
  BY DEF Apply, FullRound
<1>6. AbsentNow' = AbsentNow /\ AbsentNow \subseteq Resources
  BY <1>1 DEF AbsentNow, Live
<1>7. ClusterTypes' /\ WatchTypes' /\ Listed'
  BY <1>1 DEF ClusterTypes, WatchTypes, Listed
<1>8. RoundTypes'
  <2>1. \A r \in Resources : Len(life[r]) \in Nat
    BY LiveVersion
  <2>2. pending' \subseteq asked' /\ asked' \subseteq Resources /\ absent' \subseteq Resources
    BY <1>5, <1>6 DEF RoundTypes
  <2>3. \A r \in Resources : got'[r] <= Len(life'[r])
    BY <1>1, <2>1
  <2> QED  BY <1>1, <2>2, <2>3 DEF RoundTypes
<1>9. WaitTypes' /\ Over'
  <2>1. pc # "returned"
    BY <1>1 DEF Fetching
  <2> QED  BY <1>1, <1>5, <2>1 DEF WaitTypes, Over
<1>10. Answered' /\ RoundIsHonest'
  BY <1>5, <1>6 DEF Answered, Fetching, FullRound, RoundIsHonest
<1>11. GoneIsFresh'
  BY <1>3, <1>5 DEF GoneIsFresh
<1>12. AllGoneIsFresh' /\ RecreationHappened'
  <2>1. result' = "none"
    BY <1>1 DEF Over, Fetching, WaitTypes
  <2> QED  BY <2>1 DEF AllGoneIsFresh, RecreationHappened
<1> QED  BY <1>4, <1>7, <1>8, <1>9, <1>10, <1>11, <1>12
-----------------------------------------------------------------------------
(***************************************************************************)
(* The steps of the wait itself                                            *)
(***************************************************************************)

\* A step that leaves the round and the cluster alone, with pc not in a round
\* afterwards, has to show only what it changes.
LEMMA WaitStep ==
  ASSUME IInv, UNCHANGED <<life, served, asked, pending, got, failed, absent, stream, at>>,
         entry' \in {entry, Noticed},
         pc' \in {"top", "wait", "backoff", "returned"},
         WaitTypes', Over', AllGoneIsFresh', RecreationHappened'
  PROVE  IInv'
<1> USE DEF IInv
<1>1. ClusterTypes' /\ RoundTypes' /\ WatchTypes' /\ Listed'
  BY DEF ClusterTypes, RoundTypes, WatchTypes, Listed
<1>2. /\ entry' \in [Resources -> Entries]
      /\ \A r \in Resources : entry'[r].state = entry[r].state /\ entry'[r].uid = entry[r].uid
  BY NoticedLemma DEF StoreTypes
<1>3. StoreTypes' /\ TrackedCameBack'
  BY <1>2 DEF StoreTypes, TrackedCameBack, CameBack
<1>4. Answered' /\ RoundIsHonest' /\ GoneIsFresh'
  BY DEF Answered, Fetching, FullRound, RoundIsHonest, GoneIsFresh
<1> QED  BY <1>1, <1>3, <1>4

LEMMA AllGoneFresh ==
  ASSUME IInv, AllGone, pc \in {"first look", "judge"}
  PROVE  absent = Resources
BY DEF IInv, AllGone, GoneIsFresh, RoundTypes

LEMMA TopIInv ==
  ASSUME IInv, Top
  PROVE  IInv'
<1> USE DEF IInv
<1>1. /\ pc = "top" /\ life' = life /\ served' = served /\ entry' = entry /\ got' = got
      /\ stream' = stream /\ at' = at /\ unknowns' = unknowns /\ cancelled' = cancelled
      /\ result' = result
  BY DEF Top, cluster, watch
<1>2. PICK stage \in {"verify", "reconcile"}, targets \in SUBSET Resources :
         /\ StartRound(stage, targets)
         /\ stage = "reconcile" => targets = Resources
  BY DEF Top
<1>3. /\ pc' = stage /\ asked' = targets /\ pending' = targets /\ failed' = {}
      /\ absent' = IF stage \in FullRound THEN AbsentNow ELSE {}
  BY <1>2 DEF StartRound
<1>4. AbsentNow' = AbsentNow /\ AbsentNow \subseteq Resources
  BY <1>1 DEF AbsentNow, Live
<1>5. ClusterTypes' /\ StoreTypes' /\ WatchTypes' /\ Listed' /\ TrackedCameBack'
  BY <1>1 DEF ClusterTypes, StoreTypes, WatchTypes, Listed, TrackedCameBack, CameBack
<1>6. RoundTypes'
  BY <1>1, <1>3, <1>4 DEF RoundTypes
<1>7. result' = "none" /\ WaitTypes' /\ Over'
  BY <1>1, <1>3 DEF WaitTypes, Over
<1>8. Answered' /\ RoundIsHonest'
  BY <1>2, <1>3, <1>4 DEF Answered, RoundIsHonest, FullRound
<1>9. GoneIsFresh' /\ AllGoneIsFresh' /\ RecreationHappened'
  BY <1>3, <1>7 DEF GoneIsFresh, AllGoneIsFresh, RecreationHappened
<1> QED  BY <1>5, <1>6, <1>7, <1>8, <1>9

LEMMA JudgeIInv ==
  ASSUME IInv, JudgeAllGone \/ JudgeUnknown \/ JudgeKnown \/ JudgeTimeout
  PROVE  IInv'
<1> USE DEF IInv
<1>1. /\ pc = "judge" /\ result = "none" /\ unknowns \in 0..MaxUnknownRetries
      /\ unknowns # MaxUnknownRetries
  BY DEF JudgeAllGone, JudgeUnknown, JudgeKnown, JudgeTimeout, JudgedKnown, Over, WaitTypes
<1>2. /\ UNCHANGED <<life, served, asked, pending, got, failed, absent, stream, at>>
      /\ cancelled' = cancelled /\ entry' \in {entry, Noticed}
  BY DEF JudgeAllGone, JudgeUnknown, JudgeKnown, JudgeTimeout, cluster, rounds, watch
<1>3. CASE JudgeAllGone
  <2>1. pc' = "returned" /\ result' = "AllGone" /\ unknowns' = unknowns
    BY <1>3 DEF JudgeAllGone, Return
  <2>2. WaitTypes' /\ Over'
    BY <1>1, <1>2, <2>1 DEF WaitTypes, Over
  <2>3. absent' = Resources
    BY <1>1, <1>2, <1>3, AllGoneFresh DEF JudgeAllGone
  <2>4. AllGoneIsFresh' /\ RecreationHappened'
    BY <2>1, <2>3 DEF AllGoneIsFresh, RecreationHappened
  <2> QED  BY <1>2, <2>1, <2>2, <2>4, WaitStep
<1>4. CASE JudgeUnknown
  <2>1. \/ pc' = "returned" /\ result' = "unreachable"
        \/ pc' = "backoff" /\ result' = "none" /\ unknowns' < MaxUnknownRetries
    BY <1>1, <1>4 DEF JudgeUnknown, Return, MaxUnknownRetries
  <2>2. unknowns' \in 0..MaxUnknownRetries
    BY <1>1, <1>4 DEF JudgeUnknown, MaxUnknownRetries
  <2>3. unknowns' = MaxUnknownRetries => pc' = "returned"
    BY <2>1, <2>2 DEF MaxUnknownRetries
  <2>4. WaitTypes' /\ Over'
    BY <1>2, <2>1, <2>2, <2>3 DEF WaitTypes, Over
  <2>5. AllGoneIsFresh' /\ RecreationHappened'
    BY <2>1 DEF AllGoneIsFresh, RecreationHappened
  <2> QED  BY <1>2, <2>1, <2>4, <2>5, WaitStep
<1>5. CASE JudgeTimeout \/ JudgeKnown
  <2>1. unknowns' = 0
    BY <1>5 DEF JudgeTimeout, JudgeKnown
  <2>2. \/ pc' = "returned" /\ result' \in {"timeout", "Stalled"}
        \/ pc' = "returned" /\ result' = "Recreated" /\ In({"Recreated"}) # {}
        \/ pc' = "wait" /\ result' = "none"
    BY <1>1, <1>5 DEF JudgeTimeout, JudgeKnown, Return
  <2>3. unknowns' \in 0..MaxUnknownRetries /\ unknowns' # MaxUnknownRetries
    BY <2>1 DEF MaxUnknownRetries
  <2>4. WaitTypes' /\ Over'
    BY <1>2, <2>2, <2>3 DEF WaitTypes, Over
  <2>5. AllGoneIsFresh'
    BY <2>2 DEF AllGoneIsFresh
  <2>6. RecreationHappened'
    <3>1. ASSUME In({"Recreated"}) # {} PROVE \E r \in Resources : CameBack(r)
      BY <3>1 DEF In, TrackedCameBack
    <3> QED  BY <1>2, <2>2, <3>1 DEF RecreationHappened, CameBack
  <2> QED  BY <1>2, <2>2, <2>4, <2>5, <2>6, WaitStep
<1> QED  BY <1>3, <1>4, <1>5

LEMMA LoopIInv ==
  ASSUME IInv, Loop
  PROVE  IInv'
<1>1. CASE FirstLook
  <2>1. /\ pc = "first look" /\ unknowns' = unknowns /\ cancelled' = cancelled
        /\ UNCHANGED <<life, served, asked, pending, got, failed, absent, stream, at>>
        /\ entry' = Noticed
    BY <1>1 DEF FirstLook, cluster, rounds, watch
  <2>2. \/ AllGone /\ pc' = "returned" /\ result' = "AllGone"
        \/ pc' = "top" /\ result' = result
    BY <1>1 DEF FirstLook, Return
  <2>3. result = "none"
    BY <2>1 DEF IInv, Over, WaitTypes
  <2>4. WaitTypes' /\ Over'
    BY <2>1, <2>2, <2>3 DEF IInv, WaitTypes, Over
  <2>5. AllGoneIsFresh' /\ RecreationHappened'
    BY <2>1, <2>2, <2>3, AllGoneFresh DEF AllGoneIsFresh, RecreationHappened
  <2> QED  BY <2>1, <2>2, <2>4, <2>5, WaitStep
<1>2. CASE Wake
  <2>1. /\ pc \in {"wait", "backoff"} /\ pc' = "top"
        /\ UNCHANGED <<life, served, asked, pending, got, failed, absent, stream, at>>
        /\ entry' = entry /\ unknowns' = unknowns /\ cancelled' = cancelled /\ result' = result
    BY <1>2 DEF Wake, cluster, rounds, watch
  <2>2. result' = "none" /\ WaitTypes' /\ Over'
    BY <2>1 DEF IInv, WaitTypes, Over
  <2>3. AllGoneIsFresh' /\ RecreationHappened'
    BY <2>2 DEF AllGoneIsFresh, RecreationHappened
  <2> QED  BY <2>1, <2>2, <2>3, WaitStep
<1>3. CASE Cancel
  <2>1. /\ pc' = "returned" /\ result' = "Cancelled"
        /\ UNCHANGED <<life, served, asked, pending, got, failed, absent, stream, at>>
        /\ entry' = entry /\ unknowns' = unknowns /\ cancelled' = cancelled
    BY <1>3 DEF Cancel, Return, cluster, rounds, watch
  <2>2. WaitTypes' /\ Over'
    BY <2>1 DEF IInv, WaitTypes, Over
  <2>3. AllGoneIsFresh' /\ RecreationHappened'
    BY <2>1 DEF AllGoneIsFresh, RecreationHappened
  <2> QED  BY <2>1, <2>2, <2>3, WaitStep
<1> QED  BY <1>1, <1>2, <1>3, ApplyIInv, TopIInv, JudgeIInv DEF Loop

LEMMA InterruptIInv ==
  ASSUME IInv, Interrupt
  PROVE  IInv'
<1>1. /\ cancelled' = TRUE /\ UNCHANGED <<life, served, entry, pc, asked, pending, got, failed,
                                          absent, stream, at, unknowns, result>>
  BY DEF Interrupt, cluster, rounds, watch
<1>2. ClusterTypes' /\ StoreTypes' /\ RoundTypes' /\ WatchTypes' /\ Listed' /\ WaitTypes' /\ Over'
  BY <1>1 DEF IInv, ClusterTypes, StoreTypes, RoundTypes, WatchTypes, Listed, WaitTypes, Over
<1>3. Answered' /\ RoundIsHonest' /\ GoneIsFresh'
  BY <1>1 DEF IInv, Answered, Fetching, RoundIsHonest, AbsentNow, Live, GoneIsFresh
<1>4. AllGoneIsFresh' /\ TrackedCameBack' /\ RecreationHappened'
  BY <1>1 DEF IInv, AllGoneIsFresh, TrackedCameBack, CameBack, RecreationHappened
<1> QED  BY <1>2, <1>3, <1>4 DEF IInv
-----------------------------------------------------------------------------
(***************************************************************************)
(* The WATCH task                                                          *)
(***************************************************************************)

\* The WATCH task touches the store and itself; what it writes to the store is
\* an entry, Gone only if it was, and Recreated only if the target came back.
LEMMA WatchStep ==
  ASSUME IInv, Watching,
         UNCHANGED <<life, served, pc, asked, pending, got, failed, absent,
                     unknowns, cancelled, result>>,
         WatchTypes', Listed', entry' \in [Resources -> Entries],
         \A r \in Resources :
           /\ entry'[r].state = "Gone" => entry[r].state = "Gone"
           /\ entry'[r].state = "Recreated" \/ entry'[r].uid # 1 => CameBack(r)
  PROVE  IInv'
<1>1. ClusterTypes' /\ StoreTypes' /\ RoundTypes' /\ WaitTypes' /\ Over'
  BY DEF IInv, ClusterTypes, StoreTypes, RoundTypes, WaitTypes, Over
<1>2. Answered' /\ RoundIsHonest'
  BY DEF IInv, Answered, Fetching, RoundIsHonest, AbsentNow, Live
<1>3. GoneIsFresh'
  BY DEF IInv, GoneIsFresh
<1>4. TrackedCameBack'
  BY DEF TrackedCameBack, CameBack
<1>5. AllGoneIsFresh' /\ RecreationHappened'
  BY DEF Watching, Waiting, AllGoneIsFresh, RecreationHappened
<1> QED  BY <1>1, <1>2, <1>3, <1>4, <1>5 DEF IInv

LEMMA WatchTaskIInv ==
  ASSUME IInv, WatchTask
  PROVE  IInv'
<1> USE DEF IInv
<1>1. /\ Watching
      /\ UNCHANGED <<life, served, pc, asked, pending, got, failed, absent,
                     unknowns, cancelled, result>>
  BY DEF WatchTask, List, ApplyList, Event, Disconnect, cluster, rounds
<1>2. \A r \in Resources :
         /\ entry[r] \in Entries
         /\ entry[r].state = "Recreated" \/ entry[r].uid # 1 => CameBack(r)
         /\ Len(life[r]) \in Nat /\ Len(life[r]) >= 1
         /\ at[r] \in Nat /\ at[r] <= Len(life[r])
  BY LiveVersion DEF StoreTypes, TrackedCameBack, WatchTypes
<1>3. CASE List
  <2>1. /\ stream' = "listed" /\ at' = [r \in Resources |-> Len(life[r])] /\ entry' = entry
    BY <1>3 DEF List
  <2>2. WatchTypes' /\ Listed'
    BY <1>1, <1>2, <2>1 DEF WatchTypes, Listed
  <2> QED  BY <1>1, <1>2, <2>1, <2>2, WatchStep DEF StoreTypes
<1>4. CASE Disconnect
  <2>1. /\ stream' = "off" /\ at' = [r \in Resources |-> 0] /\ entry' = entry
    BY <1>4 DEF Disconnect
  <2>2. WatchTypes' /\ Listed'
    BY <1>1, <1>2, <2>1 DEF WatchTypes, Listed
  <2> QED  BY <1>1, <1>2, <2>1, <2>2, WatchStep DEF StoreTypes
<1>5. CASE ApplyList
  <2>1. stream = "listed" /\ stream' = "watching" /\ at' = at
    BY <1>5 DEF ApplyList
  <2>2. WatchTypes' /\ Listed'
    BY <1>1, <2>1 DEF WatchTypes, Listed
  <2> DEFINE Item(r) == IF Exists(life[r][at[r]]) THEN Authoritative(entry[r], life[r][at[r]])
                        ELSE {entry[r]}
  <2>3. /\ entry' \in [Resources -> UNION {Item(r) : r \in Resources}]
        /\ \A r \in Resources : entry'[r] \in Item(r)
    BY <1>5 DEF ApplyList, StoreBecomes
  <2>4. ASSUME NEW r \in Resources
        PROVE  /\ entry'[r] \in Entries
               /\ entry'[r].state = "Gone" => entry[r].state = "Gone"
               /\ entry'[r].state = "Recreated" \/ entry'[r].uid # 1 => CameBack(r)
    <3>1. at[r] \in Nat /\ at[r] >= 1 /\ at[r] <= Len(life[r])
      BY <1>2, <2>1 DEF Listed
    <3>2. CASE Exists(life[r][at[r]])
      <4>1. entry'[r] \in Authoritative(entry[r], life[r][at[r]])
        BY <2>3, <3>2
      <4> QED  BY <3>1, <3>2, <4>1, AnswerLemma
    <3>3. CASE ~Exists(life[r][at[r]])
      <4>1. entry'[r] = entry[r]
        BY <2>3, <3>3
      <4> QED  BY <1>2, <4>1
    <3> QED  BY <3>2, <3>3
  <2> HIDE DEF Item
  <2>5. entry' \in [Resources -> Entries]
    BY <2>3, <2>4
  <2> QED  BY <1>1, <2>2, <2>4, <2>5, WatchStep
<1>6. ASSUME NEW r \in Resources, Event(r) PROVE IInv'
  <2>1. /\ stream = "watching" /\ stream' = "watching"
        /\ at[r] < Len(life[r]) /\ at' = [at EXCEPT ![r] = @ + 1]
    BY <1>6 DEF Event
  <2>2. PICK n \in NonAuthoritative(entry[r], life[r][at'[r]]) : entry' = [entry EXCEPT ![r] = n]
    BY <1>6 DEF Event
  <2>3. at'[r] = at[r] + 1 /\ at'[r] \in Nat /\ at'[r] >= 1 /\ at'[r] <= Len(life[r])
    BY <1>2, <2>1 DEF WatchTypes
  <2>4. WatchTypes' /\ Listed'
    BY <1>1, <1>2, <2>1, <2>3 DEF WatchTypes, Listed
  <2>5. /\ n \in Entries
        /\ n.state = "Gone" => entry[r].state = "Gone"
        /\ n.state = "Recreated" \/ n.uid # 1 => CameBack(r)
    BY <2>2, <2>3, EventLemma
  <2>6. entry' \in [Resources -> Entries]
    BY <2>2, <2>5 DEF StoreTypes
  <2>7. ASSUME NEW q \in Resources
        PROVE  /\ entry'[q].state = "Gone" => entry[q].state = "Gone"
               /\ entry'[q].state = "Recreated" \/ entry'[q].uid # 1 => CameBack(q)
    <3>1. CASE q = r
      <4>1. entry'[r] = n
        BY <2>2 DEF StoreTypes
      <4> QED  BY <2>5, <3>1, <4>1
    <3>2. CASE q # r
      <4>1. entry'[q] = entry[q]
        BY <2>2, <3>2 DEF StoreTypes
      <4> QED  BY <1>2, <4>1
    <3> QED  BY <3>1, <3>2
  <2> QED  BY <1>1, <2>4, <2>6, <2>7, WatchStep
<1> QED  BY <1>3, <1>4, <1>5, <1>6 DEF WatchTask
-----------------------------------------------------------------------------
LEMMA StutterIInv ==
  ASSUME IInv, UNCHANGED vars
  PROVE  IInv'
<1>1. ClusterTypes' /\ StoreTypes' /\ RoundTypes' /\ WatchTypes' /\ Listed' /\ WaitTypes' /\ Over'
  BY DEF IInv, vars, ClusterTypes, StoreTypes, RoundTypes, WatchTypes, Listed, WaitTypes, Over
<1>2. Answered' /\ RoundIsHonest' /\ GoneIsFresh'
  BY DEF IInv, vars, Answered, Fetching, RoundIsHonest, AbsentNow, Live, GoneIsFresh
<1>3. AllGoneIsFresh' /\ TrackedCameBack' /\ RecreationHappened'
  BY DEF IInv, vars, AllGoneIsFresh, TrackedCameBack, CameBack, RecreationHappened
<1> QED  BY <1>1, <1>2, <1>3 DEF IInv

LEMMA NextIInv == IInv /\ [Next]_vars => IInv'
BY ClusterIInv, GetIInv, LoopIInv, WatchTaskIInv, InterruptIInv, StutterIInv DEF Next, Answer

\* The inductive invariant of the wait, for any set of targets (watch.rs,
\* wait_for_gone_cancellable with the WATCH tasks beside it).
THEOREM BarrierInvariant == Spec => []IInv
BY InitIInv, NextIInv, PTL DEF Spec

\* A barrier that passes saw every target absent during its last round of GETs,
\* whatever their number and whatever WATCH events came between (watch.rs,
\* wait_for_gone_cancellable).
THEOREM BarrierAllGoneIsFresh == Spec => []AllGoneIsFresh
<1>1. IInv => AllGoneIsFresh
  BY DEF IInv
<1> QED  BY <1>1, BarrierInvariant, PTL

\* A barrier that reports a recreation has seen one (runtime.rs,
\* apply_authoritative).
THEOREM BarrierRecreationHappened == Spec => []RecreationHappened
<1>1. IInv => RecreationHappened
  BY DEF IInv
<1> QED  BY <1>1, BarrierInvariant, PTL

\* The wait keeps its types: the counters stay at their bounds, the store's
\* entries are entries, GETs and WATCH events refer to versions that were there.
THEOREM BarrierTypeOK == Spec => []TypeOK
<1>1. IInv => TypeOK
  <2> SUFFICES ASSUME IInv PROVE TypeOK
    OBVIOUS
  <2>1. ASSUME NEW r \in Resources, NEW i \in DOMAIN life[r]
        PROVE  life[r][i] \in Version(MaxUid, MaxFins)
    BY DEF IInv, ClusterTypes, Versions
  <2> QED  BY <2>1 DEF IInv, TypeOK, StoreTypes, Entries, RoundTypes, WatchTypes, WaitTypes
<1> QED  BY <1>1, BarrierInvariant, PTL
=============================================================================
