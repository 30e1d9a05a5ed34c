--------------------------- MODULE JobDeliveryProofs ---------------------------
(***************************************************************************)
(* However often a stalled job is handed out, with or without disk         *)
(* failures, deaths and lost locks: JobInv is inductive for JobDelivery,   *)
(* and with it failures.json keeps what was acknowledged to every run      *)
(* unless a living one was overtaken, and a terminal record is only        *)
(* written over after the job was stalled.                                 *)
(***************************************************************************)
EXTENDS JobDelivery, SessionRunsProofs, FiniteSetTheorems

\* What a list holds of a run: none of what is not there, and one more of the run
\* whose failure is appended.
LEMMA RecordedByEmpty ==
  ASSUME NEW d
  PROVE  Cardinality(RecordedBy(d, << >>)) = 0
<1>1. RecordedBy(d, << >>) = {}
  BY DEF RecordedBy
<1> QED
  BY <1>1, FS_EmptySet

LEMMA RecordedByType ==
  ASSUME NEW d, NEW list \in Seq(Writers)
  PROVE  IsFiniteSet(RecordedBy(d, list)) /\ Cardinality(RecordedBy(d, list)) \in Nat
<1>1. RecordedBy(d, list) \subseteq 1..Len(list) /\ Len(list) \in Nat
  BY DEF RecordedBy
<1>2. IsFiniteSet(1..Len(list))
  BY <1>1, FS_Interval
<1> QED
  BY <1>1, <1>2, FS_Subset, FS_CardinalityType

LEMMA RecordedByAppend ==
  ASSUME NEW d, NEW e \in Writers, NEW list \in Seq(Writers)
  PROVE  Cardinality(RecordedBy(d, Append(list, e))) =
           Cardinality(RecordedBy(d, list)) + (IF d = e THEN 1 ELSE 0)
<1> DEFINE n == Len(list) + 1
           longer == Append(list, e)
<1>1. /\ n \in Nat \ {0} /\ DOMAIN list = 1..(n - 1) /\ DOMAIN longer = 1..n
      /\ longer[n] = e /\ \A k \in 1..(n - 1) : longer[k] = list[k]
  <2>1. /\ longer \in Seq(Writers) /\ Len(longer) = Len(list) + 1 /\ Len(list) \in Nat
        /\ longer[n] = e /\ \A k \in 1..Len(list) : longer[k] = list[k]
    BY AppendProperties, LenProperties
  <2>2. DOMAIN list = 1..Len(list) /\ DOMAIN longer = 1..Len(longer)
    BY <2>1, LenProperties
  <2> QED
    BY <2>1, <2>2
<1> HIDE DEF n, longer
<1>2. /\ n \notin RecordedBy(d, list)
      /\ RecordedBy(d, longer) = IF d = e THEN RecordedBy(d, list) \cup {n} ELSE RecordedBy(d, list)
  <2>1. DOMAIN longer = DOMAIN list \cup {n} /\ n \notin DOMAIN list
    BY <1>1
  <2>2. \A k \in DOMAIN list : longer[k] = list[k]
    BY <1>1
  <2> QED
    BY <1>1, <2>1, <2>2 DEF RecordedBy
<1>3. IsFiniteSet(RecordedBy(d, list)) /\ Cardinality(RecordedBy(d, list)) \in Nat
  BY RecordedByType
<1>4. Cardinality(RecordedBy(d, list) \cup {n}) = Cardinality(RecordedBy(d, list)) + 1
  BY <1>2, <1>3, FS_AddElement
<1> QED
  BY <1>2, <1>3, <1>4 DEF longer

-----------------------------------------------------------------------------
(* JobInv holds initially and is kept by every step.                       *)

\* The deliveries, and what is known of each run and its call.
LEMMA Deliveries ==
  ASSUME JobInv
  PROVE  /\ Writers = Runs /\ Runs \subseteq Nat \ {0} /\ 1 \in Runs /\ Null \notin Runs
         /\ StoreTypeOK /\ RunsInv /\ DeliveryInv /\ KeptInv /\ FirstWordInv
         /\ call \in [Runs -> Calls]
         /\ run \in [Runs -> [at : RunStages, found : 0..MaxFailures, saved : 0..MaxFailures]]
         /\ \A d \in Runs : run[d].saved \in Nat /\ run[d].found \in Nat /\ CallInv(d)
         /\ IsFile(sessionFile, Records) /\ IsFile(failuresFile, Seq(Runs))
         /\ delivered \in 0..MaxStalled + 1 /\ MaxStalled \in Nat
<1>1. Writers = Runs /\ Runs \subseteq Nat \ {0} /\ 1 \in Runs /\ Null \notin Runs /\ MaxStalled \in Nat
  BY DeliveriesAssumption
<1>2. MaxFailures \in Nat
  BY RunsAssumption
<1> QED
  BY <1>1, <1>2 DEF JobInv, RunsInv, StoreTypeOK, TypeOK

\* As long as nobody was overtaken, who calls the repository is alone.
LEMMA WhoWorksIsAlone ==
  ASSUME JobInv, ~overtaken, NEW w \in Runs, AtWork(w)
  PROVE  Alone(w)
<1>1. ASSUME NEW v \in Runs, v # w PROVE call[v] = NoCall
  <2>1. ~AtWork(v)
    BY <1>1, Deliveries DEF DeliveryInv
  <2>2. call[v].op = "none" /\ call[v] \in Calls
    BY <2>1, Deliveries DEF CallInv, OpAwaited, AtWork
  <2> QED
    BY <2>2, CallShape
<1> QED
  BY <1>1, Deliveries DEF KeptInv, Alone

LEMMA InitInv == Init => JobInv
<1> SUFFICES ASSUME Init PROVE JobInv
  OBVIOUS
<1>1. /\ Writers = Runs /\ Runs \subseteq Nat \ {0} /\ 1 \in Runs /\ MaxStalled \in Nat /\ MaxFailures \in Nat
      /\ NoCall \in Calls /\ NoCall.op = "none" /\ << >> \in Seq(Writers)
  BY DeliveriesAssumption, RunsAssumption DEF Calls, NoCall
<1>2. /\ call = [d \in Runs |-> NoCall] /\ run = [d \in Runs |-> NewRun("none")]
      /\ job = "waiting" /\ holder = Null /\ delivered = 0
  BY DEF Init
<1>3. IsFile(sessionFile, Records) /\ IsFile(failuresFile, Seq(Writers))
  <2>1. NewRecord("requested") \in Records
    BY <1>1 DEF NewRecord, Records
  <2>2. \A values : \A value \in values : IsFile(Json(value), values) /\ IsFile(Absent, values)
    BY DEF IsFile, Json
  <2> QED
    BY <1>1, <2>1, <2>2 DEF Init
<1>4. StoreTypeOK
  BY <1>1, <1>2, <1>3 DEF StoreTypeOK, NewRun, RunStages
<1>5. RunsInv
  BY <1>1, <1>2, <1>4 DEF RunsInv, CallInv, OpAwaited, NewRun
<1>6. TypeOK
  <2>1. overtaken \in BOOLEAN
    BY DEF Init
  <2> QED
    BY <1>1, <1>2, <1>4, <2>1 DEF TypeOK
<1>7. DeliveryInv
  BY <1>1, <1>2 DEF DeliveryInv, NewRun, AtWork
<1>8. KeptInv
  <2>1. \A d \in Runs : run[d].saved = 0 /\ run[d].at = "none"
    BY <1>2 DEF NewRun
  <2>2. ReadOk(failuresFile) => failuresFile.value = << >>
    BY DEF Init, ReadOk, Absent, Json
  <2>3. OpenedInv
    BY <1>1, <1>2 DEF OpenedInv, At, NoCall
  <2> QED
    BY <2>1, <2>2, <2>3, RecordedByEmpty DEF KeptInv, Kept
<1>9. FirstWordInv
  BY DEF Init, FirstWordInv, EndsSession, ReadOk, Absent, Json, NewRecord, Terminal
<1> QED
  BY <1>5, <1>6, <1>7, <1>8, <1>9 DEF JobInv

\* Steps that acknowledge nothing and write nothing keep what was kept.
LEMMA KeptSame ==
  ASSUME JobInv, overtaken => overtaken', ~overtaken' => OpenedInv',
         failuresFile' = failuresFile \/ failuresFile' = Torn,
         \A d \in Runs : run'[d].saved = run[d].saved,
         \A e \in Runs : run'[e].at = "recording" =>
           \/ run[e].at = "recording" /\ call'[e] = call[e] /\ failuresFile' = failuresFile
           \/ call'[e].at \in {"read-failures", "err"}
  PROVE  KeptInv'
<1> SUFFICES ASSUME ~overtaken' PROVE KeptInv'
  BY DEF KeptInv
<1>1. KeptInv /\ ~overtaken
  BY Deliveries
<1>2. \A d : \A list : d \in Runs /\ Kept(d, list) => Cardinality(RecordedBy(d, list)) >= run'[d].saved
  BY DEF Kept
<1>3. /\ failuresFile' = Absent => \A d \in Runs : run'[d].saved = 0
      /\ ReadOk(failuresFile)' => \A d \in Runs : Kept(d, failuresFile.value)'
  BY <1>1, <1>2 DEF KeptInv, Kept, ReadOk, Torn, Absent
<1>4. ASSUME NEW e \in Runs, run'[e].at = "recording"
      PROVE  /\ call'[e].at \in {"open-failures", "write-failures", "ok"} =>
                  /\ \A d \in Runs : Kept(d, call[e].failures)'
                  /\ Cardinality(RecordedBy(e, call'[e].failures)) > run'[e].saved
             /\ At(e, "ok")' => failuresFile' = Json(call'[e].failures)
  <2>1. CASE call'[e].at \in {"read-failures", "err"}
    BY <2>1 DEF At
  <2>2. CASE run[e].at = "recording" /\ call'[e] = call[e] /\ failuresFile' = failuresFile
    BY <1>1, <1>2, <2>2 DEF KeptInv, Kept, At
  <2> QED
    BY <1>4, <2>1, <2>2
<1> QED
  BY <1>3, <1>4 DEF KeptInv

\* A system call of the repository, made by the one run at work unless one was
\* overtaken; it touches a terminal record only after a second delivery.
LEMMA RepositoryInv ==
  ASSUME JobInv, NEW w \in Runs, RepositoryStep(w)
  PROVE  JobInv' /\ (EndsSession(sessionFile) /\ sessionFile' # sessionFile => delivered > 1)
<1> DEFINE b == call[w]
           c == call'[w]
<1>1. StoreStep(w) /\ UNCHANGED <<run, job, holder, delivered, overtaken>>
  BY DEF RepositoryStep, queueVars
<1>2. /\ StoreTypeOK /\ RunsInv /\ DeliveryInv /\ KeptInv /\ FirstWordInv /\ CallInv(w)
      /\ Writers = Runs /\ Runs \subseteq Nat \ {0} /\ 1 \in Runs
      /\ \A d \in Runs : run[d].saved \in Nat /\ CallInv(d)
      /\ IsFile(sessionFile, Records) /\ IsFile(failuresFile, Seq(Runs))
      /\ b \in Calls /\ delivered \in Nat
  BY Deliveries
<1>3. RunsInv' /\ StoreTypeOK'
  BY <1>1, <1>2, StoreStepInv DEF RunsInv
<1>4. TypeOK' /\ DeliveryInv'
  BY <1>1, <1>3 DEF JobInv, TypeOK, DeliveryInv, AtWork
<1>5. /\ c \in Calls /\ c.op = b.op
      /\ \A v \in Runs : v # w => call'[v] = call[v]
      /\ \/ SessionWasRead(b, c) \/ FailuresWereRead(b, c, w) \/ SessionWasOpened(b, c)
         \/ SessionWasWritten(b, c, w) \/ FailuresWereOpened(b, c)
         \/ FailuresWereWritten(b, c, w) \/ CallFailed(c)
  BY <1>1, <1>2, StoreStepCases
<1>6. b # NoCall /\ ~Settled(b) /\ b.op \in {"create", "update", "record"}
  BY <1>1, <1>2, StoreStepEffect, CallShape
<1>7. /\ b.op # "create"
      /\ b.op = "update" => run[w].at \in {"starting", "finishing"}
      /\ b.op = "record" => run[w].at = "recording"
  BY <1>2, <1>6 DEF CallInv, OpAwaited, DeliveryInv
<1>8. ~overtaken => \A e \in Runs : run[e].at = "recording" => e = w
  <2>1. AtWork(w)
    BY <1>6, <1>7 DEF AtWork
  <2> QED
    BY <1>2, <2>1 DEF DeliveryInv, AtWork
<1>9. EndsSession(sessionFile) => delivered > 1
  <2> SUFFICES ASSUME delivered <= 1, EndsSession(sessionFile) PROVE FALSE
    BY <1>2
  <2>1. w = 1
    BY <1>2, <1>6, <1>7 DEF DeliveryInv
  <2> QED
    BY <1>2, <1>6, <1>7, <2>1 DEF FirstWordInv, CallInv, OpAwaited
<1> HIDE DEF b, c
<1>10. FirstWordInv'
  <2> SUFFICES ASSUME EndsSession(sessionFile)', delivered <= 1
               PROVE  run[1].at = "finishing" /\ Settled(call'[1])
    BY <1>1 DEF FirstWordInv
  <2>1. w = 1
    BY <1>2, <1>6, <1>7 DEF DeliveryInv
  <2>2. sessionFile' # sessionFile /\ sessionFile' \notin {Empty, Torn}
    BY <1>2, <1>9 DEF EndsSession, ReadOk, Empty, Torn
  <2>3. SessionWasWritten(b, c, w)
    BY <1>5, <2>2 DEF SessionWasRead, SessionWasOpened, FailuresWereRead, FailuresWereOpened,
                      FailuresWereWritten, CallFailed, files
  <2>4. b.op = "update" /\ c.at = "ok" /\ b.session.status \in Terminal
    BY <1>7, <2>2, <2>3 DEF SessionWasWritten, EndsSession, ReadOk, Json
  <2> QED
    BY <1>2, <1>7, <2>1, <2>4 DEF CallInv, Settled, Terminal, b, c
<1>a. ~overtaken => Alone(w) /\ OpenedInv'
  <2>1. AtWork(w)
    BY <1>6, <1>7 DEF AtWork
  <2> QED
    BY <1>1, <1>2, <2>1, WhoWorksIsAlone, StoreStepOpened
<1>11. KeptInv'
  <2>1. CASE SessionWasRead(b, c) \/ SessionWasOpened(b, c) \/ SessionWasWritten(b, c, w) \/ CallFailed(c)
    <3> SUFFICES ASSUME ~overtaken PROVE KeptInv'
      BY <1>1 DEF KeptInv
    <3>1. /\ failuresFile' \in {failuresFile, Torn} /\ (run[w].at # "recording" \/ c.at = "err")
          /\ failuresFile' = failuresFile \/ c.at = "err"
      BY <1>7, <2>1 DEF SessionWasRead, SessionWasOpened, SessionWasWritten, CallFailed, files
    <3>2. ASSUME NEW e \in Runs, run'[e].at = "recording"
          PROVE  \/ run[e].at = "recording" /\ call'[e] = call[e] /\ failuresFile' = failuresFile
                 \/ call'[e].at \in {"read-failures", "err"}
      BY <1>1, <1>5, <1>8, <3>1, <3>2 DEF c
    <3> QED
      BY <1>1, <1>a, <3>1, <3>2, KeptSame
  <2> SUFFICES ASSUME ~overtaken,
                      FailuresWereRead(b, c, w) \/ FailuresWereOpened(b, c) \/ FailuresWereWritten(b, c, w)
               PROVE  KeptInv'
    BY <1>1, <1>5, <2>1 DEF KeptInv
  <2>2. /\ b.op = "record" /\ run[w].at = "recording"
        /\ \A e \in Runs : run'[e].at = "recording" => e = w
    BY <1>1, <1>7, <1>8 DEF FailuresWereRead, FailuresWereOpened, FailuresWereWritten
  <2>3. /\ failuresFile = Absent => \A d \in Runs : run[d].saved = 0
        /\ ReadOk(failuresFile) => \A d \in Runs : Kept(d, failuresFile.value)
        /\ b.at \in {"open-failures", "write-failures"} =>
             /\ \A d \in Runs : Kept(d, b.failures)
             /\ Cardinality(RecordedBy(w, b.failures)) > run[w].saved
    BY <1>2, <2>2 DEF KeptInv, b
  <2> SUFFICES /\ failuresFile' = Absent => \A d \in Runs : run[d].saved = 0
               /\ ReadOk(failuresFile)' => \A d \in Runs : Kept(d, failuresFile'.value)
               /\ \A d \in Runs : Kept(d, c.failures)
               /\ Cardinality(RecordedBy(w, c.failures)) > run[w].saved
               /\ c.at = "ok" => failuresFile' = Json(c.failures)
    BY <1>1, <1>a, <2>2 DEF KeptInv, Kept, At, c
  <2>4. CASE FailuresWereRead(b, c, w)
    <3>1. /\ failuresFile' = failuresFile /\ failuresFile \notin {Empty, Torn} /\ c.at = "open-failures"
          /\ c.failures = Append(Listed, w)
      BY <2>4 DEF FailuresWereRead, files
    <3>2. Listed \in Seq(Writers) /\ \A d \in Runs : Kept(d, Listed)
      <4>1. CASE failuresFile = Absent
        BY <1>2, <2>3, <4>1, RecordedByEmpty DEF Listed, Kept
      <4>2. CASE failuresFile # Absent
        BY <1>2, <2>3, <3>1, <4>2, FileShape DEF Listed, ReadOk
      <4> QED
        BY <4>1, <4>2
    <3>3. ASSUME NEW d \in Runs
          PROVE  /\ Cardinality(RecordedBy(d, Listed)) \in Nat
                 /\ Cardinality(RecordedBy(d, c.failures)) =
                      Cardinality(RecordedBy(d, Listed)) + (IF d = w THEN 1 ELSE 0)
      <4> w \in Writers /\ Listed \in Seq(Writers)
        BY <1>2, <3>2
      <4> QED
        BY <3>1, RecordedByAppend, RecordedByType
    <3>4. /\ \A d \in Runs : Kept(d, c.failures)
          /\ Cardinality(RecordedBy(w, c.failures)) > run[w].saved
      BY <1>2, <3>2, <3>3 DEF Kept
    <3> QED
      BY <2>3, <3>1, <3>4 DEF ReadOk
  <2>5. CASE FailuresWereOpened(b, c)
    BY <2>3, <2>5 DEF FailuresWereOpened, ReadOk, Empty, Absent
  <2>6. CASE FailuresWereWritten(b, c, w)
    BY <1>a, <2>3, <2>6 DEF FailuresWereWritten, ReadOk, Json, Absent
  <2> QED
    BY <2>4, <2>5, <2>6
<1> QED
  BY <1>3, <1>4, <1>9, <1>10, <1>11 DEF JobInv

\* A step of a run: it stays at work until it ends, and who counts a failure as
\* acknowledged has just written it.
LEMMA SessionStepInv ==
  ASSUME JobInv, NEW w \in Runs, SessionStep(w)
  PROVE  JobInv' /\ sessionFile' = sessionFile
<1> DEFINE r == run[w]
           s == run'[w]
           b == call[w]
           c == call'[w]
<1>1. RunStep(w) /\ UNCHANGED <<job, holder, delivered, overtaken>>
  BY DEF SessionStep, queueVars, hisVars
<1>2. /\ RunsInv /\ DeliveryInv /\ KeptInv /\ FirstWordInv /\ TypeOK
      /\ Writers = Runs /\ Runs \subseteq Nat \ {0} /\ 1 \in Runs
      /\ \A d \in Runs : run[d].saved \in Nat
  BY Deliveries DEF JobInv
<1>3. RunsInv'
  BY <1>1, <1>2, RunStepInv
<1>4. /\ sessionFile' = sessionFile /\ failuresFile' = failuresFile
      /\ \A v \in Runs : v # w => run'[v] = run[v] /\ call'[v] = call[v]
      /\ Advanced(r, s, b, c) \/ FailureWasFound(r, s, c) \/ FailureWasCounted(r, s, b)
  BY <1>1, <1>2, RunStepCases DEF files
<1> HIDE DEF r, s, b, c
<1>5. /\ s.at \in {"starting", "running", "recording", "finishing", "ended"}
      /\ r.at \in {"created", "starting", "running", "recording", "finishing"}
      /\ r.at = "finishing" => s.at = "ended"
  BY <1>4 DEF Advanced, FailureWasFound, FailureWasCounted
<1>6. TypeOK'
  BY <1>1, <1>2, <1>3 DEF TypeOK, RunsInv
<1>7. DeliveryInv'
  <2>1. ASSUME NEW d \in Runs
        PROVE  /\ run'[d].at \notin {"boot", "creating"} /\ (d > delivered' => run'[d].at = "none")
               /\ ~overtaken /\ AtWork(d)' => AtWork(d)
    <3>1. CASE d = w
      BY <1>1, <1>2, <1>5, <3>1 DEF DeliveryInv, AtWork, r, s
    <3>2. CASE d # w
      BY <1>1, <1>2, <1>4, <3>2 DEF DeliveryInv, AtWork
    <3> QED
      BY <3>1, <3>2
  <2> QED
    BY <1>1, <1>2, <2>1 DEF DeliveryInv
<1>8. FirstWordInv'
  <2>1. CASE w = 1
    BY <1>1, <1>2, <1>4, <1>5, <2>1 DEF FirstWordInv, EndsSession, r, s
  <2>2. CASE w # 1
    BY <1>1, <1>2, <1>4, <2>2 DEF FirstWordInv, EndsSession
  <2> QED
    BY <2>1, <2>2
<1>a. OpenedInv => OpenedInv'
  <2>1. call'[w].at \notin {"write-session", "write-failures"}
    BY <1>1, <1>2, Deliveries
    DEF RunStep, MarkRunning, Marked, FindFailure, CountFailure, Finish, End, UpdateStatus, RecordFailure,
        Release, NoCall
  <2> QED
    BY <1>2, <1>4, <2>1, OpenedSame DEF files
<1>b. ~overtaken' => OpenedInv'
  BY <1>1, <1>2, <1>a DEF KeptInv
<1>9. KeptInv'
  <2>1. CASE Advanced(r, s, b, c) \/ FailureWasFound(r, s, c) \/ b.at # "ok"
    <3>1. s.saved = r.saved /\ (s.at = "recording" => c.at = "read-failures")
      BY <1>4, <2>1 DEF Advanced, FailureWasFound, FailureWasCounted
    <3>2. /\ \A d \in Runs : run'[d].saved = run[d].saved
          /\ \A e \in Runs : run'[e].at = "recording" =>
               \/ run[e].at = "recording" /\ call'[e] = call[e]
               \/ call'[e].at \in {"read-failures", "err"}
      BY <1>4, <3>1 DEF r, s, c
    <3> QED
      BY <1>1, <1>4, <1>b, <3>2, KeptSame
  <2>2. CASE FailureWasCounted(r, s, b) /\ b.at = "ok"
    <3> SUFFICES ASSUME ~overtaken PROVE KeptInv'
      BY <1>1 DEF KeptInv
    <3>1. r.at = "recording" /\ s.at = "running" /\ s.saved = r.saved + 1
      BY <2>2 DEF FailureWasCounted
    <3>2. /\ failuresFile = Json(b.failures) /\ \A d \in Runs : Kept(d, b.failures)
          /\ Cardinality(RecordedBy(w, b.failures)) > run[w].saved
      BY <1>2, <2>2, <3>1 DEF KeptInv, At, r, b
    <3>3. \A e \in Runs : run'[e].at # "recording"
      BY <1>2, <1>4, <3>1 DEF DeliveryInv, AtWork, r, s
    <3>4. b.failures \in Seq(Writers)
      <4>1. IsFile(failuresFile, Seq(Writers))
        BY Deliveries
      <4>2. failuresFile.is = "json" /\ failuresFile.value = b.failures
        BY <3>2 DEF Json
      <4> QED
        BY <4>1, <4>2, FileShape
    <3>5. ASSUME NEW d \in Runs PROVE Cardinality(RecordedBy(d, b.failures)) >= run'[d].saved
      BY <1>2, <1>4, <3>1, <3>2, <3>4, RecordedByType DEF Kept, r, s
    <3> QED
      BY <1>1, <1>4, <1>b, <3>2, <3>3, <3>5 DEF KeptInv, Kept, ReadOk, Json, Absent
  <2> QED
    BY <1>4, <2>1, <2>2
<1> QED
  BY <1>3, <1>4, <1>6, <1>7, <1>8, <1>9 DEF JobInv

\* A delivery or a report moves one run and none of its files.
LEMMA ProcessorInv ==
  ASSUME JobInv, NEW w \in Runs, Deliver(w) \/ Report(w)
  PROVE  JobInv' /\ sessionFile' = sessionFile
<1> DEFINE r == run[w]
           moved(stage) == [at |-> stage, found |-> r.found, saved |-> r.saved]
           s == run'[w]
<1>1. UNCHANGED <<sessionFile, failuresFile, overtaken>>
  BY DEF Deliver, Report, storeVars, hisVars
<1>2. /\ RunsInv /\ DeliveryInv /\ KeptInv /\ FirstWordInv /\ TypeOK /\ CallInv(w)
      /\ Writers = Runs /\ Runs \subseteq Nat \ {0} /\ 1 \in Runs /\ Null \notin Runs
      /\ call \in [Runs -> Calls] /\ delivered \in Nat
      /\ run \in [Runs -> [at : RunStages, found : 0..MaxFailures, saved : 0..MaxFailures]]
      /\ r.saved <= r.found
  BY Deliveries DEF JobInv, StoreTypeOK
<1>3. \A from, to : Moves(w, from, to) => r.at = from /\ run' = [run EXCEPT ![w] = moved(to)]
  <2>1. \A to : [run[w] EXCEPT !.at = to] = moved(to)
    BY <1>2
  <2> QED
    BY <1>2, <2>1 DEF Moves
<1>a. ~overtaken' => OpenedInv'
  BY <1>1, <1>2, OpenedSame DEF KeptInv, files, Deliver, Report, storeVars
<1>b. IsFile(sessionFile', Records) /\ IsFile(failuresFile', Seq(Writers))
  BY <1>1, Deliveries
<1>4. CASE Deliver(w)
  <2>1. /\ r.at = "none" /\ run' = [run EXCEPT ![w] = moved("created")] /\ UNCHANGED call
        /\ job = "waiting" /\ job' = "active" /\ holder' = w /\ w = delivered + 1 /\ delivered' = w
    BY <1>3, <1>4 DEF Deliver, storeVars
  <2>2. RunsInv'
    <3>1. call[w] = NoCall /\ NoCall \in Calls /\ NoCall.op = "none" /\ r.found = 0
      <4>1. call[w] \in Calls /\ call[w].op = "none" /\ r.found = 0
        BY <1>2, <2>1 DEF CallInv, OpAwaited
      <4> QED
        BY <4>1, CallShape DEF NoCall
    <3>2. call' = [call EXCEPT ![w] = NoCall]
      BY <1>2, <2>1, <3>1
    <3>3. moved("created") \in [at : RunStages, found : 0..MaxFailures, saved : 0..MaxFailures]
      BY <1>2 DEF RunStages, ProtocolStages
    <3> QED
      BY <1>b, <1>2, <2>1, <3>1, <3>2, <3>3, OneRunInv DEF OpAwaited
  <2>3. TypeOK'
    BY <1>1, <1>2, <2>1, <2>2, DeliveriesAssumption DEF TypeOK, RunsInv
  <2>4. DeliveryInv'
    <3>1. ~overtaken => \A d \in Runs : ~AtWork(d)
      BY <1>2, <2>1 DEF DeliveryInv
    <3> QED
      BY <1>1, <1>2, <2>1, <3>1 DEF DeliveryInv, AtWork
  <2>5. FirstWordInv'
    BY <1>1, <1>2, <2>1 DEF FirstWordInv, EndsSession
  <2>6. KeptInv'
    BY <1>1, <1>2, <1>a, <2>1, KeptSame
  <2> QED
    BY <1>1, <2>2, <2>3, <2>4, <2>5, <2>6 DEF JobInv
<1>5. CASE Report(w)
  <2>1. /\ r.at = "ended" /\ run' = [run EXCEPT ![w] = moved("reported")] /\ UNCHANGED <<call, delivered>>
        /\ \/ holder = w /\ job' = "completed" /\ holder' = Null
           \/ holder # w /\ UNCHANGED <<job, holder>>
    BY <1>3, <1>5 DEF Report, storeVars
  <2>2. RunsInv'
    <3>1. call[w] = NoCall /\ NoCall \in Calls /\ NoCall.op = "none"
      <4>1. call[w] \in Calls /\ call[w].op = "none"
        BY <1>2, <2>1 DEF CallInv, OpAwaited
      <4> QED
        BY <4>1, CallShape DEF NoCall
    <3>2. call' = [call EXCEPT ![w] = NoCall]
      BY <1>2, <2>1, <3>1
    <3>3. moved("reported") \in [at : RunStages, found : 0..MaxFailures, saved : 0..MaxFailures]
      BY <1>2 DEF RunStages
    <3> QED
      BY <1>b, <1>2, <2>1, <3>1, <3>2, <3>3, OneRunInv DEF OpAwaited
  <2>3. TypeOK'
    BY <1>1, <1>2, <2>1, <2>2 DEF TypeOK, RunsInv
  <2>4. DeliveryInv'
    BY <1>1, <1>2, <2>1 DEF DeliveryInv, AtWork
  <2>5. FirstWordInv'
    BY <1>1, <1>2, <2>1 DEF FirstWordInv, EndsSession
  <2>6. KeptInv'
    BY <1>1, <1>2, <1>a, <2>1, KeptSame
  <2> QED
    BY <1>1, <2>2, <2>3, <2>4, <2>5, <2>6 DEF JobInv
<1> QED
  BY <1>4, <1>5

\* A death may tear the file that was being written, which is no terminal record unless
\* the job was handed out again.
LEMMA DeathInv ==
  ASSUME JobInv, NEW w \in Runs, ProcessDies(w)
  PROVE  JobInv' /\ (EndsSession(sessionFile) /\ sessionFile' # sessionFile => delivered > 1)
<1>1. /\ AtWork(w) /\ Dies(w) /\ BrokenOff(w) /\ UNCHANGED <<job, holder, delivered, overtaken>>
  BY DEF ProcessDies, Dies, queueVars, hisVars
<1>2. /\ RunsInv /\ DeliveryInv /\ KeptInv /\ FirstWordInv /\ TypeOK /\ StoreTypeOK
      /\ Writers = Runs /\ Runs \subseteq Nat \ {0} /\ 1 \in Runs /\ delivered \in Nat
      /\ run \in [Runs -> [at : RunStages, found : 0..MaxFailures, saved : 0..MaxFailures]]
      /\ call \in [Runs -> Calls]
  BY Deliveries DEF JobInv
<1>3. /\ run'[w].at = "dead" /\ run'[w].saved = run[w].saved
      /\ \A d \in Runs : d # w => run'[d] = run[d] /\ call'[d] = call[d]
      /\ sessionFile' \in {sessionFile, Torn} /\ failuresFile' \in {failuresFile, Torn}
  BY <1>1, <1>2 DEF Dies, Release, BrokenOff
<1>4. RunsInv'
  BY <1>1, <1>2, DiesInv
<1>5. TypeOK'
  BY <1>1, <1>2, <1>4 DEF TypeOK, RunsInv
<1>6. DeliveryInv'
  BY <1>1, <1>2, <1>3 DEF DeliveryInv, AtWork
<1>7. EndsSession(sessionFile) /\ sessionFile' # sessionFile => delivered > 1
  <2> SUFFICES ASSUME EndsSession(sessionFile), delivered <= 1, At(w, "write-session") PROVE FALSE
    BY <1>1, <1>2 DEF BrokenOff
  <2>1. w = 1
    BY <1>1, <1>2 DEF DeliveryInv, AtWork
  <2>2. call[1].op = OpAwaited(run[1].at)
    BY <1>2 DEF RunsInv, CallInv
  <2>3. /\ run[1].at \in {"finishing", "ended"}
        /\ run[1].at = "finishing" => Settled(call[1])
    BY <1>1, <1>2, <2>1 DEF FirstWordInv, AtWork
  <2>4. CASE run[1].at = "finishing"
    BY <2>1, <2>3, <2>4 DEF At, Settled
  <2>5. CASE run[1].at = "ended"
    <3>1. call[1].op = "none" /\ call[1] \in Calls
      BY <1>2, <2>2, <2>5 DEF OpAwaited
    <3> QED
      BY <2>1, <3>1, CallShape DEF NoCall, At
  <2> QED
    BY <2>3, <2>4, <2>5
<1>8. FirstWordInv'
  <2>1. EndsSession(sessionFile)' => EndsSession(sessionFile)
    BY <1>3 DEF EndsSession, ReadOk, Torn
  <2> QED
    BY <1>1, <1>2, <1>3, <2>1 DEF FirstWordInv
<1>9. KeptInv'
  <2> SUFFICES ASSUME ~overtaken PROVE KeptInv'
    BY <1>1 DEF KeptInv
  <2>1. OpenedInv'
    BY <1>1, <1>2, WhoWorksIsAlone, DiesOpened
  <2>2. \A e \in Runs : run'[e].at # "recording"
    BY <1>1, <1>2, <1>3 DEF DeliveryInv, AtWork
  <2>3. \A d \in Runs : run'[d].saved = run[d].saved
    BY <1>3
  <2> QED
    BY <1>1, <1>3, <2>1, <2>2, <2>3, KeptSame
<1> QED
  BY <1>4, <1>5, <1>6, <1>7, <1>8, <1>9 DEF JobInv

\* The queue's own steps: a lock that runs out unseen by a living process overtakes it.
LEMMA QueueInv ==
  ASSUME JobInv, LockExpires \/ Stalled
  PROVE  JobInv' /\ sessionFile' = sessionFile
<1>1. UNCHANGED <<runsVars, delivered>> /\ (overtaken => overtaken')
  <2>1. UNCHANGED <<runsVars, delivered>>
    BY DEF LockExpires, Stalled
  <2>2. overtaken => overtaken'
    BY DEF LockExpires, Stalled, hisVars, JobInv, TypeOK
  <2> QED
    BY <2>1, <2>2
<1>2. /\ RunsInv /\ DeliveryInv /\ KeptInv /\ FirstWordInv /\ TypeOK
  BY DEF JobInv
<1>3. RunsInv' /\ FirstWordInv'
  BY <1>1, <1>2 DEF runsVars, storeVars, RunsInv, StoreTypeOK, CallInv, FirstWordInv, EndsSession
<1>4. TypeOK'
  <2>1. overtaken' \in BOOLEAN
    BY <1>2 DEF TypeOK, LockExpires, Stalled, hisVars
  <2>2. /\ job' \in {"waiting", "active", "completed", "failed"} /\ holder' \in {Null, holder}
    BY <1>2 DEF TypeOK, LockExpires, Stalled
  <2> QED
    BY <1>1, <1>2, <1>3, <2>1, <2>2 DEF TypeOK, RunsInv
<1>5. DeliveryInv'
  <2>1. CASE LockExpires
    <3>1. ~overtaken' => \A d \in Runs : ~AtWork(d)
      BY <1>2, <2>1 DEF LockExpires, DeliveryInv, AtWork
    <3> QED
      BY <1>1, <1>2, <2>1, <3>1 DEF LockExpires, DeliveryInv, AtWork, runsVars
  <2>2. CASE Stalled
    BY <1>1, <1>2, <2>2 DEF Stalled, DeliveryInv, AtWork, runsVars, hisVars
  <2> QED
    BY <2>1, <2>2
<1>6. KeptInv'
  <2>1. OpenedInv => OpenedInv'
    BY <1>1, OpenedSame DEF runsVars, storeVars, files
  <2> QED
    BY <1>1, <1>2, <2>1, KeptSame DEF KeptInv, runsVars, storeVars
<1> QED
  BY <1>1, <1>3, <1>4, <1>5, <1>6 DEF JobInv, runsVars, storeVars

-----------------------------------------------------------------------------
(* What holds of every behaviour, for all values of the constants.         *)

LEMMA NextInv ==
  ASSUME JobInv, [Next]_vars
  PROVE  JobInv' /\ (EndsSession(sessionFile) /\ sessionFile' # sessionFile => delivered > 1)
<1>1. CASE UNCHANGED vars
  BY <1>1 DEF vars, runsVars, storeVars, queueVars, hisVars, JobInv, TypeOK, RunsInv, StoreTypeOK, CallInv,
              DeliveryInv, KeptInv, FirstWordInv, Kept, AtWork, At, EndsSession, OpenedInv
<1>2. CASE LockExpires \/ Stalled
  BY <1>2, QueueInv
<1>3. ASSUME NEW d \in Runs, Deliver(d) \/ SessionStep(d) \/ RepositoryStep(d) \/ Report(d) \/ ProcessDies(d)
      PROVE  JobInv' /\ (EndsSession(sessionFile) /\ sessionFile' # sessionFile => delivered > 1)
  <2>1. CASE SessionStep(d)
    BY <2>1, SessionStepInv
  <2>2. CASE RepositoryStep(d)
    BY <2>2, RepositoryInv
  <2>3. CASE Deliver(d) \/ Report(d)
    BY <2>3, ProcessorInv
  <2>4. CASE ProcessDies(d)
    BY <2>4, DeathInv
  <2> QED
    BY <1>3, <2>1, <2>2, <2>3, <2>4
<1> QED
  BY <1>1, <1>2, <1>3 DEF Next

\* The inductive invariant of a job handed out any number of times over the files of
\* its session (apps/worker/src/index.ts, filesystem-session-repository.ts).
THEOREM JobInvariant == Spec => []JobInv
<1>1. Init => JobInv
  BY InitInv
<1>2. JobInv /\ [Next]_vars => JobInv'
  BY NextInv
<1> QED
  BY <1>1, <1>2, PTL DEF Spec

\* The repository's "no locks, single-writer (the worker)" (filesystem-session-repository.ts:43)
\* is enough for any maxStalledCount, unless a living process loses its lock: one run
\* writes at a time, and failures.json keeps what it acknowledged to each of them.
THEOREM KeptAcrossDeliveries == Spec => []KeptUnlessOvertaken
<1>1. JobInv => KeptUnlessOvertaken
  BY DEF JobInv, DeliveryInv, KeptInv, KeptUnlessOvertaken
<1> QED
  BY <1>1, JobInvariant, PTL

\* A terminal record is written over by none but a run that a stalled job was handed
\* out to again: updateStatus itself would let anybody do it.
THEOREM TerminalIsLast == Spec => TerminalIsLastUnlessStalled
<1>1. JobInv /\ [Next]_vars => [EndsSession(sessionFile) /\ sessionFile' # sessionFile => delivered > 1]_vars
  BY NextInv
<1> QED
  BY <1>1, JobInvariant, PTL DEF Spec, TerminalIsLastUnlessStalled
=============================================================================
