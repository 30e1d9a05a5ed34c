--------------------------- MODULE SessionRunsProofs ---------------------------
(***************************************************************************)
(* What every step of the repository and of a run keeps, whoever starts    *)
(* the runs: the lemmas SessionSystemProofs and JobDeliveryProofs share.   *)
(***************************************************************************)
EXTENDS SessionRuns, SequenceTheorems, TLAPS

CreateStages == {"open-session", "write-session", "open-failures", "write-failures", "ok", "err"}

\* A call is a record whose session and failures suit its operation and its stage.
LEMMA CallShape ==
  ASSUME NEW c \in Calls
  PROVE  /\ c = [op |-> c.op, at |-> c.at, session |-> c.session, failures |-> c.failures]
         /\ c.op \in {"none", "create", "update", "record"}
         /\ c.op = "none" <=> c = NoCall
         /\ c.at = "read-session" => c.op = "update" /\ c.session \in Patches /\ c.failures = Null
         /\ c.at = "read-failures" => c.op = "record" /\ c.session = Null
         /\ c.at \in {"open-session", "write-session"} =>
              \/ c.op = "create" /\ c.failures = << >>
                 /\ c.session \in {NewRecord("requested"), NewRecord("default")}
              \/ c.op = "update" /\ c.failures = Null /\ c.session \in Records
         /\ c.at \in {"open-failures", "write-failures"} =>
              \/ c.op = "create" /\ c.failures = << >>
                 /\ c.session \in {NewRecord("requested"), NewRecord("default")}
              \/ c.op = "record" /\ c.failures \in Seq(Writers) /\ c.session = Null
         /\ [c EXCEPT !.at = "err"] \in Calls \/ c = NoCall
BY DEF Calls, NoCall

\* {...existing, ...patch, status}: the patch decides status and count, never the spec.
LEMMA MergeType ==
  ASSUME NEW existing \in Records, NEW patch \in Patches
  PROVE  /\ Merge(existing, patch) \in Records
         /\ Merge(existing, patch).status = patch.status
         /\ patch.status \in Terminal => Merge(existing, patch).count = patch.count
<1>1. existing = [spec |-> existing.spec, status |-> existing.status, count |-> existing.count]
  BY DEF Records
<1>2. CASE patch \in [status : {"running"}]
  <2>1. Merge(existing, patch)
          = [spec |-> existing.spec, status |-> patch.status, count |-> existing.count]
    BY <1>1, <1>2 DEF Merge
  <2> QED
    BY <1>2, <2>1 DEF Records, Terminal
<1>3. CASE patch \in [status : Terminal, count : 0..MaxFailures]
  <2>1. Merge(existing, patch)
          = [spec |-> existing.spec, status |-> patch.status, count |-> patch.count]
    BY <1>1, <1>3 DEF Merge
  <2> QED
    BY <1>3, <2>1 DEF Records, Terminal
<1> QED
  BY <1>2, <1>3 DEF Patches

\* What `finally` may write: a terminal status, and all the failures of a clean run.
LEMMA FinalPatchesType ==
  ASSUME NEW found \in 0..MaxFailures, NEW patch \in FinalPatches(found)
  PROVE  /\ patch \in Patches /\ patch.status \in Terminal
         /\ patch.status = "completed" => patch.count = found
BY RunsAssumption DEF FinalPatches, Patches, Terminal

\* A file read as JSON holds what was written to it.
LEMMA FileShape ==
  ASSUME NEW values, NEW file, IsFile(file, values)
  PROVE  /\ file.is \in {"absent", "empty", "torn", "json"}
         /\ file.is = "json" <=> file \notin {Absent, Empty, Torn}
         /\ file.is = "json" => file.value \in values /\ file = Json(file.value)
         /\ file.is = "empty" <=> file = Empty
         /\ file.is = "torn" <=> file = Torn
         /\ file.is = "absent" <=> file = Absent
BY DEF IsFile, Absent, Empty, Torn, Json

\* What an open, a write or a broken-off one leaves is a file.
LEMMA FilesLeft ==
  ASSUME NEW values
  PROVE  /\ \A file \in {Absent, Empty, Torn} : IsFile(file, values)
         /\ \A value \in values : IsFile(Json(value), values)
         /\ \A value \in values : \A w, file : \A left \in Written(w, file, value) : IsFile(left, values)
BY DEF IsFile, Absent, Empty, Torn, Json, Written

\* w is the only one with a call under way, and found its file as its open left it.
Alone(w) == OpenedInv /\ \A v \in Writers \ {w} : call[v] = NoCall

LEMMA WrittenAlone ==
  ASSUME NEW w \in Writers, Alone(w), NEW content
  PROVE  /\ At(w, "write-session") => Written(w, sessionFile, content) = {Json(content)}
         /\ At(w, "write-failures") => Written(w, failuresFile, content) = {Json(content)}
<1>1. \A v \in Writers \ {w} : call[v].at = "idle"
  BY DEF Alone, NoCall
<1>2. ASSUME NEW stage \in {"write-session", "write-failures"}, call[w].at = stage
      PROVE  \A v \in Writers \ {w} : call[v].at # call[w].at
  BY <1>1, <1>2
<1> QED
  BY <1>2 DEF Alone, OpenedInv, At, Written

\* A process that dies, or whose call fails, leaves files.
LEMMA BrokenOffFiles ==
  ASSUME StoreTypeOK, NEW w, BrokenOff(w)
  PROVE  IsFile(sessionFile', Records) /\ IsFile(failuresFile', Seq(Writers))
<1>1. sessionFile' \in {sessionFile, Torn} /\ failuresFile' \in {failuresFile, Torn}
  BY DEF BrokenOff
<1> QED
  BY <1>1, FilesLeft DEF StoreTypeOK

\* Of all that is said of calls, a system call of the repository disturbs only what
\* it does to the one that awaits it.
LEMMA StoreStepEffect ==
  ASSUME StoreTypeOK, NEW w \in Writers, StoreStep(w)
  PROVE  /\ \E c \in Calls :
              /\ call' = [call EXCEPT ![w] = c] /\ c.op = call[w].op /\ c # NoCall
              /\ call[w].op = "update" => /\ c.session.status = call[w].session.status
                                          /\ c.session.status \in Terminal =>
                                               c.session.count = call[w].session.count
         /\ call[w] # NoCall /\ ~Settled(call[w])
         /\ IsFile(sessionFile', Records) /\ IsFile(failuresFile', Seq(Writers))
<1> DEFINE b == call[w]
<1>1. /\ b \in Calls /\ call \in [Writers -> Calls]
      /\ IsFile(sessionFile, Records) /\ IsFile(failuresFile, Seq(Writers))
  BY DEF StoreTypeOK
<1>2. /\ b = [op |-> b.op, at |-> b.at, session |-> b.session, failures |-> b.failures]
      /\ b.op = "none" <=> b = NoCall
      /\ b.at = "read-session" => b.op = "update" /\ b.session \in Patches /\ b.failures = Null
      /\ b.at = "read-failures" => b.op = "record" /\ b.session = Null
      /\ b.at \in {"open-session", "write-session"} =>
           \/ b.op = "create" /\ b.failures = << >>
              /\ b.session \in {NewRecord("requested"), NewRecord("default")}
           \/ b.op = "update" /\ b.failures = Null /\ b.session \in Records
      /\ b.at \in {"open-failures", "write-failures"} =>
           \/ b.op = "create" /\ b.failures = << >>
              /\ b.session \in {NewRecord("requested"), NewRecord("default")}
           \/ b.op = "record" /\ b.failures \in Seq(Writers) /\ b.session = Null
  BY <1>1, CallShape
<1>3. \A stage : Goto(w, stage) => call' = [call EXCEPT ![w] = [b EXCEPT !.at = stage]]
  BY <1>1 DEF Goto
<1> DEFINE moved(stage) == [op |-> b.op, at |-> stage, session |-> b.session, failures |-> b.failures]
           Effect(c) == /\ c \in Calls /\ c # NoCall
                        /\ call' = [call EXCEPT ![w] = c] /\ c.op = b.op
                        /\ b.op = "update" => /\ c.session.status = b.session.status
                                              /\ c.session.status \in Terminal =>
                                                   c.session.count = b.session.count
<1>4. \A stage : Goto(w, stage) => call' = [call EXCEPT ![w] = moved(stage)]
  BY <1>2, <1>3
<1>5. NewRecord("requested") \in Records /\ NewRecord("default") \in Records /\ << >> \in Seq(Writers)
  BY RunsAssumption DEF NewRecord, Records
<1> SUFFICES /\ \E c : Effect(c)
             /\ b # NoCall /\ ~Settled(b)
             /\ IsFile(sessionFile', Records) /\ IsFile(failuresFile', Seq(Writers))
  BY Zenon DEF Effect
<1> HIDE DEF b, moved, Effect
<1>6. CASE ReadSession(w)
  <2>1. b.at = "read-session" /\ UNCHANGED <<sessionFile, failuresFile>>
    BY <1>6 DEF ReadSession, At, b
  <2>2. CASE sessionFile.is = "json"
    <3> DEFINE merged == Merge(sessionFile.value, b.session)
               c == [op |-> b.op, at |-> "open-session", session |-> merged, failures |-> b.failures]
    <3>1. call' = [call EXCEPT ![w] = c]
      BY <1>6, <1>1, <1>2, <2>2 DEF ReadSession, b
    <3>2. /\ merged \in Records /\ merged.status = b.session.status
          /\ b.session.status \in Terminal => merged.count = b.session.count
      BY <1>1, <1>2, <2>1, <2>2, FileShape, MergeType
    <3> HIDE DEF merged
    <3>3. Effect(c)
      BY <1>2, <2>1, <3>1, <3>2 DEF Effect, moved, Calls, NoCall
    <3> QED
      BY <1>1, <1>2, <2>1, <3>3 DEF Settled, NoCall
  <2>3. CASE sessionFile.is # "json"
    <3>1. Goto(w, "err")
      BY <1>6, <2>3 DEF ReadSession
    <3>2. Effect(moved("err"))
      BY <1>2, <1>4, <2>1, <3>1 DEF Effect, moved, Calls, NoCall
    <3> QED
      BY <1>1, <2>1, <3>2 DEF Settled, NoCall
  <2> QED
    BY <2>2, <2>3
<1>7. CASE ReadFailures(w)
  <2>1. b.at = "read-failures" /\ UNCHANGED <<sessionFile, failuresFile>>
    BY <1>7 DEF ReadFailures, At, b
  <2>2. CASE failuresFile \in {Empty, Torn}
    <3>1. Goto(w, "err")
      BY <1>7, <2>2 DEF ReadFailures
    <3>2. Effect(moved("err"))
      BY <1>1, <1>2, <1>4, <2>1, <3>1 DEF Effect, moved, Calls, NoCall
    <3> QED
      BY <1>1, <2>1, <3>2 DEF Settled, NoCall
  <2>3. CASE failuresFile \notin {Empty, Torn}
    <3> DEFINE list == Append(IF failuresFile = Absent THEN << >> ELSE failuresFile.value, w)
               c == [op |-> b.op, at |-> "open-failures", session |-> b.session, failures |-> list]
    <3>1. call' = [call EXCEPT ![w] = c]
      BY <1>7, <1>1, <1>2, <2>3 DEF ReadFailures, b
    <3>2. list \in Seq(Writers)
      BY <1>1, <2>3, FileShape
    <3> HIDE DEF list
    <3>3. Effect(c)
      BY <1>2, <2>1, <3>1, <3>2 DEF Effect, moved, Calls, NoCall
    <3> QED
      BY <1>1, <2>1, <3>3 DEF Settled, NoCall
  <2> QED
    BY <2>2, <2>3
<1>8. CASE OpenSession(w)
  <2>1. /\ b.at = "open-session" /\ Goto(w, "write-session")
        /\ sessionFile' = Empty /\ failuresFile' = failuresFile
    BY <1>8 DEF OpenSession, At, b
  <2>2. Effect(moved("write-session"))
    BY <1>2, <1>4, <2>1 DEF Effect, moved, Calls, NoCall
  <2> QED
    BY <1>1, <2>1, <2>2 DEF Settled, NoCall, IsFile
<1>9. CASE WriteSession(w)
  <2>1. /\ b.at = "write-session" /\ Goto(w, IF b.op = "create" THEN "open-failures" ELSE "ok")
        /\ sessionFile' \in Written(w, sessionFile, b.session) /\ failuresFile' = failuresFile
    BY <1>9 DEF WriteSession, At, b
  <2>2. Effect(moved(IF b.op = "create" THEN "open-failures" ELSE "ok"))
    BY <1>2, <1>4, <2>1 DEF Effect, moved, Calls, NoCall
  <2>3. b.session \in Records
    BY <1>2, <1>5, <2>1
  <2> QED
    BY <1>1, <2>1, <2>2, <2>3, FilesLeft DEF Settled, NoCall
<1>10. CASE OpenFailures(w)
  <2>1. /\ b.at = "open-failures" /\ Goto(w, "write-failures")
        /\ sessionFile' = sessionFile /\ failuresFile' = Empty
    BY <1>10 DEF OpenFailures, At, b
  <2>2. Effect(moved("write-failures"))
    BY <1>2, <1>4, <2>1 DEF Effect, moved, Calls, NoCall
  <2> QED
    BY <1>1, <2>1, <2>2 DEF Settled, NoCall, IsFile
<1>11. CASE WriteFailures(w)
  <2>1. /\ b.at = "write-failures" /\ Goto(w, "ok")
        /\ sessionFile' = sessionFile /\ failuresFile' \in Written(w, failuresFile, b.failures)
    BY <1>11 DEF WriteFailures, At, b
  <2>2. Effect(moved("ok"))
    BY <1>2, <1>4, <2>1 DEF Effect, moved, Calls, NoCall
  <2>3. b.failures \in Seq(Writers)
    BY <1>2, <1>5, <2>1
  <2>4. IsFile(failuresFile', Seq(Writers))
    <3> DEFINE lists == Seq(Writers)
    <3>1. b.failures \in lists
      BY <2>3
    <3> HIDE DEF lists
    <3>2. IsFile(failuresFile', lists)
      BY <2>1, <3>1, FilesLeft
    <3> QED
      BY <3>2 DEF lists
  <2> QED
    BY <1>1, <2>1, <2>2, <2>4 DEF Settled, NoCall
<1>12. CASE DiskFails(w)
  <2>1. b # NoCall /\ ~Settled(b) /\ Goto(w, "err") /\ BrokenOff(w)
    BY <1>12 DEF DiskFails, b
  <2>2. moved("err") \in Calls
    BY <1>1, <2>1 DEF Calls, NoCall, b, moved
  <2>3. Effect(moved("err"))
    BY <1>2, <1>4, <2>1, <2>2 DEF Effect, moved, NoCall
  <2> QED
    BY <2>1, <2>3, BrokenOffFiles
<1> QED
  BY <1>6, <1>7, <1>8, <1>9, <1>10, <1>11, <1>12 DEF StoreStep

\* What a call before and after a system call, b and c, and the files show of it.
files == <<sessionFile, failuresFile>>
Listed == IF failuresFile = Absent THEN << >> ELSE failuresFile.value

SessionWasRead(b, c) ==
  b.op = "update" /\ c.at \in {"open-session", "err"} /\ UNCHANGED files
FailuresWereRead(b, c, w) ==
  /\ b.op = "record" /\ b.at = "read-failures" /\ c.at = "open-failures" /\ UNCHANGED files
  /\ failuresFile \notin {Empty, Torn} /\ c.failures = Append(Listed, w)
SessionWasOpened(b, c) ==
  /\ b.op \in {"create", "update"} /\ c.at = "write-session"
  /\ sessionFile' = Empty /\ UNCHANGED failuresFile
SessionWasWritten(b, c, w) ==
  /\ b.session \in Records /\ UNCHANGED failuresFile
  /\ sessionFile' \in {Json(b.session), Torn} /\ (Alone(w) => sessionFile' = Json(b.session))
  /\ \/ b.op = "create" /\ b.session.status = "queued" /\ c.at = "open-failures"
     \/ b.op = "update" /\ c.at = "ok"
FailuresWereOpened(b, c) ==
  /\ b.op \in {"create", "record"} /\ b.at = "open-failures" /\ c.at = "write-failures"
  /\ c.failures = b.failures
  /\ failuresFile' = Empty /\ UNCHANGED sessionFile
FailuresWereWritten(b, c, w) ==
  /\ b.op \in {"create", "record"} /\ b.at = "write-failures" /\ c.at = "ok"
  /\ c.failures = b.failures /\ b.failures \in Seq(Writers) /\ (b.op = "create" => b.failures = << >>)
  /\ failuresFile' \in {Json(b.failures), Torn} /\ (Alone(w) => failuresFile' = Json(b.failures))
  /\ UNCHANGED sessionFile
CallFailed(c) ==
  c.at = "err" /\ sessionFile' \in {sessionFile, Torn} /\ failuresFile' \in {failuresFile, Torn}

\* Every system call is one of these, and moves no other call.
LEMMA StoreStepCases ==
  ASSUME StoreTypeOK, NEW w \in Writers, StoreStep(w)
  PROVE  /\ call'[w] \in Calls /\ call'[w].op = call[w].op
         /\ \A v \in Writers : v # w => call'[v] = call[v]
         /\ \/ SessionWasRead(call[w], call'[w])
            \/ FailuresWereRead(call[w], call'[w], w)
            \/ SessionWasOpened(call[w], call'[w])
            \/ SessionWasWritten(call[w], call'[w], w)
            \/ FailuresWereOpened(call[w], call'[w])
            \/ FailuresWereWritten(call[w], call'[w], w)
            \/ CallFailed(call'[w])
<1> DEFINE b == call[w]
           moved(stage) == [op |-> b.op, at |-> stage, session |-> b.session, failures |-> b.failures]
<1>1. PICK c \in Calls : call' = [call EXCEPT ![w] = c] /\ c.op = b.op
  BY StoreStepEffect
<1>2. w \in DOMAIN call /\ b \in Calls
  BY DEF StoreTypeOK
<1>3. c = call'[w] /\ \A v \in Writers : v # w => call'[v] = call[v]
  BY <1>1, <1>2 DEF StoreTypeOK
<1>4. /\ b = [op |-> b.op, at |-> b.at, session |-> b.session, failures |-> b.failures]
      /\ b.at = "read-session" => b.op = "update"
      /\ b.at = "read-failures" => b.op = "record"
      /\ b.at \in {"open-session", "write-session"} =>
           \/ b.op = "create" /\ b.session \in {NewRecord("requested"), NewRecord("default")}
           \/ b.op = "update" /\ b.session \in Records
      /\ b.at \in {"open-failures", "write-failures"} =>
           \/ b.op = "create" /\ b.failures = << >>
           \/ b.op = "record" /\ b.failures \in Seq(Writers)
  BY <1>2, CallShape
<1>5. ASSUME NEW stage, Goto(w, stage) PROVE c = moved(stage)
  BY <1>2, <1>3, <1>4, <1>5 DEF Goto
<1>6. /\ NewRecord("requested") \in Records /\ NewRecord("default") \in Records
      /\ NewRecord("requested").status = "queued" /\ NewRecord("default").status = "queued"
      /\ << >> \in Seq(Writers)
  BY RunsAssumption DEF NewRecord, Records
<1> SUFFICES \/ SessionWasRead(b, c) \/ FailuresWereRead(b, c, w) \/ SessionWasOpened(b, c)
             \/ SessionWasWritten(b, c, w) \/ FailuresWereOpened(b, c)
             \/ FailuresWereWritten(b, c, w)
             \/ CallFailed(c)
  BY <1>1, <1>3
<1> HIDE DEF b
<1>7. CASE ReadSession(w)
  <2>1. b.at = "read-session" /\ UNCHANGED files
    BY <1>7 DEF ReadSession, At, b, files
  <2>2. c.at \in {"open-session", "err"}
    <3>1. CASE Goto(w, "err")
      <4>1. c = moved("err")
        BY <1>5, <3>1
      <4> QED
        BY <4>1
    <3>2. CASE sessionFile.is = "json"
      BY <1>2, <1>3, <1>4, <1>7, <3>2 DEF ReadSession, b
    <3> QED
      BY <1>7, <3>1, <3>2 DEF ReadSession
  <2> QED
    BY <1>4, <2>1, <2>2 DEF SessionWasRead
<1>8. CASE ReadFailures(w)
  <2>1. b.at = "read-failures" /\ UNCHANGED files
    BY <1>8 DEF ReadFailures, At, b, files
  <2>2. CASE failuresFile \in {Empty, Torn}
    <3>1. c = moved("err")
      BY <1>5, <1>8, <2>2 DEF ReadFailures
    <3> QED
      BY <2>1, <3>1 DEF CallFailed, files
  <2>3. CASE failuresFile \notin {Empty, Torn}
    <3>1. c.at = "open-failures" /\ c.failures = Append(Listed, w)
      BY <1>2, <1>3, <1>4, <1>8, <2>3 DEF ReadFailures, Listed, b
    <3> QED
      BY <1>4, <2>1, <2>3, <3>1 DEF FailuresWereRead
  <2> QED
    BY <2>2, <2>3
<1>9. CASE OpenSession(w)
  <2>1. b.at = "open-session" /\ Goto(w, "write-session") /\ sessionFile' = Empty /\ UNCHANGED failuresFile
    BY <1>9 DEF OpenSession, At, b
  <2>2. c = moved("write-session")
    BY <1>5, <2>1
  <2> QED
    BY <1>4, <2>1, <2>2 DEF SessionWasOpened
<1>10. CASE WriteSession(w)
  <2>1. /\ b.at = "write-session" /\ Goto(w, IF b.op = "create" THEN "open-failures" ELSE "ok")
        /\ sessionFile' \in Written(w, sessionFile, b.session) /\ UNCHANGED failuresFile
    BY <1>10 DEF WriteSession, At, b
  <2>2. c = moved(IF b.op = "create" THEN "open-failures" ELSE "ok")
    BY <1>5, <2>1
  <2>3. /\ sessionFile' \in {Json(b.session), Torn}
        /\ Alone(w) => sessionFile' = Json(b.session)
    <3>1. At(w, "write-session")
      BY <2>1 DEF At, b
    <3> QED
      BY <2>1, <3>1, WrittenAlone DEF Written
  <2> QED
    BY <1>4, <1>6, <2>1, <2>2, <2>3 DEF SessionWasWritten
<1>11. CASE OpenFailures(w)
  <2>1. /\ b.at = "open-failures" /\ Goto(w, "write-failures")
        /\ failuresFile' = Empty /\ UNCHANGED sessionFile
    BY <1>11 DEF OpenFailures, At, b
  <2>2. c = moved("write-failures")
    BY <1>5, <2>1
  <2> QED
    BY <1>4, <2>1, <2>2 DEF FailuresWereOpened
<1>12. CASE WriteFailures(w)
  <2>1. /\ b.at = "write-failures" /\ Goto(w, "ok")
        /\ failuresFile' \in Written(w, failuresFile, b.failures) /\ UNCHANGED sessionFile
    BY <1>12 DEF WriteFailures, At, b
  <2>2. c = moved("ok")
    BY <1>5, <2>1
  <2>3. /\ failuresFile' \in {Json(b.failures), Torn}
        /\ Alone(w) => failuresFile' = Json(b.failures)
    <3>1. At(w, "write-failures")
      BY <2>1 DEF At, b
    <3> QED
      BY <2>1, <3>1, WrittenAlone DEF Written
  <2> QED
    BY <1>4, <1>6, <2>1, <2>2, <2>3 DEF FailuresWereWritten
<1>13. CASE DiskFails(w)
  <2>1. Goto(w, "err") /\ sessionFile' \in {sessionFile, Torn} /\ failuresFile' \in {failuresFile, Torn}
    BY <1>13 DEF DiskFails, BrokenOff
  <2>2. c = moved("err")
    BY <1>5, <2>1
  <2> QED
    BY <2>1, <2>2 DEF CallFailed
<1> QED
  BY <1>7, <1>8, <1>9, <1>10, <1>11, <1>12, <1>13 DEF StoreStep

\* So every such call keeps RunsInv, whoever awaits it.
LEMMA StoreStepInv ==
  ASSUME RunsInv, NEW w \in Writers, StoreStep(w), UNCHANGED run
  PROVE  RunsInv'
<1>0. StoreTypeOK
  BY DEF RunsInv
<1>1. PICK c \in Calls :
        /\ call' = [call EXCEPT ![w] = c] /\ c.op = call[w].op
        /\ call[w].op = "update" => /\ c.session.status = call[w].session.status
                                    /\ c.session.status \in Terminal =>
                                         c.session.count = call[w].session.count
  BY <1>0, StoreStepEffect
<1>2. StoreTypeOK'
  BY <1>1, StoreStepEffect DEF RunsInv, StoreTypeOK
<1>3. ASSUME NEW v \in Runs PROVE CallInv(v)'
  <2>1. CallInv(v) /\ call[v] \in Calls /\ w \in DOMAIN call
    BY RunsAssumption DEF RunsInv, StoreTypeOK
  <2>2. CASE v # w
    <3>1. call'[v] = call[v]
      BY <1>1, <2>2
    <3> QED
      BY <2>1, <3>1 DEF CallInv
  <2>3. CASE v = w
    <3>1. call'[v] = c
      BY <1>1, <2>1, <2>3
    <3> QED
      BY <1>1, <2>1, <2>3, <3>1 DEF CallInv, OpAwaited
  <2> QED
    BY <2>2, <2>3
<1> QED
  BY <1>2, <1>3 DEF RunsInv

\* A step of one run that starts or takes the result of a call.
LEMMA OneRunInv ==
  ASSUME RunsInv, NEW w \in Runs, NEW c \in Calls,
         NEW r \in [at : RunStages, found : 0..MaxFailures, saved : 0..MaxFailures],
         call' = [call EXCEPT ![w] = c], run' = [run EXCEPT ![w] = r],
         IsFile(sessionFile', Records), IsFile(failuresFile', Seq(Writers)),
         r.saved <= r.found, c.op = OpAwaited(r.at),
         r.at = "starting" => c.session.status = "running",
         r.at = "finishing" => /\ c.session.status \in Terminal
                               /\ c.session.status = "completed" => c.session.count = r.found,
         r.at = "recording" => r.found < MaxFailures,
         r.at \in {"none", "boot", "creating", "created", "starting"} => r.found = 0
  PROVE  RunsInv'
<1>1. w \in Writers /\ call \in [Writers -> Calls] /\ call'[w] = c /\ run'[w] = r
  BY RunsAssumption DEF RunsInv, StoreTypeOK
<1>2. StoreTypeOK'
  BY <1>1 DEF RunsInv, StoreTypeOK
<1>3. ASSUME NEW v \in Runs PROVE CallInv(v)'
  <2>1. CASE v # w
    BY <2>1, RunsAssumption DEF RunsInv, StoreTypeOK, CallInv
  <2>2. CASE v = w
    BY <2>2, <1>1 DEF CallInv
  <2> QED
    BY <2>1, <2>2
<1> QED
  BY <1>2, <1>3 DEF RunsInv

LEMMA RunStepInv ==
  ASSUME RunsInv, NEW w \in Runs, RunStep(w)
  PROVE  RunsInv'
<1>1. /\ w \in Writers /\ call[w] \in Calls /\ CallInv(w)
      /\ call \in [Writers -> Calls]
      /\ run[w] \in [at : RunStages, found : 0..MaxFailures, saved : 0..MaxFailures]
      /\ run \in [Runs -> [at : RunStages, found : 0..MaxFailures, saved : 0..MaxFailures]]
      /\ run[w].saved <= run[w].found
      /\ UNCHANGED <<sessionFile, failuresFile>> =>
           IsFile(sessionFile', Records) /\ IsFile(failuresFile', Seq(Writers))
  BY RunsAssumption DEF RunsInv, StoreTypeOK
<1> DEFINE at(stage) == [at |-> stage, found |-> run[w].found, saved |-> run[w].saved]
<1>2. \A from, to : Moves(w, from, to) => run' = [run EXCEPT ![w] = at(to)] /\ run[w].at = from
  BY <1>1 DEF Moves
<1>3. /\ \A patch : UpdateStatus(w, patch) =>
           /\ call' = [call EXCEPT ![w] = [op |-> "update", at |-> "read-session",
                                           session |-> patch, failures |-> Null]]
           /\ UNCHANGED <<sessionFile, failuresFile>>
      /\ RecordFailure(w) =>
           /\ call' = [call EXCEPT ![w] = [op |-> "record", at |-> "read-failures",
                                           session |-> Null, failures |-> Null]]
           /\ UNCHANGED <<sessionFile, failuresFile>>
      /\ Release(w) => call' = [call EXCEPT ![w] = NoCall]
  BY DEF UpdateStatus, RecordFailure, Release
<1>4. NoCall \in Calls /\ NoCall.op = "none"
  BY DEF Calls, NoCall
<1>5. \A stage \in RunStages :
        at(stage) \in [at : RunStages, found : 0..MaxFailures, saved : 0..MaxFailures]
  BY <1>1
<1>6. CASE MarkRunning(w)
  <2> DEFINE patch == [status |-> "running"]
             c == [op |-> "update", at |-> "read-session", session |-> patch, failures |-> Null]
  <2>1. /\ run' = [run EXCEPT ![w] = at("starting")] /\ run[w].at = "created"
        /\ call' = [call EXCEPT ![w] = c] /\ UNCHANGED <<sessionFile, failuresFile>>
    BY <1>2, <1>3, <1>6 DEF MarkRunning
  <2>2. c \in Calls
    BY DEF Calls, Patches
  <2> QED
    BY <1>1, <1>5, <2>1, <2>2, OneRunInv DEF CallInv, OpAwaited, RunStages, ProtocolStages
<1>7. CASE Marked(w)
  <2>1. /\ run' = [run EXCEPT ![w] = at("running")] /\ run[w].at = "starting"
        /\ call' = [call EXCEPT ![w] = NoCall] /\ UNCHANGED <<sessionFile, failuresFile>>
    BY <1>2, <1>3, <1>7 DEF Marked
  <2> QED
    BY <1>1, <1>4, <1>5, <2>1, OneRunInv DEF OpAwaited, RunStages, ProtocolStages
<1>8. CASE FindFailure(w)
  <2> DEFINE c == [op |-> "record", at |-> "read-failures", session |-> Null, failures |-> Null]
  <2>1. /\ run' = [run EXCEPT ![w] = at("recording")] /\ run[w].found < MaxFailures
        /\ call' = [call EXCEPT ![w] = c] /\ UNCHANGED <<sessionFile, failuresFile>>
    BY <1>2, <1>3, <1>8 DEF FindFailure
  <2>2. c \in Calls
    BY DEF Calls
  <2> QED
    BY <1>1, <1>5, <2>1, <2>2, OneRunInv DEF OpAwaited, RunStages, ProtocolStages
<1>9. CASE CountFailure(w)
  <2> DEFINE r == [at |-> "running", found |-> run[w].found + 1,
                   saved |-> IF At(w, "ok") THEN run[w].saved + 1 ELSE run[w].saved]
  <2>1. /\ run' = [run EXCEPT ![w] = r] /\ run[w].at = "recording"
        /\ call' = [call EXCEPT ![w] = NoCall] /\ UNCHANGED <<sessionFile, failuresFile>>
    BY <1>1, <1>3, <1>9 DEF CountFailure
  <2>2. r \in [at : RunStages, found : 0..MaxFailures, saved : 0..MaxFailures] /\ r.saved <= r.found
    BY <1>1, <2>1, RunsAssumption DEF CallInv, RunStages, ProtocolStages
  <2> QED
    BY <1>1, <1>4, <2>1, <2>2, OneRunInv DEF OpAwaited
<1>10. CASE Finish(w)
  <2>1. PICK patch \in FinalPatches(run[w].found) : UpdateStatus(w, patch)
    BY <1>10 DEF Finish
  <2> DEFINE c == [op |-> "update", at |-> "read-session", session |-> patch, failures |-> Null]
  <2>2. /\ run' = [run EXCEPT ![w] = at("finishing")]
        /\ call' = [call EXCEPT ![w] = c] /\ UNCHANGED <<sessionFile, failuresFile>>
    BY <1>2, <1>3, <1>10, <2>1 DEF Finish
  <2>3. /\ patch \in Patches /\ patch.status \in Terminal
        /\ patch.status = "completed" => patch.count = run[w].found
    BY <1>1, FinalPatchesType
  <2>4. c \in Calls
    BY <2>3 DEF Calls
  <2> QED
    BY <1>1, <1>5, <2>2, <2>3, <2>4, OneRunInv DEF OpAwaited, RunStages, ProtocolStages
<1>11. CASE End(w)
  <2>1. /\ run' = [run EXCEPT ![w] = at("ended")]
        /\ call' = [call EXCEPT ![w] = NoCall] /\ UNCHANGED <<sessionFile, failuresFile>>
    BY <1>2, <1>3, <1>11 DEF End
  <2> QED
    BY <1>1, <1>4, <1>5, <2>1, OneRunInv DEF OpAwaited, RunStages, ProtocolStages
<1> QED
  BY <1>6, <1>7, <1>8, <1>9, <1>10, <1>11 DEF RunStep

\* What a run's own step shows of it: it goes on to its next stage, and only a failure
\* found or counted concerns failures.json.
Advanced(r, s, b, c) ==
  /\ s.found = r.found /\ s.saved = r.saved
  /\ \/ r.at = "created" /\ s.at = "starting"
     \/ r.at = "starting" /\ s.at = "running"
     \/ r.at = "running" /\ s.at = "finishing" /\ ~Settled(c)
     \/ r.at = "finishing" /\ s.at = "ended" /\ Settled(b)
FailureWasFound(r, s, c) ==
  /\ r.at = "running" /\ s.at = "recording" /\ s.found = r.found /\ s.saved = r.saved
  /\ c.at = "read-failures"
FailureWasCounted(r, s, b) ==
  /\ r.at = "recording" /\ s.at = "running" /\ Settled(b)
  /\ s.found = r.found + 1 /\ s.saved = IF b.at = "ok" THEN r.saved + 1 ELSE r.saved

LEMMA RunStepCases ==
  ASSUME RunsInv, NEW w \in Runs, RunStep(w)
  PROVE  /\ UNCHANGED files
         /\ \A v \in Runs : v # w => run'[v] = run[v]
         /\ \A v \in Writers : v # w => call'[v] = call[v]
         /\ \/ Advanced(run[w], run'[w], call[w], call'[w])
            \/ FailureWasFound(run[w], run'[w], call'[w])
            \/ FailureWasCounted(run[w], run'[w], call[w])
<1>1. /\ w \in Writers /\ call \in [Writers -> Calls]
      /\ run \in [Runs -> [at : RunStages, found : 0..MaxFailures, saved : 0..MaxFailures]]
  BY RunsAssumption DEF RunsInv, StoreTypeOK
<1>2. \A from, to : Moves(w, from, to) =>
        /\ run[w].at = from /\ run'[w].at = to
        /\ run'[w].found = run[w].found /\ run'[w].saved = run[w].saved
        /\ \A v \in Runs : v # w => run'[v] = run[v]
  BY <1>1 DEF Moves
<1>3. /\ \A patch : UpdateStatus(w, patch) =>
           /\ UNCHANGED files /\ call'[w].at = "read-session"
           /\ \A v \in Writers : v # w => call'[v] = call[v]
      /\ RecordFailure(w) =>
           /\ UNCHANGED files /\ call'[w].at = "read-failures"
           /\ \A v \in Writers : v # w => call'[v] = call[v]
      /\ Release(w) => \A v \in Writers : v # w => call'[v] = call[v]
  BY <1>1 DEF UpdateStatus, RecordFailure, Release, files
<1>4. CASE MarkRunning(w)
  BY <1>2, <1>3, <1>4 DEF MarkRunning, Advanced
<1>5. CASE Marked(w)
  BY <1>2, <1>3, <1>5 DEF Marked, Advanced, files
<1>6. CASE FindFailure(w)
  BY <1>2, <1>3, <1>6 DEF FindFailure, FailureWasFound
<1>7. CASE CountFailure(w)
  BY <1>1, <1>3, <1>7 DEF CountFailure, FailureWasCounted, files, At
<1>8. CASE Finish(w)
  <2>1. PICK patch \in FinalPatches(run[w].found) : UpdateStatus(w, patch)
    BY <1>8 DEF Finish
  <2>2. call'[w].at = "read-session" /\ UNCHANGED files
        /\ \A v \in Writers : v # w => call'[v] = call[v]
    BY <1>3, <2>1
  <2> QED
    BY <1>2, <1>8, <2>2 DEF Finish, Advanced, Settled
<1>9. CASE End(w)
  BY <1>2, <1>3, <1>9 DEF End, Advanced, files
<1> QED
  BY <1>4, <1>5, <1>6, <1>7, <1>8, <1>9 DEF RunStep

LEMMA DiesInv ==
  ASSUME RunsInv, NEW w \in Runs, Dies(w)
  PROVE  RunsInv'
<1> DEFINE r == [at |-> "dead", found |-> run[w].found, saved |-> run[w].saved]
<1>1. run[w] \in [at : RunStages, found : 0..MaxFailures, saved : 0..MaxFailures]
      /\ run[w].saved <= run[w].found
      /\ run \in [Runs -> [at : RunStages, found : 0..MaxFailures, saved : 0..MaxFailures]]
  BY DEF RunsInv, StoreTypeOK
<1>2. /\ run' = [run EXCEPT ![w] = r] /\ call' = [call EXCEPT ![w] = NoCall]
  <2>1. [run[w] EXCEPT !.at = "dead"] = r
    BY <1>1
  <2> QED
    BY <2>1 DEF Dies, Release
<1>3. r \in [at : RunStages, found : 0..MaxFailures, saved : 0..MaxFailures]
  BY <1>1 DEF RunStages
<1>4. NoCall \in Calls /\ NoCall.op = "none"
  BY DEF Calls, NoCall
<1>5. IsFile(sessionFile', Records) /\ IsFile(failuresFile', Seq(Writers))
  BY BrokenOffFiles DEF Dies, RunsInv
<1> QED
  BY <1>1, <1>2, <1>3, <1>4, <1>5, OneRunInv DEF OpAwaited

\* Who has the files to itself finds them as it left them.
LEMMA OpenedSame ==
  ASSUME OpenedInv, UNCHANGED files,
         \A v \in Writers : call'[v] = call[v] \/ call'[v].at \notin {"write-session", "write-failures"}
  PROVE  OpenedInv'
BY DEF OpenedInv, At, files

LEMMA StoreStepOpened ==
  ASSUME StoreTypeOK, NEW w \in Writers, StoreStep(w), Alone(w)
  PROVE  OpenedInv'
<1>1. /\ \A v \in Writers : v # w => call'[v] = NoCall
      /\ \/ SessionWasRead(call[w], call'[w])
         \/ FailuresWereRead(call[w], call'[w], w)
         \/ SessionWasOpened(call[w], call'[w])
         \/ SessionWasWritten(call[w], call'[w], w)
         \/ FailuresWereOpened(call[w], call'[w])
         \/ FailuresWereWritten(call[w], call'[w], w)
         \/ CallFailed(call'[w])
  BY StoreStepCases DEF Alone
<1>2. \A v \in Writers : v # w => call'[v].at = "idle"
  BY <1>1 DEF NoCall
<1>3. /\ call'[w].at = "write-session" => sessionFile' = Empty
      /\ call'[w].at = "write-failures" => failuresFile' = Empty
  BY <1>1
  DEF SessionWasRead, FailuresWereRead, SessionWasOpened, SessionWasWritten, FailuresWereOpened,
      FailuresWereWritten, CallFailed
<1> QED
  BY <1>2, <1>3 DEF OpenedInv, At

LEMMA DiesOpened ==
  ASSUME StoreTypeOK, NEW w \in Writers, Dies(w), Alone(w)
  PROVE  OpenedInv'
<1>1. \A v \in Writers : call'[v] = NoCall
  BY DEF Dies, Release, Alone, StoreTypeOK
<1> QED
  BY <1>1 DEF OpenedInv, At, NoCall
=============================================================================
