---------------------------- MODULE SessionStore ----------------------------
(***************************************************************************)
(* FilesystemSessionRepository (packages/storage/src/                      *)
(* filesystem-session-repository.ts) for one session, at the grain of its  *)
(* file system calls.  writeFile truncates the file it opens and fills it  *)
(* afterwards: in between the file is empty.  A write that is broken off,  *)
(* or that meets another one of the same file, may leave it torn for good. *)
(* JSON.parse rejects both.                                                *)
(***************************************************************************)
EXTENDS Domain, Sequences

CONSTANTS Writers,       \* processes that hold a repository
          DiskMayFail    \* whether open, write or read may fail

VARIABLES sessionFile,   \* session.json
          failuresFile,  \* failures.json, each failure the process that recorded it
          call           \* the repository call each process awaits

storeVars == <<sessionFile, failuresFile, call>>

Absent == [is |-> "absent", value |-> Null]
Empty == [is |-> "empty", value |-> Null]
Torn == [is |-> "torn", value |-> Null]
Json(value) == [is |-> "json", value |-> value]

NoCall == [op |-> "none", at |-> "idle", session |-> Null, failures |-> Null]

Settled(c) == c.at \in {"ok", "err"}

StoreInit ==
  /\ sessionFile = Absent /\ failuresFile = Absent
  /\ call = [w \in Writers |-> NoCall]

At(w, stage) == call[w].at = stage

Goto(w, stage) == call' = [call EXCEPT ![w].at = stage]

NewRecord(spec) == [spec |-> spec, status |-> "queued", count |-> 0]

\* create(spec): session.json, then failures.json.
Create(w, spec) ==
  /\ call[w] = NoCall
  /\ call' = [call EXCEPT ![w] = [op |-> "create", at |-> "open-session",
                                  session |-> NewRecord(spec), failures |-> << >>]]
  /\ UNCHANGED <<sessionFile, failuresFile>>

\* updateStatus(id, status, patch); patch holds the fields that replace the old ones.
UpdateStatus(w, patch) ==
  /\ call[w] = NoCall
  /\ call' = [call EXCEPT ![w] = [op |-> "update", at |-> "read-session",
                                  session |-> patch, failures |-> Null]]
  /\ UNCHANGED <<sessionFile, failuresFile>>

RecordFailure(w) ==
  /\ call[w] = NoCall
  /\ call' = [call EXCEPT ![w] = [op |-> "record", at |-> "read-failures",
                                  session |-> Null, failures |-> Null]]
  /\ UNCHANGED <<sessionFile, failuresFile>>

\* {...existing, ...patch, status}
Merge(existing, patch) ==
  [f \in DOMAIN existing |-> IF f \in DOMAIN patch THEN patch[f] ELSE existing[f]]

\* readSession: no file (not found) and one that does not parse are errors of the update.
ReadSession(w) ==
  /\ At(w, "read-session")
  /\ IF sessionFile.is = "json"
       THEN call' = [call EXCEPT ![w].at = "open-session",
                                 ![w].session = Merge(sessionFile.value, @)]
       ELSE Goto(w, "err")
  /\ UNCHANGED <<sessionFile, failuresFile>>

\* Mutant: any read error stands for an empty list, not only ENOENT.
ReadFailuresOrEmpty(w) ==
  /\ At(w, "read-failures")
  /\ call' = [call EXCEPT ![w].at = "open-failures",
                          ![w].failures = Append(IF failuresFile.is = "json" THEN failuresFile.value
                                                 ELSE << >>, w)]
  /\ UNCHANGED <<sessionFile, failuresFile>>

\* readFailures: an absent file is an empty list; then [...existing, failure].
ReadFailures(w) ==
  /\ At(w, "read-failures")
  /\ IF failuresFile \in {Empty, Torn} THEN Goto(w, "err")
     ELSE call' = [call EXCEPT ![w].at = "open-failures",
                               ![w].failures = Append(IF failuresFile = Absent THEN << >>
                                                      ELSE failuresFile.value, w)]
  /\ UNCHANGED <<sessionFile, failuresFile>>

\* writeFile opens with O_TRUNC ...
OpenSession(w) ==
  /\ At(w, "open-session") /\ Goto(w, "write-session")
  /\ sessionFile' = Empty
  /\ UNCHANGED failuresFile

\* What a write of w leaves in the file it has open.  Each writer starts at offset 0
\* and nobody has the file to itself: if another one wrote meanwhile, or is about to,
\* the shorter content may be followed by the tail of the longer one.
Written(w, file, content) ==
  {Json(content)} \cup
  IF file = Empty /\ \A v \in Writers \ {w} : ~At(v, call[w].at) THEN {} ELSE {Torn}

\* ... and the content follows.
WriteSession(w) ==
  /\ At(w, "write-session")
  /\ Goto(w, IF call[w].op = "create" THEN "open-failures" ELSE "ok")
  /\ sessionFile' \in Written(w, sessionFile, call[w].session)
  /\ UNCHANGED failuresFile

OpenFailures(w) ==
  /\ At(w, "open-failures") /\ Goto(w, "write-failures")
  /\ failuresFile' = Empty
  /\ UNCHANGED sessionFile

WriteFailures(w) ==
  /\ At(w, "write-failures") /\ Goto(w, "ok")
  /\ failuresFile' \in Written(w, failuresFile, call[w].failures)
  /\ UNCHANGED sessionFile

\* A call of w is broken off: part of what it was writing may be in the file.
BrokenOff(w) ==
  /\ sessionFile' \in {sessionFile} \cup (IF At(w, "write-session") THEN {Torn} ELSE {})
  /\ failuresFile' \in {failuresFile} \cup (IF At(w, "write-failures") THEN {Torn} ELSE {})

\* Any of the system calls fails.
DiskFails(w) ==
  /\ DiskMayFail
  /\ call[w] # NoCall /\ ~Settled(call[w])
  /\ Goto(w, "err") /\ BrokenOff(w)

StoreStep(w) ==
  \/ ReadSession(w) \/ ReadFailures(w)
  \/ OpenSession(w) \/ WriteSession(w)
  \/ OpenFailures(w) \/ WriteFailures(w)
  \/ DiskFails(w)

\* The caller has taken the result of its call.
Release(w) == call' = [call EXCEPT ![w] = NoCall]

\* Where a list of failures holds those of w.
RecordedBy(w, list) == {k \in DOMAIN list : list[k] = w}

\* What a reader makes of a file: GET /sessions/:id answers 404 unless it parses.
ReadOk(file) == file.is = "json"
=============================================================================
