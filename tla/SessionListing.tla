---------------------------- MODULE SessionListing ----------------------------
(***************************************************************************)
(* GET /sessions: the repository's list()                                  *)
(* (packages/storage/src/filesystem-session-repository.ts) reads every     *)
(* session.json, each when it gets there, while workers rewrite them; what *)
(* cannot be read, for whatever reason, counts as not there.  The          *)
(* controller's limit and offset (apps/api/src/sessions/                   *)
(* sessions.controller.ts) cut the sorted list.                            *)
(***************************************************************************)
EXTENDS Domain, Sequences, SequencesExt

CONSTANTS Sessions,      \* the session directories, in the order readdir lists them
          Queries,       \* requests: [limit, offset], Null where left out, NaN for no number
          NaN,
          MaxClock, MaxWrites   \* bounds of TLC

ASSUME SessionsAssumption ==
  /\ Len(Sessions) \in Nat /\ DOMAIN Sessions = 1..Len(Sessions)
  /\ \A j, k \in DOMAIN Sessions : Sessions[j] = Sessions[k] => j = k
ASSUME QueriesAssumption ==
  /\ Null \notin Int /\ NaN \notin Int
  /\ \A query \in Queries : {query.limit, query.offset} \subseteq Int \cup {Null, NaN}

VARIABLES disk,      \* session.json of each: Absent, Torn or a record
          writing,   \* the record a worker is about to fill a torn file with, or Null
          clock,     \* Date.now(), 1 at first
          writes,    \* files opened for writing so far
          request,   \* [at, query, read, reply]
          (* History: *)
          seen,      \* what each file has been since the request began
          missed     \* the sessions the request could not read for an I/O error

vars == <<disk, writing, clock, writes, request, seen, missed>>

Ids == ToSet(Sessions)
File(is, status, startedAt, endedAt) ==
  [is |-> is, status |-> status, startedAt |-> startedAt, endedAt |-> endedAt]

Absent == File("absent", Null, Null, Null)
Torn == File("torn", Null, Null, Null)
Whole(file) == file.is = "json"

Queued == File("json", "queued", Null, Null)

NoRequest == [at |-> "none", query |-> Null, read |-> Null, reply |-> << >>]

\* A worker that died while it wrote may have left a torn file.
Init ==
  /\ clock = 1 /\ writes = 0
  /\ disk \in [Ids -> {Absent, Torn, Queued, File("json", "running", 1, Null),
                       File("json", "completed", 1, 1)}]
  /\ writing = [s \in Ids |-> Null]
  /\ request = NoRequest
  /\ seen = [s \in Ids |-> {}] /\ missed = {}

Tick ==
  /\ clock < MaxClock /\ clock' = clock + 1
  /\ UNCHANGED <<disk, writing, writes, request, seen, missed>>

-----------------------------------------------------------------------------
(* The writers: create(), which the worker of a session started by the API *)
(* repeats, and updateStatus() with the status and one date.  A job that   *)
(* is delivered again takes a terminal record back to running; what the    *)
(* patch does not name stays, the old endedAt too.                         *)

Started(record) == [record EXCEPT !.status = "running", !.startedAt = clock]
Ended(record, status) == [record EXCEPT !.status = status, !.endedAt = clock]

NextRecord(s) ==
  (IF disk[s] \in {Absent, Queued} THEN {Queued} ELSE {})
  \cup (IF Whole(disk[s])
        THEN {Started(disk[s])} \cup {Ended(disk[s], status) : status \in Terminal} ELSE {})

Put(s, file) ==
  /\ disk' = [disk EXCEPT ![s] = file]
  /\ seen' = [seen EXCEPT ![s] = @ \cup {file}]

OpenFile(s) ==
  /\ writes < MaxWrites /\ writes' = writes + 1
  /\ \E record \in NextRecord(s) : writing' = [writing EXCEPT ![s] = record]
  /\ Put(s, Torn)
  /\ UNCHANGED <<clock, request, missed>>

FillFile(s) ==
  /\ writing[s] # Null /\ writing' = [writing EXCEPT ![s] = Null]
  /\ Put(s, writing[s])
  /\ UNCHANGED <<clock, writes, request, missed>>

-----------------------------------------------------------------------------
(* The request.                                                            *)

Asked(found) ==
  /\ request.at = "none"
  /\ request' = [at |-> "reading", query |-> Null,
                  read |-> [s \in found |-> Null], reply |-> << >>]
  /\ seen' = [s \in Ids |-> {disk[s]}]
  /\ UNCHANGED <<disk, writing, clock, writes>>

\* readdir, .catch(() => []): an error is an empty directory.  The directory of a
\* session is made before its file.
List ==
  \/ \E found \in SUBSET Ids :
       {s \in Ids : disk[s] # Absent} \subseteq found /\ Asked(found) /\ missed' = {}
  \/ Asked({}) /\ missed' = Ids

\* readSessionFile, .catch(() => null): a torn file, and one that an I/O error keeps
\* from being read, is as good as none.
ReadFile(s) ==
  /\ request.at = "reading" /\ s \in DOMAIN request.read /\ request.read[s] = Null
  /\ \/ request' = [request EXCEPT !.read[s] = disk[s]] /\ missed' = missed
     \/ request' = [request EXCEPT !.read[s] = Torn] /\ missed' = missed \cup {s}
  /\ UNCHANGED <<disk, writing, clock, writes, seen>>

\* a.endedAt ?? a.startedAt ?? new Date(0)
Date(r) == IF r.endedAt # Null THEN r.endedAt ELSE IF r.startedAt # Null THEN r.startedAt ELSE 0

\* Mutant: the operands of the comparison are swapped.
OlderFirst(items, j, k) ==
  \/ Date(items[j].record) < Date(items[k].record)
  \/ Date(items[j].record) = Date(items[k].record) /\ j < k

\* The order of the sort, which is stable.
Precedes(items, j, k) ==
  \/ Date(items[j].record) > Date(items[k].record)
  \/ Date(items[j].record) = Date(items[k].record) /\ j < k

Sorted(items) ==
  LET place(k) == Cardinality({j \in DOMAIN items : Precedes(items, j, k)})
  IN [n \in 1..Cardinality(DOMAIN items) |-> items[CHOOSE k \in DOMAIN items : place(k) = n - 1]]

AtLeast(low, n) == IF n < low THEN low ELSE n
AtMost(high, n) == IF n > high THEN high ELSE n

\* The controller; Math.min and Math.max pass NaN on.
Limit(query) ==
  CASE query.limit = Null -> 50 [] query.limit = NaN -> NaN
    [] OTHER -> AtMost(500, AtLeast(1, query.limit))
Offset(query) ==
  CASE query.offset = Null -> 0 [] query.offset = NaN -> NaN
    [] OTHER -> AtLeast(0, query.offset)

\* Mutant: slice takes a length.
SliceByLength(items, offset, limit) ==
  IF NaN \in {offset, limit} THEN << >>
  ELSE SubSeq(items, offset + 1, AtMost(Len(items), limit))

\* slice(offset, offset + limit): an end that is no number counts as 0.
Slice(items, offset, limit) ==
  IF NaN \in {offset, limit} THEN << >>
  ELSE SubSeq(items, offset + 1, AtMost(Len(items), offset + limit))

\* The sessions that could be read, by their places in the directory.
Items ==
  LET found == {k \in DOMAIN Sessions :
                  Sessions[k] \in DOMAIN request.read /\ Whole(request.read[Sessions[k]])}
  IN [k \in found |-> [id |-> Sessions[k], record |-> request.read[Sessions[k]]]]

Reply ==
  /\ request.at = "reading" /\ \A s \in DOMAIN request.read : request.read[s] # Null
  /\ \E query \in Queries :
       request' = [at |-> "replied", query |-> query, read |-> Null,
                   reply |-> Slice(Sorted(Items), Offset(query), Limit(query))]
  /\ UNCHANGED <<disk, writing, clock, writes, seen, missed>>

Next ==
  \/ Tick \/ List \/ Reply
  \/ \E s \in Ids : OpenFile(s) \/ FillFile(s) \/ ReadFile(s)

Spec == Init /\ [][Next]_vars

-----------------------------------------------------------------------------
Replied == request.at = "replied"
Listed == {request.reply[k].id : k \in DOMAIN request.reply}

\* filesystem-session-repository.ts:102 "Most-recently-updated first. Fall back to
\* startedAt then never": whatever is written meanwhile, each session is listed once
\* at most, with a record it had while the request was served; who has started comes
\* in the order of endedAt, or else startedAt, and a session that only waits comes
\* last.  This is the order of the last update but for a session that runs again: it
\* has its place by the end of the run before.
ReplyTruthful ==
  Replied =>
    /\ Cardinality(Listed) = Len(request.reply)
    /\ \A k \in DOMAIN request.reply : request.reply[k].record \in seen[request.reply[k].id]
    /\ \A j, k \in DOMAIN request.reply : j < k => 
         LET a == request.reply[j].record b == request.reply[k].record IN
         /\ a.status = "queued" => b.status = "queued"
         /\ Date(a) >= Date(b)

\* A session whose file was whole all the time is withheld only by the limit and the
\* offset (enough others come before it, or few enough do) and by an I/O error, which
\* the answer does not tell from its absence (filesystem-session-repository.ts:94 and
\* 97).  For a number that is none the list is empty.
NothingWithheld ==
  Replied =>
    LET limit == Limit(request.query)
        offset == Offset(request.query)
        steady(s) == s \notin missed /\ \A file \in seen[s] : Whole(file)
        known == {s \in Ids : seen[s] # {Absent}}
    IN IF NaN \in {limit, offset} THEN request.reply = << >>
       ELSE /\ Len(request.reply) <= limit
            /\ Len(request.reply) >=
                 AtMost(limit, Cardinality({s \in Ids : steady(s)}) - offset)
            /\ Len(request.reply) < limit /\ offset = 0 =>
                 \A s \in Ids : steady(s) => s \in Listed
            /\ Len(request.reply) <= AtLeast(0, Cardinality(known) - offset)

\* The parts of the inductive invariant behind the two properties above.

\* What a session.json can be; times begin at 1.
Files ==
  {Absent, Torn, Queued}
  \cup [is : {"json"}, status : {"running"},
        startedAt : Nat \ {0}, endedAt : {Null} \cup (Nat \ {0})]
  \cup [is : {"json"}, status : Terminal,
        startedAt : {Null} \cup (Nat \ {0}), endedAt : Nat \ {0}]

FilesInv ==
  /\ clock \in Nat \ {0}
  /\ disk \in [Ids -> Files] /\ seen \in [Ids -> SUBSET Files]
  /\ writing \in [Ids -> {Null} \cup (Files \ {Absent})]

\* While a request is served, what its files are and what was read of them has been
\* seen, I/O errors aside; a file that is not read was absent at first, or else the
\* whole directory could not be read.
RequestInv ==
  /\ DOMAIN request = {"at", "query", "read", "reply"}
  /\ request.at \in {"none", "reading", "replied"} /\ missed \subseteq Ids
  /\ request.at # "none" => \A s \in Ids : disk[s] \in seen[s]
  /\ request.at = "reading" =>
       /\ DOMAIN request.read \subseteq Ids
       /\ request.read = [s \in DOMAIN request.read |-> request.read[s]]
       /\ \A s \in DOMAIN request.read :
            \/ request.read[s] \in {Null} \cup seen[s]
            \/ request.read[s] = Torn /\ s \in missed
       /\ \A s \in Ids \ DOMAIN request.read : Absent \in seen[s] \/ s \in missed

ListedInv ==
  Replied => request.query \in Queries /\ Len(request.reply) \in Nat /\ Listed \subseteq Ids

ListingInv == FilesInv /\ RequestInv /\ ListedInv /\ ReplyTruthful /\ NothingWithheld
=============================================================================
