--------------------------- MODULE AdapterProofs ---------------------------
(***************************************************************************)
(* The adapters of packages/, each for every value of its constants: the   *)
(* browser driver (what is clicked, what a click that is reported as done  *)
(* was heard of, what a best-effort click may fail for), the Gemini        *)
(* adapter's retries, and the list of the sessions on disk.                *)
(***************************************************************************)
EXTENDS BrowserDriver, LLMClient, SessionListing, WellFoundedInduction, SequenceTheorems,
        FiniteSetTheorems, TLAPS

-----------------------------------------------------------------------------
(* Counting.                                                               *)

\* R orders S strictly; what comes before k in it.
StrictOrder(S, R) ==
  /\ \A a \in S : <<a, a>> \notin R
  /\ \A a, b, c \in S : <<a, b>> \in R /\ <<b, c>> \in R => <<a, c>> \in R
  /\ \A a, b \in S : a = b \/ <<a, b>> \in R \/ <<b, a>> \in R
Before(S, R, k) == {j \in S : <<j, k>> \in R}

\* In a finite strict order every place from the first to the last is taken, each once.
LEMMA Ranks ==
  ASSUME NEW S, IsFiniteSet(S), NEW R, StrictOrder(S, R)
  PROVE  /\ \A k \in S : Cardinality(Before(S, R, k)) \in 0..Cardinality(S) - 1
         /\ \A j, k \in S : <<j, k>> \in R => Cardinality(Before(S, R, j)) < Cardinality(Before(S, R, k))
         /\ \A n \in 0..Cardinality(S) - 1 : \E k \in S : Cardinality(Before(S, R, k)) = n
<1> USE DEF StrictOrder, Before
<1> DEFINE before(k) == {j \in S : <<j, k>> \in R}
           place(k) == Cardinality(before(k))
           N == Cardinality(S)
           f == [k \in S |-> place(k)]
<1>1. N \in Nat
  BY FS_CardinalityType
<1>2. ASSUME NEW k \in S
      PROVE  IsFiniteSet(before(k)) /\ place(k) \in Nat /\ place(k) < N
  <2>1. before(k) \in SUBSET S /\ k \notin before(k)
    OBVIOUS
  <2>2. IsFiniteSet(before(k)) /\ place(k) <= N /\ (N = place(k) => S = before(k))
    BY <2>1, FS_Subset
  <2>3. place(k) \in Nat
    BY <2>2, FS_CardinalityType
  <2> QED
    BY <1>1, <2>1, <2>2, <2>3
<1>3. ASSUME NEW j \in S, NEW k \in S, <<j, k>> \in R
      PROVE  place(j) < place(k)
  <2>1. before(j) \in SUBSET before(k) /\ j \in before(k) /\ j \notin before(j)
    BY <1>3
  <2>2. IsFiniteSet(before(k)) /\ place(j) \in Nat /\ place(k) \in Nat
    BY <1>2
  <2>3. place(j) <= place(k) /\ (place(k) = place(j) => before(k) = before(j))
    BY <2>1, <2>2, FS_Subset
  <2> QED
    BY <2>1, <2>2, <2>3
<1>4. f \in Injection(S, 0..N - 1)
  <2>1. \A k \in S : place(k) \in 0..N - 1
    BY <1>1, <1>2
  <2>2. \A j, k \in S : place(j) = place(k) => j = k
    <3> SUFFICES ASSUME NEW j \in S, NEW k \in S, place(j) = place(k), j # k
                 PROVE  FALSE
      OBVIOUS
    <3>1. place(j) \in Nat /\ place(k) \in Nat
      BY <1>2
    <3>2. <<j, k>> \in R => place(j) < place(k)
      BY <1>3
    <3>3. <<k, j>> \in R => place(k) < place(j)
      BY <1>3
    <3>4. <<j, k>> \in R \/ <<k, j>> \in R
      OBVIOUS
    <3> HIDE DEF place
    <3> QED
      BY <3>1, <3>2, <3>3, <3>4
  <2> HIDE DEF place
  <2> QED
    BY <2>1, <2>2 DEF Injection, IsInjective
<1>5. IsFiniteSet(0..N - 1) /\ Cardinality(0..N - 1) = N
  <2> HIDE DEF N
  <2> QED
    BY <1>1, FS_Interval
<1>6. f \in Surjection(S, 0..N - 1)
  <2> HIDE DEF f, N
  <2> QED
    BY <1>4, <1>5, FS_Injection DEF N
<1>7. \A n \in 0..N - 1 : \E k \in S : place(k) = n
  <2> HIDE DEF place
  <2> QED
    BY <1>6 DEF Surjection
<1>8. \A k \in S : place(k) \in 0..N - 1
  BY <1>1, <1>2
<1> QED
  BY <1>3, <1>7, <1>8

-----------------------------------------------------------------------------
(* Looking up a wording.                                                   *)

LEMMA Smallest ==
  ASSUME NEW S, S \subseteq Nat, S # {}
  PROVE  Min(S) \in S /\ \A x \in S : Min(S) <= x
<1> DEFINE Less == {pair \in Nat \X Nat : pair[1] < pair[2]}
<1>0. IsWellFoundedOn(Less, Nat)
  BY NatLessThanWellFounded DEF OpToRel
<1> HIDE DEF Less
<1>1. PICK m \in S : \A x \in S : <<x, m>> \notin Less
  BY <1>0, WFMin
<1>2. \A x \in S : ~(x < m)
  BY <1>1 DEF Less
<1>3. \A x \in S : m <= x
  BY <1>2
<1> QED
  BY <1>3 DEF Min

LEMMA Wordings ==
  ASSUME NEW a
  PROVE  Len(Candidates(a)) \in Nat /\ DOMAIN Candidates(a) = 1..Len(Candidates(a))
<1> DEFINE Words == {a.label, "spin", "place bet", "bet", "play", "start",
                     "cash out", "cashout", "collect", "take win"}
<1>1. <<a.label>> \in Seq(Words) /\ << >> \in Seq(Words)
  OBVIOUS
<1>2. <<"spin", "place bet", "bet", "play", "start">> \in Seq(Words)
  OBVIOUS
<1>3. <<"cash out", "cashout", "collect", "take win">> \in Seq(Words)
  OBVIOUS
<1> HIDE DEF Words
<1>4. Candidates(a) \in Seq(Words)
  BY <1>1, <1>2, <1>3, Zenon DEF Candidates
<1> QED
  BY <1>4

\* An element that the pattern of a wording matches, a control if it has to be one.
Suits(k, pattern, only) ==
  pattern \in elements[k].label /\ (only => elements[k].kind \in InteractiveKinds)

\* findMatchingElement finds nothing only if nothing suits, and the best there is.
LEMMA BestFound ==
  ASSUME elements \in Elements, NEW pattern, NEW only \in BOOLEAN
  PROVE  LET found == FindMatchingElement(pattern, only)
             isControl(k) == elements[k].kind \in InteractiveKinds
         IN /\ found = Null => \A k \in DOMAIN elements : ~Suits(k, pattern, only)
            /\ found # Null =>
                 /\ found \in DOMAIN elements /\ Suits(found, pattern, only)
                 /\ \A other \in DOMAIN elements : Suits(other, pattern, only) /\ other # found =>
                      IF isControl(other) = isControl(found) THEN found < other ELSE isControl(found)
<1> DEFINE found == FindMatchingElement(pattern, only)
           isControl(k) == elements[k].kind \in InteractiveKinds
<1>1. DOMAIN elements \subseteq Nat /\ Null \notin Nat
  BY ElementsAssumption
<1>2. Matches(pattern) \subseteq Nat /\ Controls(pattern) \subseteq Nat
  BY <1>1 DEF Matches, Controls
<1>3. CASE Controls(pattern) # {}
  <2>1. found \in Controls(pattern) /\ \A k \in Controls(pattern) : found <= k
    BY <1>2, <1>3, Smallest DEF FindMatchingElement
  <2>2. found \in DOMAIN elements /\ found \in Nat /\ isControl(found) /\ pattern \in elements[found].label
    BY <1>1, <2>1 DEF Controls, Matches
  <2>3. ASSUME NEW other \in DOMAIN elements, Suits(other, pattern, only), other # found, isControl(other)
        PROVE  found < other
    <3>1. other \in Controls(pattern) /\ other \in Nat
      BY <1>1, <2>3 DEF Suits, Controls, Matches
    <3> QED
      BY <2>1, <2>2, <2>3, <3>1
  <2> QED
    BY <1>1, <2>2, <2>3 DEF Suits
<1>4. CASE Controls(pattern) = {} /\ (only \/ Matches(pattern) = {})
  <2>1. found = Null
    BY <1>4 DEF FindMatchingElement
  <2>2. \A k \in DOMAIN elements : ~Suits(k, pattern, only)
    BY <1>4 DEF Suits, Controls, Matches
  <2> QED
    BY <2>1, <2>2
<1>5. CASE Controls(pattern) = {} /\ ~only /\ Matches(pattern) # {}
  <2>1. found \in Matches(pattern) /\ \A k \in Matches(pattern) : found <= k
    BY <1>2, <1>5, Smallest DEF FindMatchingElement
  <2>2. found \in DOMAIN elements /\ found \in Nat /\ pattern \in elements[found].label
    BY <1>1, <2>1 DEF Matches
  <2>3. \A k \in DOMAIN elements : pattern \in elements[k].label => ~isControl(k)
    BY <1>5 DEF Controls, Matches
  <2>4. ASSUME NEW other \in DOMAIN elements, Suits(other, pattern, only), other # found
        PROVE  found < other
    <3>1. other \in Matches(pattern) /\ other \in Nat
      BY <1>1, <2>4 DEF Suits, Matches
    <3> QED
      BY <2>1, <2>2, <2>4, <3>1
  <2> QED
    BY <1>1, <1>5, <2>2, <2>3, <2>4 DEF Suits
<1> QED
  BY <1>3, <1>4, <1>5

-----------------------------------------------------------------------------
(* DriverInv is inductive.                                                 *)

LEMMA DriverInitInv == DriverInit => DriverInv
<1> SUFFICES ASSUME DriverInit PROVE DriverInv
  OBVIOUS
<1>1. ResolveInv
  <2> DEFINE n == Len(Candidates(action))
  <2>1. n \in Nat
    BY Wordings
  <2>2. action \in Steps /\ elements \in Elements /\ candidate = 1 /\ executed = Null
    BY DEF DriverInit, ResolveInit
  <2> HIDE DEF n
  <2>3. candidate \in 1..n + 1 /\ 1..candidate - 1 = {}
    BY <2>1, <2>2
  <2> QED
    BY <2>2, <2>3, Zenon DEF ResolveInv, n
<1>2. /\ stage = "idle" /\ result = Null /\ heard = 0 /\ listener = Null /\ executed = Null
      /\ tapped = FALSE
  BY DEF DriverInit, ResolveInit
<1> QED
  BY <1>1, <1>2, OutcomesAssumption
  DEF DriverInv, StageInv, HeardInv, ClickHeard, BestEffort, PointStages, MouseStages

\* The look-up of the runner, before the driver is called.
LEMMA ResolutionInv ==
  ASSUME DriverInv, Resolution
  PROVE  DriverInv'
<1> DEFINE n == Len(Candidates(action))
           found(c) == FindMatchingElement(Candidates(action)[c], InteractiveOnly(action))
<1>1. /\ n \in Nat /\ candidate \in 1..n + 1
      /\ action \in Steps /\ elements \in Elements
      /\ \A b \in 1..candidate - 1 : found(b) = Null
  BY Wordings DEF DriverInv, ResolveInv
<1>2. /\ executed = Null /\ action' = action /\ elements' = elements /\ UNCHANGED driverVars
      /\ \/ /\ candidate <= n /\ candidate' = candidate /\ found(candidate) # Null
            /\ executed' = [type |-> "click-point", target |-> found(candidate)]
         \/ /\ candidate <= n /\ candidate' = candidate + 1 /\ found(candidate) = Null
            /\ executed' = executed
         \/ /\ candidate > n /\ candidate' = candidate
            /\ executed' = [type |-> action.type, target |-> Null]
  BY DEF Resolution, Resolve, NextCandidate, FallThrough
<1>3. \A c : found(c)' = found(c)
  BY <1>2, Zenon DEF FindMatchingElement, Matches, Controls
<1>4. ResolveInv'
  <2> HIDE DEF n, found
  <2>1. candidate' \in 1..n + 1
    BY <1>1, <1>2
  <2>2. \A b \in 1..candidate' - 1 : found(b) = Null
    BY <1>1, <1>2
  <2>3. /\ n' = n
        /\ executed' # Null =>
             IF candidate' <= n
             THEN executed'.type = "click-point" /\ executed'.target = found(candidate') /\ executed'.target # Null
             ELSE executed'.type = action'.type /\ executed'.target = Null
    BY <1>1, <1>2 DEF n
  <2> QED
    BY <1>1, <1>2, <1>3, <2>1, <2>2, <2>3 DEF ResolveInv, n, found
<1>5. /\ stage = "idle" /\ result = Null /\ UNCHANGED <<stage, result, heard, listener, tapped>>
      /\ heard \in Nat /\ tapped = FALSE /\ (listener # Null => listener \in Listeners)
  BY <1>2 DEF DriverInv, StageInv, HeardInv, driverVars
<1> QED
  BY <1>4, <1>5, OutcomesAssumption
  DEF DriverInv, StageInv, HeardInv, ClickHeard, BestEffort, PointStages, MouseStages

\* The calls of the driver leave the look-up alone.
LEMMA SameResolution ==
  ASSUME ResolveInv, UNCHANGED resolveVars
  PROVE  ResolveInv' /\ action' = action /\ executed' = executed /\ Label' = Label
<1>1. action' = action /\ elements' = elements /\ candidate' = candidate /\ executed' = executed
  BY DEF resolveVars
<1> QED
  BY <1>1, Zenon DEF ResolveInv, FindMatchingElement, Matches, Controls, Label

\* A listener that hears of one of the events has been activated, and never less than before.
LEMMA Hears ==
  ASSUME heard \in Nat, NEW events, NEW trusted \in BOOLEAN, Dispatch(events, trusted)
  PROVE  /\ heard' \in Nat /\ (heard > 0 => heard' > 0)
         /\ listener # Null /\ listener.event \in events /\ trusted => heard' > 0
BY DEF Dispatch, Activated

LEMMA ClickPointInv ==
  ASSUME DriverInv, ClickPoint \/ Tap \/ Mouse \/ MouseFails \/ DomDispatch
  PROVE  DriverInv'
<1>1. /\ UNCHANGED resolveVars /\ heard \in Nat /\ (listener # Null => listener \in Listeners)
  BY DEF DriverInv, HeardInv, ClickPoint, Tap, Mouse, MouseFails, DomDispatch
<1>2. ResolveInv' /\ action' = action /\ executed' = executed /\ Label' = Label
  BY <1>1, SameResolution DEF DriverInv
<1>3. CASE ClickPoint
  <2>1. /\ stage' = "tap" /\ result' = Null /\ heard' = heard /\ executed # Null
        /\ executed.type = "click-point" /\ (listener' # Null => listener' \in Listeners)
        /\ tapped' = FALSE
    BY <1>3 DEF ClickPoint, DriverInv, StageInv, HeardInv
  <2> QED
    BY <1>1, <1>2, <2>1, OutcomesAssumption
    DEF DriverInv, StageInv, HeardInv, ClickHeard, BestEffort, PointStages, MouseStages
<1>4. CASE Tap
  <2>1. /\ stage' = "move" /\ result' = Null /\ executed # Null /\ executed.type = "click-point"
        /\ listener' = listener
    BY <1>4 DEF Tap, DriverInv, StageInv, PointStages
  <2>2. /\ heard' \in Nat
        /\ tapped' /\ listener # Null /\ listener.event \in {"touchstart", "pointerdown"} => heard' > 0
    <3>1. CASE heard' = heard /\ tapped' = tapped
      BY <1>1, <1>4, <3>1 DEF Tap, DriverInv, HeardInv
    <3>2. ASSUME NEW more \in {{}, {"mousedown", "click"}},
                 Dispatch({"touchstart", "pointerdown"} \cup more, TRUE)
          PROVE  heard' \in Nat /\ (listener # Null /\ listener.event \in {"touchstart", "pointerdown"} => heard' > 0)
      BY <1>1, <3>2, Hears
    <3> QED
      BY <1>4, <3>1, <3>2 DEF Tap
  <2> QED
    BY <1>1, <1>2, <2>1, <2>2, OutcomesAssumption
    DEF DriverInv, StageInv, HeardInv, ClickHeard, BestEffort, PointStages, MouseStages
<1>5. CASE Mouse
  <2>1. /\ stage \in MouseStages /\ stage' = After[stage] /\ result' = Null
        /\ executed # Null /\ executed.type = "click-point"
        /\ listener' = listener /\ tapped' = tapped
    BY <1>5 DEF Mouse, DriverInv, StageInv, PointStages, MouseStages
  <2>2. /\ heard' \in Nat /\ (heard > 0 => heard' > 0)
        /\ listener # Null /\ listener.event \in MouseEvents[stage] => heard' > 0
    BY <1>1, <1>5, Hears DEF Mouse
  <2>3. CASE stage = "move"
    BY <1>1, <1>2, <2>1, <2>2, <2>3, OutcomesAssumption
    DEF After, DriverInv, StageInv, HeardInv, ClickHeard, BestEffort, PointStages, MouseStages
  <2>4. CASE stage = "down"
    BY <1>1, <1>2, <2>1, <2>2, <2>4, OutcomesAssumption
    DEF After, MouseEvents, DriverInv, StageInv, HeardInv, ClickHeard, BestEffort, PointStages, MouseStages
  <2>5. CASE stage = "up"
    BY <1>1, <1>2, <2>1, <2>2, <2>5, OutcomesAssumption
    DEF After, MouseEvents, DriverInv, StageInv, HeardInv, ClickHeard, BestEffort, PointStages, MouseStages
  <2> QED
    BY <2>1, <2>3, <2>4, <2>5 DEF MouseStages
<1>6. CASE MouseFails
  <2>1. /\ stage' = "settled" /\ result' = "err" /\ executed # Null /\ executed.type = "click-point"
        /\ listener' = listener /\ heard' = heard
    BY <1>6 DEF MouseFails, Settle, DriverInv, StageInv, PointStages, MouseStages
  <2> QED
    BY <1>1, <1>2, <2>1
    DEF DriverInv, StageInv, HeardInv, ClickHeard, BestEffort, PointStages, MouseStages
<1>7. CASE DomDispatch
  <2>1. /\ stage = "dispatch" /\ stage' = "settled" /\ result' = "ok"
        /\ executed # Null /\ executed.type = "click-point"
        /\ listener' = listener /\ tapped' = tapped
    BY <1>7 DEF DomDispatch, Settle, DriverInv, StageInv, PointStages
  <2>2. heard' \in Nat /\ (heard > 0 => heard' > 0)
    BY <1>1, <1>7, Hears DEF DomDispatch
  <2>3. listener # Null => heard > 0 \/ (listener.event = "touchstart" /\ ~tapped)
    BY <1>1, <2>1 DEF DriverInv, HeardInv, Listeners
  <2> QED
    BY <1>1, <1>2, <2>1, <2>2, <2>3
    DEF DriverInv, StageInv, HeardInv, ClickHeard, BestEffort, PointStages, MouseStages
<1> QED
  BY <1>3, <1>4, <1>5, <1>6, <1>7

LEMMA LocatorInv ==
  ASSUME DriverInv,
         \/ MalformedLabel \/ ClickByLabel \/ ButtonClicked \/ ButtonTimesOut
         \/ ClickIfPresent \/ CandidateClicked \/ CandidateMissed \/ NothingPresent
  PROVE  DriverInv'
<1>1. /\ UNCHANGED resolveVars /\ heard' = heard /\ listener' = listener /\ tapped' = tapped
      /\ executed # Null /\ (result = Null)
      /\ \/ stage' = "by-label" /\ executed.type \in {"click-element", "place-bet", "cash-out"} /\ result' = Null
         \/ stage' = "if-present" /\ executed.type = "click-if-present" /\ result' = Null
         \/ /\ stage' = "settled" /\ result' \in {"ok", "err"} /\ executed.type # "click-point"
            /\ result' = "err" /\ executed.type = "click-if-present" => Label \in Malformed
  BY DEF DriverInv, StageInv, MalformedLabel, ClickByLabel, ClickIfPresent, LookUp, ButtonClicked,
         ButtonTimesOut, CandidateClicked, CandidateMissed, NothingPresent, Settle
<1>2. ResolveInv' /\ action' = action /\ executed' = executed /\ Label' = Label
  BY <1>1, SameResolution DEF DriverInv
<1> QED
  BY <1>1, <1>2, OutcomesAssumption
  DEF DriverInv, StageInv, HeardInv, ClickHeard, BestEffort, PointStages, MouseStages

\* DriverInv holds for whatever the actions, the screens and the ARIA trees are.
THEOREM DriverInvariant == DriverSpec => []DriverInv
<1>1. DriverInv /\ [DriverNext]_allVars => DriverInv'
  <2> SUFFICES ASSUME DriverInv, [DriverNext]_allVars PROVE DriverInv'
    OBVIOUS
  <2>1. CASE UNCHANGED allVars
    <3>1. UNCHANGED resolveVars /\ UNCHANGED <<stage, result, heard, listener, tapped>>
      BY <2>1 DEF allVars, driverVars
    <3>2. ResolveInv' /\ executed' = executed /\ Label' = Label
      BY <3>1, SameResolution DEF DriverInv
    <3> QED
      BY <3>1, <3>2 DEF DriverInv, StageInv, HeardInv, ClickHeard, BestEffort
  <2> QED
    BY <2>1, ResolutionInv, ClickPointInv, LocatorInv DEF DriverNext
<1> QED
  BY DriverInitInv, <1>1, PTL DEF DriverSpec

-----------------------------------------------------------------------------
(* What follows.                                                           *)

\* A click that is reported as done was heard by whatever listens under the point,
\* however the tap and the dispatched events went (playwright-driver.ts:158-165).
THEOREM HeardIfReported == DriverSpec => []ClickHeard
BY DriverInvariant, PTL DEF DriverInv

\* A best-effort click fails for a label that is no regular expression only
\* (playwright-driver.ts:275-276).
THEOREM FailsOnMalformedOnly == DriverSpec => []BestEffort
BY DriverInvariant, PTL DEF DriverInv

\* The runner clicks the best match of the most preferred wording on the screen, and
\* hands the action over as it is only if there is none (scenario-runner.ts:47-71).
THEOREM BestMatch == DriverSpec => []BestMatchClicked
<1>1. DriverInv => BestMatchClicked
  <2> DEFINE n == Len(Candidates(action))
             word(c) == Candidates(action)[c]
             only == InteractiveOnly(action)
             found(c) == FindMatchingElement(word(c), only)
  <2> SUFFICES ASSUME ResolveInv, executed # Null PROVE BestMatchClicked
    BY DEF DriverInv, BestMatchClicked
  <2>1. /\ n \in Nat /\ DOMAIN Candidates(action) = 1..n /\ elements \in Elements
        /\ only \in BOOLEAN /\ candidate \in 1..n + 1
        /\ \A b \in 1..candidate - 1 : found(b) = Null
        /\ IF candidate <= n THEN executed.target = found(candidate) /\ executed.target # Null
           ELSE executed.target = Null
    BY Wordings DEF ResolveInv, InteractiveOnly
  <2>2. \A k, p : Fits(k, p) <=> Suits(k, p, only)
    BY DEF Fits, Suits
  <2>3. \A b \in 1..candidate - 1, other \in DOMAIN elements : ~Fits(other, word(b))
    BY <2>1, <2>2, BestFound
  <2>4. CASE candidate <= n
    BY <2>1, <2>2, <2>3, <2>4, BestFound DEF BestMatchClicked
  <2>5. CASE ~(candidate <= n)
    <3>1. \A c \in 1..n : c \in 1..candidate - 1
      BY <2>1, <2>5
    <3> QED
      BY <2>1, <2>3, <2>5, <3>1 DEF BestMatchClicked
  <2> QED
    BY <2>4, <2>5
<1> QED
  BY DriverInvariant, <1>1, PTL

-----------------------------------------------------------------------------
(* The nodes that are clicked.                                             *)

\* nth(n) is one of the nodes, with n of them before it.
LEMMA NthNode ==
  ASSUME NEW S, S \subseteq Nat, IsFiniteSet(S), NEW n \in Nat, n < Cardinality(S)
  PROVE  Nth(S, n) \in S /\ Cardinality({m \in S : m < Nth(S, n)}) = n
<1> DEFINE R == {pair \in S \X S : pair[1] < pair[2]}
<1>1. \A a, b \in S : <<a, b>> \in R <=> a < b
  OBVIOUS
<1>2. /\ \A a \in S : <<a, a>> \notin R
      /\ \A a, b, c \in S : <<a, b>> \in R /\ <<b, c>> \in R => <<a, c>> \in R
      /\ \A a, b \in S : a = b \/ <<a, b>> \in R \/ <<b, a>> \in R
  <2> HIDE DEF R
  <2> QED
    BY <1>1
<1>3. \A k \in S : {j \in S : <<j, k>> \in R} = {m \in S : m < k}
  <2> HIDE DEF R
  <2> QED
    BY <1>1
<1>4. n \in 0..Cardinality(S) - 1
  BY FS_CardinalityType
<1>5. \E k \in S : Cardinality({j \in S : <<j, k>> \in R}) = n
  <2> HIDE DEF R
  <2>1. StrictOrder(S, R)
    BY <1>2 DEF StrictOrder
  <2>2. \A place \in 0..Cardinality(S) - 1 : \E k \in S : Cardinality(Before(S, R, k)) = place
    BY <2>1, Ranks
  <2> QED
    BY <1>4, <2>2, Zenon DEF Before
<1>6. \E k \in S : Cardinality({m \in S : m < k}) = n
  <2> HIDE DEF R
  <2> QED
    BY <1>3, <1>5
<1> QED
  BY <1>6 DEF Nth

\* What a locator stands for is finite, and its nodes are numbered.
LEMMA NodesFinite ==
  ASSUME tree \in Trees, NEW roles
  PROVE  Nodes(roles) \subseteq 1..Len(tree) /\ Nodes(roles) \subseteq Nat /\ IsFiniteSet(Nodes(roles))
<1>1. Len(tree) \in Nat /\ DOMAIN tree = 1..Len(tree)
  BY TreesAssumption
<1>2. Nodes(roles) \in SUBSET (1..Len(tree)) /\ IsFiniteSet(1..Len(tree))
  BY <1>1, FS_Interval DEF Nodes
<1>3. 1..Len(tree) \subseteq Nat
  BY <1>1
<1> QED
  BY <1>2, <1>3, FS_Subset

\* What has been clicked, with one click more.
LEMMA OneMoreClick ==
  ASSUME ClicksInv, NEW k, NEW late \in BOOLEAN, Click(k, late),
         Label \in tree[k].name, IsFiniteSet({m \in Nodes({"button"}) : m < k})
  PROVE  /\ clicks' \in Seq(Clicks) /\ Len(clicks) \in Nat /\ Len(clicks') = Len(clicks) + 1
         /\ DOMAIN clicks = 1..Len(clicks) /\ DOMAIN clicks' = 1..Len(clicks')
         /\ \A n \in 1..Len(clicks) : clicks'[n] = clicks[n]
         /\ clicks'[Len(clicks')].named /\ clicks'[Len(clicks')].late = late
         /\ clicks'[Len(clicks')].occurrence = Cardinality({m \in Nodes({"button"}) : m < k})
<1> DEFINE count == Cardinality({m \in Nodes({"button"}) : m < k})
           click == [named |-> Label \in tree[k].name, late |-> late, occurrence |-> count]
<1>1. count \in Nat
  BY FS_CardinalityType
<1>2. clicks' = Append(clicks, click) /\ clicks \in Seq(Clicks)
  BY DEF Click, ClicksInv
<1> HIDE DEF count
<1>3. click \in Clicks /\ click.named /\ click.late = late /\ click.occurrence = count
  BY <1>1 DEF Clicks
<1> HIDE DEF click
<1>4. /\ clicks' \in Seq(Clicks) /\ Len(clicks) \in Nat /\ Len(clicks') = Len(clicks) + 1
      /\ DOMAIN clicks = 1..Len(clicks) /\ DOMAIN clicks' = 1..Len(clicks')
      /\ \A n \in 1..Len(clicks) : clicks'[n] = clicks[n]
      /\ clicks'[Len(clicks')] = click
  BY <1>2, <1>3
<1> QED
  BY <1>3, <1>4 DEF count

\* clickByLabel: the node of the button that is asked for, in time or too late.
LEMMA ButtonOnce ==
  ASSUME ClicksInv, DriverInv, ButtonClicked \/ ButtonTimesOut
  PROVE  ClicksInv'
<1> DEFINE buttons == Nodes({"button"})
           k == Nth(buttons, action.occurrence)
<1>1. /\ stage = "by-label" /\ stage' = "settled" /\ result' \in {"ok", "err"}
      /\ UNCHANGED <<tree, locator, executed, action>> /\ Label' = Label
      /\ \/ UNCHANGED clicks /\ result' = "err"
         \/ /\ action.occurrence < Cardinality(buttons)
            /\ \E late \in BOOLEAN : Click(k, late) /\ (result' = "ok" <=> ~late)
  BY OutcomesAssumption DEF ButtonClicked, ButtonTimesOut, Settle, resolveVars, Label, ByLabel
<1>2. /\ clicks = << >> /\ Len(clicks) = 0 /\ tree \in Trees /\ action.occurrence \in Nat
      /\ executed.type # "click-if-present" /\ locator \in 1..Len(LocatorRoles) + 1
  BY <1>1, OccurrencesAssumption DEF ClicksInv, DriverInv, StageInv, ResolveInv
<1>3. buttons \subseteq Nat /\ IsFiniteSet(buttons)
  BY <1>2, NodesFinite
<1>4. CASE UNCHANGED clicks /\ result' = "err"
  <2>1. DOMAIN clicks' = {}
    BY <1>2, <1>4
  <2>2. RetriedWhenLateOnly'
    BY <1>4, <2>1 DEF RetriedWhenLateOnly
  <2> QED
    BY <1>1, <1>2, <1>4, <2>2 DEF ClicksInv
<1>5. ASSUME action.occurrence < Cardinality(buttons),
             NEW late \in BOOLEAN, Click(k, late), result' = "ok" <=> ~late
      PROVE  ClicksInv'
  <2>1. \A m \in buttons : Label \in tree[m].name
    BY DEF Nodes
  <2> HIDE DEF buttons
  <2>2. k \in buttons /\ Cardinality({m \in buttons : m < k}) = action.occurrence
    BY <1>2, <1>3, <1>5, NthNode
  <2> HIDE DEF k
  <2>3. IsFiniteSet({m \in buttons : m < k}) /\ Label \in tree[k].name
    BY <1>3, <2>1, <2>2, FS_Subset
  <2>4. /\ clicks' \in Seq(Clicks) /\ Len(clicks') = 1 /\ DOMAIN clicks' = 1..1
        /\ clicks'[1].named /\ clicks'[1].late = late /\ clicks'[1].occurrence = action.occurrence
    BY <1>2, <1>5, <2>2, <2>3, OneMoreClick DEF buttons
  <2>5. \A n \in DOMAIN clicks' : n = 1
    BY <2>4
  <2>6. RetriedWhenLateOnly'
    BY <1>1, <1>2, <1>5, <2>4, <2>5 DEF RetriedWhenLateOnly
  <2> QED
    BY <1>1, <1>2, <2>4, <2>6 DEF ClicksInv
<1> QED
  BY <1>1, <1>4, <1>5

\* clickIfPresent: the first node of the candidate that is there, in time or too late.
LEMMA CandidateOnce ==
  ASSUME ClicksInv, DriverInv, CandidateClicked \/ CandidateMissed
  PROVE  ClicksInv'
<1> DEFINE nodes == Nodes(LocatorRoles[locator])
           k == Nth(nodes, 0)
<1>1. /\ stage = "if-present" /\ locator \in DOMAIN LocatorRoles
      /\ UNCHANGED <<executed, action>> /\ result = Null
      /\ \/ /\ stage' = "settled" /\ result' = "ok" /\ UNCHANGED <<tree, locator>>
            /\ nodes # {} /\ Click(k, FALSE)
         \/ /\ stage' = stage /\ result' = result /\ tree' \in Trees /\ locator' = locator + 1
            /\ UNCHANGED clicks \/ (nodes # {} /\ Click(k, TRUE))
  BY DEF CandidateClicked, CandidateMissed, Settle, resolveVars, DriverInv, StageInv
<1>2. /\ tree \in Trees /\ executed.type = "click-if-present" /\ Len(LocatorRoles) = 3
      /\ DOMAIN LocatorRoles = 1..3 /\ result # "ok"
      /\ Len(clicks) \in Nat /\ Len(clicks) < locator /\ DOMAIN clicks = 1..Len(clicks)
  BY <1>1, OutcomesAssumption DEF ClicksInv, DriverInv, StageInv, LocatorRoles
<1>3. \A n \in 1..Len(clicks) : clicks[n].named /\ clicks[n].late
  BY <1>2 DEF ClicksInv, RetriedWhenLateOnly
<1>4. ASSUME nodes # {}, NEW late \in BOOLEAN, Click(k, late)
      PROVE  /\ clicks' \in Seq(Clicks) /\ Len(clicks') = Len(clicks) + 1
             /\ DOMAIN clicks' = 1..Len(clicks) + 1
             /\ clicks'[Len(clicks) + 1].late = late
             /\ \A n \in 1..Len(clicks) + 1 :
                  clicks'[n].named /\ (clicks'[n].late \/ n = Len(clicks) + 1)
  <2>1. nodes \subseteq Nat /\ IsFiniteSet(nodes)
    BY <1>2, NodesFinite
  <2>2. \A m \in nodes : Label \in tree[m].name
    BY DEF Nodes
  <2> HIDE DEF nodes
  <2>3. 0 < Cardinality(nodes)
    BY <1>4, <2>1, FS_EmptySet, FS_CardinalityType
  <2>4. k \in nodes
    BY <2>1, <2>3, NthNode
  <2> HIDE DEF k
  <2>5. IsFiniteSet({m \in Nodes({"button"}) : m < k})
    BY <1>2, NodesFinite, FS_Subset
  <2>6. Label \in tree[k].name
    BY <2>2, <2>4
  <2>7. /\ clicks' \in Seq(Clicks) /\ Len(clicks') = Len(clicks) + 1
        /\ DOMAIN clicks' = 1..Len(clicks')
        /\ \A n \in 1..Len(clicks) : clicks'[n] = clicks[n]
        /\ clicks'[Len(clicks')].named /\ clicks'[Len(clicks')].late = late
    BY <1>4, <2>5, <2>6, OneMoreClick
  <2>8. \A n \in 1..Len(clicks) + 1 : n \in 1..Len(clicks) \/ n = Len(clicks) + 1
    BY <1>2
  <2> QED
    BY <1>3, <2>7, <2>8
<1> HIDE DEF nodes, k
<1>5. CASE stage' = "settled" /\ result' = "ok" /\ UNCHANGED <<tree, locator>> /\ nodes # {} /\ Click(k, FALSE)
  <2>1. /\ clicks' \in Seq(Clicks) /\ Len(clicks') = Len(clicks) + 1
        /\ DOMAIN clicks' = 1..Len(clicks) + 1
        /\ \A n \in 1..Len(clicks) + 1 : clicks'[n].named /\ (clicks'[n].late \/ n = Len(clicks) + 1)
    BY <1>4, <1>5
  <2>2. \A n \in 1..Len(clicks) + 1 : n <= 3
    BY <1>1, <1>2
  <2>3. RetriedWhenLateOnly'
    BY <1>1, <1>2, <1>5, <2>1, <2>2 DEF RetriedWhenLateOnly
  <2> QED
    BY <1>5, <2>1, <2>3 DEF ClicksInv
<1>6. CASE /\ stage' = stage /\ result' = result /\ tree' \in Trees /\ locator' = locator + 1
           /\ UNCHANGED clicks \/ (nodes # {} /\ Click(k, TRUE))
  <2>1. /\ clicks' \in Seq(Clicks) /\ Len(clicks') \in Nat /\ Len(clicks') <= Len(clicks) + 1
        /\ DOMAIN clicks' = 1..Len(clicks')
        /\ \A n \in 1..Len(clicks') : clicks'[n].named /\ clicks'[n].late
    <3>1. CASE UNCHANGED clicks
      BY <1>2, <1>3, <3>1 DEF ClicksInv
    <3>2. CASE nodes # {} /\ Click(k, TRUE)
      <4>1. /\ clicks' \in Seq(Clicks) /\ Len(clicks') = Len(clicks) + 1
            /\ DOMAIN clicks' = 1..Len(clicks) + 1
            /\ clicks'[Len(clicks) + 1].late = TRUE
            /\ \A n \in 1..Len(clicks) + 1 :
                 clicks'[n].named /\ (clicks'[n].late \/ n = Len(clicks) + 1)
        BY <1>4, <3>2
      <4>2. \A n \in 1..Len(clicks) + 1 : clicks'[n].named /\ clicks'[n].late
        BY <4>1, Zenon
      <4> QED
        BY <1>2, <4>1, <4>2
    <3> QED
      BY <1>6, <3>1, <3>2
  <2>2. Len(clicks') < locator' /\ locator' \in 1..4 /\ \A n \in 1..Len(clicks') : n <= 3
    BY <1>1, <1>2, <1>6, <2>1
  <2>3. RetriedWhenLateOnly'
    BY <1>1, <1>2, <1>6, <2>1, <2>2 DEF RetriedWhenLateOnly
  <2> QED
    BY <1>1, <1>2, <1>6, <2>1, <2>2, <2>3 DEF ClicksInv
<1> QED
  BY <1>1, <1>5, <1>6

\* Only what the label names is clicked through the ARIA tree, the occurrence asked for by
\* a click-element, and again only by click-if-present after a click that timed out after
\* it was sent (playwright-driver.ts:254-303).
THEOREM OneClickUnlessLate == DriverSpec => []RetriedWhenLateOnly
<1>1. DriverInit => ClicksInv
  <2> SUFFICES ASSUME DriverInit PROVE ClicksInv
    OBVIOUS
  <2>1. stage = "idle" /\ result = Null /\ clicks = << >> /\ locator = 1
    BY DEF DriverInit
  <2> QED
    BY <2>1, OutcomesAssumption DEF ClicksInv, RetriedWhenLateOnly, LocatorRoles
<1>2. ASSUME ClicksInv, DriverInv, [DriverNext]_allVars
      PROVE  ClicksInv'
  <2>1. ASSUME stage \notin {"by-label", "if-present", "settled"}, UNCHANGED <<clicks, locator>>,
               stage' \in {"by-label", "if-present"} => tree' \in Trees,
               stage' \in {"idle", "if-present"} => locator = 1,
               result' = "ok" => executed'.type \notin {"click-element", "place-bet", "cash-out"}
        PROVE  ClicksInv'
    <3>1. clicks = << >> /\ Len(clicks) = 0 /\ locator \in 1..Len(LocatorRoles) + 1
      BY <1>2, <2>1 DEF ClicksInv
    <3>2. RetriedWhenLateOnly'
      BY <2>1, <3>1 DEF RetriedWhenLateOnly
    <3> QED
      BY <1>2, <2>1, <3>1, <3>2 DEF ClicksInv
  <2>3. CASE Resolution
    <3>1. executed = Null /\ UNCHANGED <<tree, stage, result, locator, clicks>>
      BY <2>3 DEF Resolution, Resolve, NextCandidate, FallThrough, driverVars
    <3>2. stage = "idle" /\ result = Null /\ locator = 1
      BY <1>2, <3>1 DEF DriverInv, StageInv, ClicksInv
    <3> QED
      BY <2>1, <3>1, <3>2, OutcomesAssumption
  <2>4. CASE ClickPoint \/ Tap \/ Mouse \/ MouseFails \/ DomDispatch
    <3>1. /\ stage \notin {"by-label", "if-present", "settled"} /\ UNCHANGED <<clicks, locator, executed>>
          /\ stage' \notin {"idle", "by-label", "if-present"}
      <4>1. CASE ClickPoint \/ Tap \/ MouseFails \/ DomDispatch
        BY <4>1 DEF ClickPoint, Tap, MouseFails, DomDispatch, Settle, MouseStages, resolveVars
      <4>2. CASE Mouse
        <5>1. /\ stage \in {"move", "down", "up"} /\ stage' \in {"down", "up", "dispatch"}
              /\ UNCHANGED <<clicks, locator, executed>>
          BY <4>2 DEF Mouse, MouseStages, After, resolveVars
        <5> QED
          BY <5>1
      <4> QED
        BY <2>4, <4>1, <4>2
    <3>2. executed.type = "click-point"
      BY <1>2, <2>4 DEF DriverInv, StageInv, PointStages, MouseStages, ClickPoint, Tap, Mouse, MouseFails, DomDispatch
    <3> QED
      BY <2>1, <3>1, <3>2
  <2>5. CASE MalformedLabel
    <3>1. /\ stage = "idle" /\ UNCHANGED <<clicks, locator>> /\ stage' = "settled" /\ result' = "err"
      BY <2>5 DEF MalformedLabel, Settle
    <3> QED
      BY <2>1, <3>1
  <2>6. CASE ClickByLabel \/ ClickIfPresent
    <3>1. /\ stage = "idle" /\ UNCHANGED <<clicks, locator, result>> /\ tree' \in Trees
      BY <2>6 DEF ClickByLabel, ClickIfPresent, LookUp
    <3>2. result = Null /\ locator = 1
      BY <1>2, <3>1 DEF DriverInv, StageInv, ClicksInv
    <3> QED
      BY <2>1, <3>1, <3>2, OutcomesAssumption
  <2>7. CASE NothingPresent
    <3>1. /\ stage = "if-present" /\ stage' = "settled" /\ UNCHANGED <<clicks, locator, executed>>
          /\ executed.type = "click-if-present" /\ result = Null
          /\ executed' = executed /\ action' = action
      BY <1>2, <2>7 DEF NothingPresent, Settle, DriverInv, StageInv, resolveVars
    <3>2. RetriedWhenLateOnly'
      BY <1>2, <3>1, OutcomesAssumption DEF ClicksInv, RetriedWhenLateOnly
    <3> QED
      BY <1>2, <3>1, <3>2 DEF ClicksInv
  <2>8. CASE UNCHANGED allVars
    BY <1>2, <2>8 DEF ClicksInv, RetriedWhenLateOnly, allVars, resolveVars, driverVars
  <2>9. CASE ButtonClicked \/ ButtonTimesOut
    BY <1>2, <2>9, ButtonOnce
  <2>10. CASE CandidateClicked \/ CandidateMissed
    BY <1>2, <2>10, CandidateOnce
  <2> QED
    BY <1>2, <2>3, <2>4, <2>5, <2>6, <2>7, <2>8, <2>9, <2>10 DEF DriverNext
<1>3. ClicksInv => RetriedWhenLateOnly
  BY DEF ClicksInv
<1> QED
  BY <1>1, <1>2, <1>3, DriverInvariant, PTL DEF DriverSpec

-----------------------------------------------------------------------------
(* The retries.                                                            *)

\* What was met before stays what it was when one more error is met.
LEMMA OneMore ==
  ASSUME errors \in Seq(Errors), NEW err \in Errors, errors' = Append(errors, err)
  PROVE  /\ errors' \in Seq(Errors) /\ Len(errors') = Len(errors) + 1
         /\ \A k \in 1..Len(errors) : errors'[k] = errors[k]
         /\ errors'[Len(errors) + 1] = err
OBVIOUS

\* Of a call that got no response only the last error was not transient, or it was the
\* third (gemini-provider.ts:140-167).
THEOREM CallInvariant == CallSpec => []CallInv
<1> USE DEF Settled
<1>0. Len(Delays) = 2
  BY DEF Delays
<1>1. CallInit => CallInv
  BY <1>0 DEF CallInit, CallInv
<1>2. CallInv /\ [CallNext]_callVars => CallInv'
  <2> SUFFICES ASSUME CallInv, [CallNext]_callVars PROVE CallInv'
    OBVIOUS
  <2>0. errors \in Seq(Errors) /\ attempt \in 0..2 /\ Len(errors) \in Nat
    BY <1>0 DEF CallInv
  <2>1. CASE Responds
    BY <2>1, <1>0, ResponsesAssumption DEF CallInv, Responds
  <2>2. ASSUME NEW err \in Errors, RequestFails(err)
        PROVE  CallInv'
    <3>1. /\ at = "request" /\ errors' = Append(errors, err) /\ response = Null
          /\ Len(errors) = attempt /\ UNCHANGED <<attempt, response>>
      BY <2>2 DEF CallInv, RequestFails
    <3>2. /\ errors' \in Seq(Errors) /\ Len(errors') = attempt + 1
          /\ \A k \in 1..attempt : errors'[k] = errors[k]
          /\ errors'[attempt + 1] = err
      BY <3>1, <2>0, OneMore
    <3>3. \A k \in 1..attempt : IsRetryable(errors'[k])
      BY <3>2 DEF CallInv
    <3>4. CASE ~IsRetryable(err) \/ attempt = Len(Delays)
      <4>1. at' = "settled"
        BY <2>2, <3>4 DEF RequestFails
      <4> QED
        BY <4>1, <3>1, <3>2, <3>3, <3>4, <2>0, <1>0 DEF CallInv
    <3>5. CASE IsRetryable(err) /\ attempt # Len(Delays)
      <4>1. at' = "backoff" /\ attempt < Len(Delays)
        BY <2>2, <3>5, <2>0, <1>0 DEF RequestFails
      <4> QED
        BY <4>1, <3>1, <3>2, <3>3, <3>5, <2>0, <1>0 DEF CallInv
    <3> QED
      BY <3>4, <3>5
  <2>3. CASE Backoff
    <3>1. /\ at = "backoff" /\ at' = "request" /\ attempt' = attempt + 1
          /\ UNCHANGED <<response, errors>> /\ attempt < 2
      BY <2>3, <1>0 DEF CallInv, Backoff
    <3>2. \A k \in 1..attempt' : IsRetryable(errors[k])
      <4> SUFFICES ASSUME NEW k \in 1..attempt + 1 PROVE IsRetryable(errors[k])
        BY <3>1
      <4>1. k \in 1..attempt \/ k = attempt + 1
        BY <2>0
      <4> QED
        BY <4>1, <3>1 DEF CallInv
    <3> QED
      BY <3>1, <3>2, <2>0, <1>0 DEF CallInv
  <2>4. CASE ParseResponse
    BY <2>4, <1>0 DEF CallInv, ParseResponse
  <2>5. CASE UNCHANGED callVars
    BY <2>5, <1>0 DEF CallInv, callVars
  <2> QED
    BY <2>1, <2>2, <2>3, <2>4, <2>5 DEF CallNext
<1> QED
  BY <1>1, <1>2, PTL DEF CallSpec

\* A transient error of one of the first two attempts is not the end of the call; after
\* an error that is not transient, or after the third, no request follows.
THEOREM TransientsSurvived == CallSpec => []TransientSurvived
<1>1. CallInv => TransientSurvived
  <2> SUFFICES ASSUME CallInv PROVE TransientSurvived
    OBVIOUS
  <2>0. /\ Len(Delays) = 2 /\ Len(errors) \in Nat /\ attempt \in 0..2
        /\ DOMAIN errors = 1..Len(errors)
    BY DEF CallInv, Delays
  <2>1. Len(errors) \in {attempt, attempt + 1} /\ Len(errors) <= 3
    BY <2>0 DEF CallInv
  <2>2. ASSUME NEW k \in DOMAIN errors, k < Len(errors)
        PROVE  IsRetryable(errors[k])
    <3> DEFINE n == Len(errors)
    <3>1. k \in 1..n /\ k < n /\ n \in {attempt, attempt + 1}
      BY <2>0, <2>1, <2>2
    <3> HIDE DEF n
    <3>2. k \in 1..attempt
      BY <2>0, <3>1
    <3> QED
      BY <3>2 DEF CallInv
  <2>3. ASSUME NEW k \in DOMAIN errors, k <= Len(Delays), IsRetryable(errors[k]),
               Settled, Len(errors) = k, response = Null
        PROVE  FALSE
    <3>1. Len(errors) = attempt + 1
      BY <2>3 DEF CallInv
    <3>2. k = attempt + 1 /\ attempt # Len(Delays)
      BY <2>0, <2>3, <3>1
    <3> QED
      BY <2>3, <3>2 DEF CallInv
  <2>4. Len(errors) <= Len(Delays) + 1
    <3>1. Len(Delays) + 1 = 3
      BY <2>0
    <3> QED
      BY <2>1, <3>1
  <2>5. \A k \in DOMAIN errors :
          /\ k < Len(errors) => IsRetryable(errors[k])
          /\ k <= Len(Delays) /\ IsRetryable(errors[k]) => ~(Settled /\ Len(errors) = k /\ response = Null)
    BY <2>2, <2>3, Zenon DEF Settled
  <2> QED
    BY <2>4, <2>5, Zenon DEF TransientSurvived
<1> QED
  BY <1>1, CallInvariant, PTL

-----------------------------------------------------------------------------
(* The files of the sessions.                                              *)

\* A record that could be read has a date, the first of all times if the session has
\* not been started.
LEMMA FileDates ==
  ASSUME NEW file \in Files, Whole(file)
  PROVE  Date(file) \in Nat /\ (file.status = "queued" <=> Date(file) = 0)
<1>1. Null \notin Nat
  BY QueriesAssumption
<1> QED
  BY <1>1 DEF Files, Whole, Date, Absent, Torn, Queued, File, Terminal

\* What a worker is about to write is a record.
LEMMA NextFiles ==
  ASSUME FilesInv, NEW s \in Ids, NEW record \in NextRecord(s)
  PROVE  record \in Files \ {Absent}
<1>1. disk[s] \in Files /\ clock \in Nat \ {0}
  BY DEF FilesInv
<1>2. CASE record = Queued
  BY <1>2 DEF Files, Queued, Absent, File
<1>3. CASE record # Queued
  <2>1. /\ Whole(disk[s])
        /\ record \in {Started(disk[s])} \cup {Ended(disk[s], status) : status \in Terminal}
    BY <1>3 DEF NextRecord
  <2>2. /\ disk[s].is = "json" /\ DOMAIN disk[s] = {"is", "status", "startedAt", "endedAt"}
        /\ disk[s] = [x \in DOMAIN disk[s] |-> disk[s][x]]
        /\ disk[s].startedAt \in {Null} \cup (Nat \ {0}) /\ disk[s].endedAt \in {Null} \cup (Nat \ {0})
    BY <1>1, <2>1 DEF Files, Whole, Queued, Absent, Torn, File
  <2>3. CASE record = Started(disk[s])
    <3>1. record = File("json", "running", clock, disk[s].endedAt)
      BY <2>2, <2>3 DEF Started, File
    <3> DEFINE endedAt == disk[s].endedAt
    <3>2. endedAt \in {Null} \cup (Nat \ {0}) /\ record = File("json", "running", clock, endedAt)
      BY <2>2, <3>1
    <3> HIDE DEF endedAt
    <3> QED
      BY <1>1, <3>2 DEF File, Files, Absent
  <2>4. ASSUME NEW end \in Terminal, record = Ended(disk[s], end)
        PROVE  record \in Files \ {Absent}
    <3>1. record = File("json", end, disk[s].startedAt, clock)
      BY <2>2, <2>4 DEF Ended, File
    <3> DEFINE startedAt == disk[s].startedAt
    <3>2. startedAt \in {Null} \cup (Nat \ {0}) /\ record = File("json", end, startedAt, clock)
      BY <2>2, <3>1
    <3> HIDE DEF startedAt
    <3> QED
      BY <1>1, <3>2 DEF File, Files, Absent
  <2> QED
    BY <2>1, <2>3, <2>4
<1> QED
  BY <1>2, <1>3

LEMMA FilesInit == Init => FilesInv /\ RequestInv
<1> SUFFICES ASSUME Init PROVE FilesInv /\ RequestInv
  OBVIOUS
<1>1. {Absent, Torn, Queued, File("json", "running", 1, Null),
       File("json", "completed", 1, 1)} \subseteq Files
  BY DEF Files, File, Terminal
<1>2. FilesInv
  BY <1>1 DEF Init, FilesInv
<1>3. RequestInv
  BY DEF Init, RequestInv, NoRequest
<1> QED
  BY <1>2, <1>3

\* What a file becomes has been seen from then on.
LEMMA PutFile ==
  ASSUME FilesInv, RequestInv, NEW s \in Ids, NEW file \in Files \ {Absent}, Put(s, file)
  PROVE  /\ disk' \in [Ids -> Files] /\ seen' \in [Ids -> SUBSET Files]
         /\ \A t \in Ids : /\ seen[t] \subseteq seen'[t]
                           /\ Absent \in seen'[t] => Absent \in seen[t]
                           /\ disk[t] \in seen[t] => disk'[t] \in seen'[t]
                           /\ seen[t] # {Absent} => seen'[t] # {Absent}
<1>1. disk \in [Ids -> Files] /\ seen \in [Ids -> SUBSET Files]
  BY DEF FilesInv
<1>2. \A t \in Ids : /\ disk'[t] = IF t = s THEN file ELSE disk[t]
                     /\ seen'[t] = IF t = s THEN seen[t] \cup {file} ELSE seen[t]
  BY <1>1 DEF Put
<1>3. disk' \in [Ids -> Files] /\ seen' \in [Ids -> SUBSET Files]
  BY <1>1 DEF Put
<1>4. file # Absent
  OBVIOUS
<1> QED
  BY <1>2, <1>3, <1>4

\* The request is the same, and every file was seen as what it is and as what it was.
LEMMA SameRequest ==
  ASSUME FilesInv, RequestInv, UNCHANGED <<request, missed>>,
         \A t \in Ids : /\ seen[t] \subseteq seen'[t]
                        /\ disk[t] \in seen[t] => disk'[t] \in seen'[t]
                        /\ seen[t] # {Absent} => seen'[t] # {Absent}
  PROVE  RequestInv'
BY DEF RequestInv

LEMMA FilesStep ==
  ASSUME FilesInv, RequestInv, [Next]_vars
  PROVE  FilesInv' /\ RequestInv'
<1>1. CASE Tick \/ UNCHANGED vars
  <2>1. UNCHANGED <<disk, writing, request, seen, missed>> /\ clock' \in Nat \ {0}
    BY <1>1 DEF Tick, vars, FilesInv
  <2> QED
    BY <2>1 DEF FilesInv, RequestInv
<1>2. ASSUME NEW s \in Ids, OpenFile(s)
      PROVE  FilesInv' /\ RequestInv'
  <2>1. PICK record \in NextRecord(s) : writing' = [writing EXCEPT ![s] = record]
    BY <1>2 DEF OpenFile
  <2>2. record \in Files \ {Absent} /\ Torn \in Files \ {Absent}
    BY NextFiles DEF Files, Torn, Absent, File
  <2>3. Put(s, Torn) /\ UNCHANGED <<clock, request, missed>>
    BY <1>2 DEF OpenFile
  <2>4. /\ disk' \in [Ids -> Files] /\ seen' \in [Ids -> SUBSET Files]
        /\ \A t \in Ids : /\ seen[t] \subseteq seen'[t]
                          /\ disk[t] \in seen[t] => disk'[t] \in seen'[t]
                          /\ seen[t] # {Absent} => seen'[t] # {Absent}
    BY <2>2, <2>3, PutFile
  <2>5. RequestInv'
    BY <2>3, <2>4, SameRequest
  <2>6. writing' \in [Ids -> {Null} \cup (Files \ {Absent})]
    BY <2>1, <2>2 DEF FilesInv
  <2> QED
    BY <2>3, <2>4, <2>5, <2>6 DEF FilesInv
<1>3. ASSUME NEW s \in Ids, FillFile(s)
      PROVE  FilesInv' /\ RequestInv'
  <2>1. /\ writing[s] \in Files \ {Absent} /\ writing' = [writing EXCEPT ![s] = Null]
        /\ Put(s, writing[s]) /\ UNCHANGED <<clock, request, missed>>
    BY <1>3 DEF FillFile, FilesInv
  <2>2. /\ disk' \in [Ids -> Files] /\ seen' \in [Ids -> SUBSET Files]
        /\ \A t \in Ids : /\ seen[t] \subseteq seen'[t]
                          /\ disk[t] \in seen[t] => disk'[t] \in seen'[t]
                          /\ seen[t] # {Absent} => seen'[t] # {Absent}
    BY <2>1, PutFile
  <2>3. RequestInv'
    BY <2>1, <2>2, SameRequest
  <2>4. writing' \in [Ids -> {Null} \cup (Files \ {Absent})]
    BY <2>1 DEF FilesInv
  <2> QED
    BY <2>1, <2>2, <2>3, <2>4 DEF FilesInv
<1>4. CASE List
  <2>1. PICK found \in SUBSET Ids :
           /\ Asked(found) /\ missed' \subseteq Ids
           /\ \A s \in Ids \ found : disk[s] = Absent \/ s \in missed'
    <3>1. CASE Asked({}) /\ missed' = Ids
      BY <3>1
    <3>2. CASE \E found \in SUBSET Ids :
                 {s \in Ids : disk[s] # Absent} \subseteq found /\ Asked(found) /\ missed' = {}
      BY <3>2
    <3> QED
      BY <1>4, <3>1, <3>2 DEF List
  <2>2. /\ UNCHANGED <<disk, writing, clock>> /\ seen' = [s \in Ids |-> {disk[s]}]
        /\ request' = [at |-> "reading", query |-> Null,
                        read |-> [s \in found |-> Null], reply |-> << >>]
    BY <2>1 DEF Asked
  <2>3. FilesInv'
    BY <2>2 DEF FilesInv
  <2>4. request'.at = "reading" /\ request'.read = [s \in found |-> Null]
    BY <2>2
  <2>5. DOMAIN request' = {"at", "query", "read", "reply"}
    BY <2>2
  <2> QED
    BY <2>1, <2>2, <2>3, <2>4, <2>5 DEF RequestInv
<1>5. ASSUME NEW s \in Ids, ReadFile(s)
      PROVE  FilesInv' /\ RequestInv'
  <2>1. /\ UNCHANGED <<disk, writing, clock, seen>> /\ request.at = "reading"
        /\ s \in DOMAIN request.read
    BY <1>5 DEF ReadFile
  <2>2. PICK file :
           /\ request' = [request EXCEPT !.read[s] = file]
           /\ file = disk[s] \/ (file = Torn /\ s \in missed')
           /\ missed \subseteq missed' /\ missed' \subseteq missed \cup {s}
    BY <1>5 DEF ReadFile
  <2>3. FilesInv'
    BY <2>1 DEF FilesInv
  <2>4. /\ DOMAIN request' = DOMAIN request /\ request'.at = "reading"
        /\ request'.read = [request.read EXCEPT ![s] = file]
    BY <2>1, <2>2 DEF RequestInv
  <2>5. disk[s] \in seen[s]
    BY <2>1 DEF RequestInv
  <2>6. DOMAIN request'.read = DOMAIN request.read
    BY <2>4
  <2>7. \A t \in DOMAIN request.read : request'.read[t] = IF t = s THEN file ELSE request.read[t]
    BY <2>1, <2>4
  <2>8. request'.read = [t \in DOMAIN request'.read |-> request'.read[t]]
    BY <2>4
  <2>9. missed' \subseteq Ids
    BY <2>2 DEF RequestInv
  <2>10. \A t \in DOMAIN request'.read :
           \/ request'.read[t] \in {Null} \cup seen'[t]
           \/ request'.read[t] = Torn /\ t \in missed'
    BY <2>1, <2>2, <2>5, <2>6, <2>7 DEF RequestInv
  <2>11. \A t \in Ids \ DOMAIN request'.read : Absent \in seen'[t] \/ t \in missed'
    BY <2>1, <2>2, <2>6 DEF RequestInv
  <2> QED
    BY <2>1, <2>3, <2>4, <2>6, <2>8, <2>9, <2>10, <2>11 DEF RequestInv
<1>6. CASE Reply
  <2>1. UNCHANGED <<disk, writing, clock, seen, missed>> /\ request.at = "reading"
    BY <1>6 DEF Reply
  <2>2. request'.at = "replied" /\ DOMAIN request' = {"at", "query", "read", "reply"}
    BY <1>6 DEF Reply
  <2> QED
    BY <2>1, <2>2 DEF FilesInv, RequestInv
<1> QED
  BY <1>1, <1>2, <1>3, <1>4, <1>5, <1>6 DEF Next

-----------------------------------------------------------------------------
(* The list of the sessions.                                               *)

\* w tells the place in the directory of what comes n-th in the sorted list.
Ranking(items, w) ==
  LET N == Cardinality(DOMAIN items) IN
  /\ w \in [1..N -> DOMAIN items]
  /\ DOMAIN Sorted(items) = 1..N /\ \A n \in 1..N : Sorted(items)[n] = items[w[n]]
  /\ \A m, n \in 1..N : m < n => Precedes(items, w[m], w[n])
  /\ \A k \in DOMAIN items : \E n \in 1..N : w[n] = k

\* The sorted list is the listed items, each once, in the order of the sort.
LEMMA SortedItems ==
  ASSUME NEW items, IsFiniteSet(DOMAIN items), DOMAIN items \subseteq Nat,
         \A k \in DOMAIN items : Date(items[k].record) \in Nat
  PROVE  \E w : Ranking(items, w)
<1> DEFINE S == DOMAIN items
           N == Cardinality(S)
           R == {pair \in S \X S : Precedes(items, pair[1], pair[2])}
           place(k) == Cardinality(Before(S, R, k))
           w == [n \in 1..N |-> CHOOSE k \in S : place(k) = n - 1]
<1>1. N \in Nat
  BY FS_CardinalityType
<1>2. \A a, b \in S : <<a, b>> \in R <=> Precedes(items, a, b)
  OBVIOUS
<1>3. StrictOrder(S, R)
  <2> HIDE DEF R
  <2> DEFINE d(k) == Date(items[k].record)
  <2>1. \A a \in S : d(a) \in Nat /\ a \in Nat
    OBVIOUS
  <2>2. \A a, b \in S : <<a, b>> \in R <=> d(a) > d(b) \/ (d(a) = d(b) /\ a < b)
    BY <1>2 DEF Precedes
  <2> HIDE DEF d
  <2> QED
    BY <2>1, <2>2 DEF StrictOrder
<1>4. \A k \in S : place(k) \in 0..N - 1
  <2> HIDE DEF S, R
  <2> QED
    BY <1>3, Ranks DEF S
<1>5. \A j, k \in S : <<j, k>> \in R => place(j) < place(k)
  <2> HIDE DEF S, R
  <2> QED
    BY <1>3, Ranks DEF S
<1>6. \A n \in 0..N - 1 : \E k \in S : place(k) = n
  <2> HIDE DEF S, R
  <2> QED
    BY <1>3, Ranks DEF S
<1> HIDE DEF R
<1>7. \A k \in S : {j \in S : Precedes(items, j, k)} = Before(S, R, k)
  BY <1>2 DEF Before
<1>8. \A k \in S : Cardinality({j \in S : Precedes(items, j, k)}) = place(k)
  BY <1>7
<1> HIDE DEF place
<1>9. ASSUME NEW n \in 1..N
      PROVE  w[n] \in S /\ place(w[n]) = n - 1
  <2>1. n - 1 \in 0..N - 1
    BY <1>1
  <2>2. \E k \in S : place(k) = n - 1
    BY <1>6, <2>1
  <2> QED
    BY <2>2
<1>10. Sorted(items) = [n \in 1..N |-> items[w[n]]]
  <2>1. \A n \in 1..N : (CHOOSE k \in S : Cardinality({j \in S : Precedes(items, j, k)}) = n - 1) = w[n]
    BY <1>8
  <2> DEFINE first(n) == CHOOSE k \in S : Cardinality({j \in S : Precedes(items, j, k)}) = n - 1
  <2>2. Sorted(items) = [n \in 1..N |-> items[first(n)]]
    BY Zenon DEF Sorted
  <2>3. \A n \in 1..N : first(n) = w[n]
    BY <2>1, Zenon
  <2> HIDE DEF first, w
  <2> QED
    BY <2>2, <2>3
<1>11. w \in [1..N -> S]
  BY <1>9
<1> HIDE DEF w
<1>12. \A k \in S : \E n \in 1..N : w[n] = k
  <2> SUFFICES ASSUME NEW k \in S PROVE \E n \in 1..N : w[n] = k
    OBVIOUS
  <2>1. place(k) \in 0..N - 1 /\ place(k) + 1 \in 1..N
    BY <1>1, <1>4
  <2>2. place(w[place(k) + 1]) = place(k) /\ w[place(k) + 1] \in S
    BY <1>9, <2>1
  <2>3. w[place(k) + 1] = k
    <3> DEFINE j == w[place(k) + 1]
    <3>1. j \in S /\ place(j) = place(k) /\ place(j) \in Nat
      BY <2>1, <2>2
    <3> HIDE DEF j
    <3>2. ~(place(j) < place(k)) /\ ~(place(k) < place(j))
      BY <3>1
    <3>3. j = k
      BY <1>3, <1>5, <3>1, <3>2 DEF StrictOrder
    <3> QED
      BY <3>3 DEF j
  <2> QED
    BY <2>1, <2>3
<1>13. \A m, n \in 1..N : m < n => Precedes(items, w[m], w[n])
  <2> SUFFICES ASSUME NEW m \in 1..N, NEW n \in 1..N, m < n PROVE Precedes(items, w[m], w[n])
    OBVIOUS
  <2>1. w[m] \in S /\ w[n] \in S /\ place(w[m]) = m - 1 /\ place(w[n]) = n - 1
    BY <1>9
  <2>2. place(w[m]) < place(w[n]) /\ ~(place(w[n]) < place(w[m]))
    BY <2>1
  <2>3. w[m] # w[n] /\ <<w[n], w[m]>> \notin R
    BY <1>5, <2>1, <2>2
  <2>4. <<w[m], w[n]>> \in R
    BY <1>3, <2>1, <2>3 DEF StrictOrder
  <2> QED
    BY <1>2, <2>1, <2>4
<1>14. DOMAIN Sorted(items) = 1..N /\ \A n \in 1..N : Sorted(items)[n] = items[w[n]]
  BY <1>10
<1> QED
  BY <1>11, <1>12, <1>13, <1>14 DEF Ranking

\* r is what is cut out of a list of N.
Piece(r, s, N, offset, limit) ==
  /\ Len(r) = (IF N <= offset THEN 0 ELSE IF N - offset < limit THEN N - offset ELSE limit)
  /\ DOMAIN r = 1..Len(r)
  /\ \A j \in 1..Len(r) : offset + j \in 1..N /\ r[j] = s[offset + j]

LEMMA Cut ==
  ASSUME NEW s, NEW N \in Nat, NEW offset \in Nat, NEW limit \in Nat,
         NEW r, DOMAIN s = 1..N, Len(s) = N, r = Slice(s, offset, limit)
  PROVE  Piece(r, s, N, offset, limit)
<1> DEFINE last == AtMost(N, offset + limit)
           S == {s[i] : i \in 1..N}
<1>1. NaN \notin {offset, limit}
  BY QueriesAssumption
<1>2. r = SubSeq(s, offset + 1, last)
  BY <1>1 DEF Slice
<1>3. last \in Int /\ last <= N /\ last = (IF offset + limit > N THEN N ELSE offset + limit)
  BY DEF AtMost
<1>4. \A i \in offset + 1..last : i \in 1..N /\ s[i] \in S
  BY <1>3
<1> HIDE DEF S
<1>5. /\ r \in Seq(S) /\ Len(r) = (IF offset + 1 <= last THEN last - (offset + 1) + 1 ELSE 0)
      /\ \A i \in 1..last - (offset + 1) + 1 : r[i] = s[offset + 1 + i - 1]
  <2> HIDE DEF last
  <2>1. offset + 1 \in Int
    OBVIOUS
  <2> QED
    BY <1>2, <1>3, <1>4, <2>1, SubSeqProperties
<1> HIDE DEF last
<1>6. Len(r) = (IF offset + 1 <= last THEN last - offset ELSE 0) /\ DOMAIN r = 1..Len(r)
  BY <1>3, <1>5
<1>7. Len(r) = (IF N <= offset THEN 0 ELSE IF N - offset < limit THEN N - offset ELSE limit)
  BY <1>3, <1>6
<1>8. ASSUME NEW j \in 1..Len(r)
      PROVE  offset + j \in 1..N /\ r[j] = s[offset + j]
  <2>1. j \in 1..last - (offset + 1) + 1 /\ offset + 1 + j - 1 = offset + j /\ offset + j \in offset + 1..last
    BY <1>3, <1>6
  <2> QED
    BY <1>4, <1>5, <2>1
<1> QED
  BY <1>6, <1>7, <1>8 DEF Piece

LEMMA IdsFinite == IsFiniteSet(Ids) /\ Ids = {Sessions[k] : k \in DOMAIN Sessions}
<1> DEFINE f == [k \in 1..Len(Sessions) |-> Sessions[k]]
<1>1. Ids = {Sessions[k] : k \in DOMAIN Sessions}
  BY DEF Ids, ToSet
<1>2. f \in Surjection(1..Len(Sessions), Ids)
  BY <1>1, SessionsAssumption DEF Surjection
<1>3. IsFiniteSet(1..Len(Sessions))
  BY SessionsAssumption, FS_Interval
<1> HIDE DEF f
<1> QED
  BY <1>1, <1>2, <1>3, FS_Surjection

\* The session could be read whenever the request came to it.
Steady(s) == s \notin missed /\ \A file \in seen[s] : Whole(file)

\* What a reply is made of: records that were seen, of every session whose file could be
\* read all the time, and of none that was absent all the time.
LEMMA ItemsRead ==
  ASSUME FilesInv, RequestInv, request.at = "reading",
         \A s \in DOMAIN request.read : request.read[s] # Null
  PROVE  /\ IsFiniteSet(DOMAIN Items) /\ DOMAIN Items \subseteq DOMAIN Sessions
         /\ DOMAIN Items \subseteq Nat
         /\ \A k \in DOMAIN Items :
              /\ Items[k].id = Sessions[k] /\ Items[k].record \in seen[Sessions[k]]
              /\ Items[k].record \in Files /\ Whole(Items[k].record)
              /\ Sessions[k] \in Ids /\ seen[Sessions[k]] # {Absent}
         /\ \A s \in Ids : Steady(s) => \E k \in DOMAIN Items : Sessions[k] = s
<1> DEFINE found == {k \in DOMAIN Sessions :
                       Sessions[k] \in DOMAIN request.read /\ Whole(request.read[Sessions[k]])}
<1>1. DOMAIN Sessions = 1..Len(Sessions) /\ Len(Sessions) \in Nat
  BY SessionsAssumption
<1>2. DOMAIN Items = found /\ found \subseteq DOMAIN Sessions
  BY DEF Items
<1>3. \A k \in found : Items[k].id = Sessions[k] /\ Items[k].record = request.read[Sessions[k]]
  BY DEF Items
<1>4. IsFiniteSet(found)
  <2>1. found \in SUBSET (1..Len(Sessions)) /\ IsFiniteSet(1..Len(Sessions))
    BY <1>1, FS_Interval
  <2> QED
    BY <2>1, FS_Subset
<1>5. \A s \in DOMAIN request.read :
        /\ s \in Ids
        /\ request.read[s] \in seen[s] \/ (request.read[s] = Torn /\ s \in missed)
  BY DEF RequestInv
<1>6. \A s \in Ids : seen[s] \subseteq Files
  BY DEF FilesInv
<1>7. ASSUME NEW s \in Ids, Steady(s)
      PROVE  \E k \in found : Sessions[k] = s
  <2>1. Absent \notin seen[s] /\ s \notin missed
    BY <1>7 DEF Steady, Whole, Absent, File
  <2>2. s \in DOMAIN request.read
    BY <2>1 DEF RequestInv
  <2>3. Whole(request.read[s])
    BY <1>5, <1>7, <2>1, <2>2 DEF Steady
  <2>4. PICK k \in DOMAIN Sessions : Sessions[k] = s
    BY IdsFinite
  <2> QED
    BY <2>2, <2>3, <2>4
<1>8. \A k \in found : Whole(request.read[Sessions[k]]) /\ Sessions[k] \in DOMAIN request.read /\ k \in Nat
  BY <1>1
<1> HIDE DEF found
<1>9. ASSUME NEW k \in found
      PROVE  /\ Items[k].id = Sessions[k] /\ Items[k].record \in seen[Sessions[k]]
             /\ Items[k].record \in Files /\ Whole(Items[k].record)
             /\ Sessions[k] \in Ids /\ seen[Sessions[k]] # {Absent}
  <2> DEFINE s == Sessions[k]
  <2>1. Items[k].id = s /\ Items[k].record = request.read[s]
    BY <1>3, Zenon
  <2>2. s \in DOMAIN request.read /\ Whole(request.read[s])
    BY <1>8
  <2>3. s \in Ids /\ request.read[s] \in seen[s] /\ seen[s] # {Absent}
    <3>1. ~Whole(Torn) /\ ~Whole(Absent)
      BY DEF Whole, Torn, Absent, File
    <3> QED
      BY <1>5, <2>2, <3>1
  <2> HIDE DEF s
  <2>4. Items[k].record \in Files
    BY <1>6, <2>1, <2>3
  <2>5. Whole(Items[k].record)
    BY <2>1, <2>2, Zenon
  <2> QED
    BY <2>1, <2>3, <2>4, <2>5 DEF s
<1> QED
  BY <1>2, <1>4, <1>7, <1>8, <1>9

\* The clamped limit and offset.
LEMMA Clamped ==
  ASSUME NEW query \in Queries
  PROVE  Limit(query) \in Nat \cup {NaN} /\ Offset(query) \in Nat \cup {NaN}
<1>1. query.limit \in Int \cup {Null, NaN} /\ query.offset \in Int \cup {Null, NaN}
  BY QueriesAssumption
<1>2. Limit(query) \in Nat \cup {NaN}
  <2>1. CASE query.limit = Null
    BY <2>1 DEF Limit
  <2>2. CASE query.limit # Null /\ query.limit = NaN
    BY <2>2 DEF Limit
  <2>3. CASE query.limit # Null /\ query.limit # NaN
    <3>1. Limit(query) = AtMost(500, AtLeast(1, query.limit)) /\ query.limit \in Int
      BY <1>1, <2>3 DEF Limit
    <3> QED
      BY <3>1 DEF AtMost, AtLeast
  <2> QED
    BY <2>1, <2>2, <2>3
<1>3. Offset(query) \in Nat \cup {NaN}
  <2>1. CASE query.offset = Null
    BY <2>1 DEF Offset
  <2>2. CASE query.offset # Null /\ query.offset = NaN
    BY <2>2 DEF Offset
  <2>3. CASE query.offset # Null /\ query.offset # NaN
    <3>1. Offset(query) = AtLeast(0, query.offset) /\ query.offset \in Int
      BY <1>1, <2>3 DEF Offset
    <3> QED
      BY <3>1 DEF AtLeast
  <2> QED
    BY <2>1, <2>2, <2>3
<1> QED
  BY <1>2, <1>3

\* A numbering of a set's members counts them if no two numbers are the same one's.
LEMMA Numbered ==
  ASSUME NEW D, IsFiniteSet(D), NEW f, f \in [D -> Ids],
         \A j, k \in D : f[j] = f[k] => j = k
  PROVE  LET image == {f[k] : k \in D}
         IN IsFiniteSet(image) /\ Cardinality(image) = Cardinality(D)
<1> DEFINE image == {f[k] : k \in D}
<1>1. f \in Surjection(D, image) /\ f \in Injection(D, image)
  BY DEF Surjection, Injection, IsInjective
<1> HIDE DEF image
<1>2. IsFiniteSet(image) /\ (Cardinality(image) = Cardinality(D) <=> f \in Injection(D, image))
  BY <1>1, FS_Surjection
<1> QED
  BY <1>1, <1>2 DEF image

\* As many sessions are listed, before the list is cut, as at least could be read all the
\* time and as at most were known.
LEMMA Known ==
  ASSUME FilesInv, RequestInv, request.at = "reading",
         \A s \in DOMAIN request.read : request.read[s] # Null
  PROVE  LET N == Cardinality(DOMAIN Items) IN
         /\ N \in Nat
         /\ Cardinality({s \in Ids : Steady(s)}) \in 0..N
         /\ Cardinality({s \in Ids : seen[s] # {Absent}}) \in Nat
         /\ N <= Cardinality({s \in Ids : seen[s] # {Absent}})
<1> DEFINE D == DOMAIN Items
           f == [k \in D |-> Sessions[k]]
           F == {f[k] : k \in D}
           steady == {s \in Ids : Steady(s)}
           known == {s \in Ids : seen[s] # {Absent}}
<1>1. /\ IsFiniteSet(D) /\ D \subseteq DOMAIN Sessions
      /\ \A k \in D : Sessions[k] \in known
      /\ \A s \in steady : \E k \in D : Sessions[k] = s
  BY ItemsRead
<1> HIDE DEF D
<1>2. f \in [D -> Ids] /\ \A k \in D : f[k] = Sessions[k]
  BY <1>1
<1>3. \A j, k \in D : f[j] = f[k] => j = k
  BY <1>1, <1>2, SessionsAssumption
<1>4. steady \subseteq F /\ F \subseteq known /\ known \subseteq Ids
  BY <1>1, <1>2
<1> HIDE DEF f, steady, known
<1>5. IsFiniteSet(F) /\ Cardinality(F) = Cardinality(D)
  BY <1>1, <1>2, <1>3, Numbered
<1> HIDE DEF F
<1>6. IsFiniteSet(known) /\ IsFiniteSet(steady)
  BY <1>4, <1>5, IdsFinite, FS_Subset
<1>7. Cardinality(steady) <= Cardinality(F) /\ Cardinality(F) <= Cardinality(known)
  BY <1>4, <1>5, <1>6, FS_Subset
<1>8. Cardinality(D) \in Nat /\ Cardinality(steady) \in Nat /\ Cardinality(known) \in Nat
  BY <1>1, <1>6, FS_CardinalityType
<1>9. /\ Cardinality(D) \in Nat /\ Cardinality(steady) \in 0..Cardinality(D)
      /\ Cardinality(known) \in Nat /\ Cardinality(D) <= Cardinality(known)
  BY <1>5, <1>7, <1>8
<1> QED
  BY <1>9 DEF D, steady, known

\* v tells which of the items each entry of the reply is.
Picked(r, v, items) ==
  /\ v \in [1..Len(r) -> DOMAIN items]
  /\ \A j \in 1..Len(r) : r[j] = items[v[j]]
  /\ \A i, j \in 1..Len(r) : i < j => Precedes(items, v[i], v[j])

\* r is what is replied for an offset and a limit.
Answers(r, items, offset, limit) ==
  LET N == Cardinality(DOMAIN items) IN
  /\ Len(r) = (IF N <= offset THEN 0 ELSE IF N - offset < limit THEN N - offset ELSE limit)
  /\ Len(r) \in Nat /\ DOMAIN r = 1..Len(r)
  /\ \E v : /\ Picked(r, v, items)
            /\ offset = 0 /\ Len(r) = N =>
                 \A k \in DOMAIN items : \E j \in 1..Len(r) : v[j] = k

LEMMA Answered ==
  ASSUME FilesInv, RequestInv, request.at = "reading",
         \A s \in DOMAIN request.read : request.read[s] # Null,
         NEW offset \in Nat, NEW limit \in Nat,
         NEW r, r = Slice(Sorted(Items), offset, limit)
  PROVE  Answers(r, Items, offset, limit)
<1> DEFINE items == Items
           N == Cardinality(DOMAIN items)
           sorted == Sorted(items)
           L == Len(r)
<1>1. IsFiniteSet(DOMAIN items) /\ DOMAIN items \subseteq Nat
  BY ItemsRead
<1>2. \A k \in DOMAIN items : Date(items[k].record) \in Nat
  BY ItemsRead, FileDates
<1>3. N \in Nat
  BY <1>1, FS_CardinalityType
<1> HIDE DEF items
<1>4. PICK w : Ranking(items, w)
  BY <1>1, <1>2, SortedItems
<1>5. /\ w \in [1..N -> DOMAIN items]
      /\ DOMAIN sorted = 1..N /\ \A n \in 1..N : sorted[n] = items[w[n]]
      /\ \A m, n \in 1..N : m < n => Precedes(items, w[m], w[n])
      /\ \A k \in DOMAIN items : \E n \in 1..N : w[n] = k
  BY <1>4 DEF Ranking
<1>6. Len(sorted) = N
  <2> HIDE DEF sorted, N
  <2> QED
    BY <1>3, <1>5
<1>7. r = Slice(sorted, offset, limit)
  BY DEF items
<1> HIDE DEF sorted, N
<1>8. /\ L = (IF N <= offset THEN 0 ELSE IF N - offset < limit THEN N - offset ELSE limit)
      /\ DOMAIN r = 1..L /\ \A j \in 1..L : offset + j \in 1..N /\ r[j] = sorted[offset + j]
  <2>1. offset \in Nat /\ limit \in Nat /\ DOMAIN sorted = 1..N
    BY <1>5
  <2> QED
    BY <1>3, <1>6, <1>7, <2>1, Cut DEF Piece
<1> HIDE DEF L
<1>9. L \in Nat
  BY <1>3, <1>8
<1> DEFINE v == [j \in 1..L |-> w[offset + j]]
<1>10. \A j \in 1..L : v[j] = w[offset + j] /\ v[j] \in DOMAIN items /\ r[j] = items[v[j]]
  BY <1>5, <1>8
<1>11. v \in [1..L -> DOMAIN items]
  BY <1>10
<1> HIDE DEF v
<1>12. ASSUME NEW i \in 1..L, NEW j \in 1..L, i < j
       PROVE  Precedes(items, v[i], v[j])
  <2>1. offset + i \in 1..N /\ offset + j \in 1..N /\ offset + i < offset + j
    BY <1>8, <1>9, <1>12
  <2>2. Precedes(items, w[offset + i], w[offset + j])
    BY <1>5, <2>1
  <2> QED
    BY <1>10, <2>2
<1>13. ASSUME offset = 0, L = N, NEW k \in DOMAIN items
       PROVE  \E j \in 1..L : v[j] = k
  <2>1. PICK n \in 1..N : w[n] = k
    BY <1>5
  <2>2. n \in 1..L /\ offset + n = n
    BY <1>13
  <2> QED
    BY <1>10, <2>1, <2>2
<1>14. Picked(r, v, items)
  BY <1>10, <1>11, <1>12 DEF Picked, L
<1>15. offset = 0 /\ L = N => \A k \in DOMAIN items : \E j \in 1..L : v[j] = k
  BY <1>13
<1>16. \E x : Picked(r, x, items) /\ (offset = 0 /\ L = N => \A k \in DOMAIN items : \E j \in 1..L : x[j] = k)
  BY <1>14, <1>15
<1> QED
  BY <1>8, <1>9, <1>16 DEF Answers, L, N, items

\* The entries of a reply: each session once, with what it was, in the order of the sort.
LEMMA Truthful ==
  ASSUME FilesInv, RequestInv, request.at = "reading",
         \A s \in DOMAIN request.read : request.read[s] # Null,
         NEW r, Len(r) \in Nat, DOMAIN r = 1..Len(r), NEW v, Picked(r, v, Items)
  PROVE  /\ Cardinality({r[k].id : k \in DOMAIN r}) = Len(r)
         /\ \A k \in DOMAIN r : r[k].record \in seen[r[k].id]
         /\ \A j, k \in DOMAIN r : j < k =>
              /\ r[j].record.status = "queued" => r[k].record.status = "queued"
              /\ Date(r[j].record) >= Date(r[k].record)
<1> DEFINE items == Items
           L == Len(r)
           f == [j \in 1..L |-> Sessions[v[j]]]
<1>1. /\ DOMAIN items \subseteq DOMAIN Sessions /\ DOMAIN items \subseteq Nat
      /\ \A k \in DOMAIN items :
           /\ items[k].id = Sessions[k] /\ items[k].record \in seen[Sessions[k]]
           /\ items[k].record \in Files /\ Whole(items[k].record) /\ Sessions[k] \in Ids
  BY ItemsRead
<1> HIDE DEF items
<1>2. /\ v \in [1..L -> DOMAIN items] /\ \A j \in 1..L : r[j] = items[v[j]]
      /\ \A i, j \in 1..L : i < j => Precedes(items, v[i], v[j])
  BY DEF Picked, items
<1>3. L \in Nat /\ DOMAIN r = 1..L
  OBVIOUS
<1> HIDE DEF L
<1>4. \A j \in 1..L : /\ v[j] \in DOMAIN items /\ v[j] \in Nat /\ r[j].id = Sessions[v[j]]
                      /\ r[j].record = items[v[j]].record
                      /\ Sessions[v[j]] \in Ids /\ v[j] \in DOMAIN Sessions
  BY <1>1, <1>2
<1>5. \A j \in 1..L : /\ r[j].record \in seen[r[j].id] /\ Date(r[j].record) \in Nat
                      /\ (r[j].record.status = "queued" <=> Date(r[j].record) = 0)
  BY <1>1, <1>4, FileDates
<1>6. \A j, k \in 1..L : j < k =>
        \/ Date(r[j].record) > Date(r[k].record)
        \/ Date(r[j].record) = Date(r[k].record) /\ v[j] < v[k]
  BY <1>2, <1>4 DEF Precedes
<1>7. \A j, k \in 1..L : j < k => v[j] # v[k]
  BY <1>4, <1>5, <1>6
<1>8. \A j, k \in 1..L : f[j] = f[k] => j = k
  <2> SUFFICES ASSUME NEW j \in 1..L, NEW k \in 1..L, f[j] = f[k] PROVE j = k
    OBVIOUS
  <2>1. v[j] = v[k]
    BY <1>4, SessionsAssumption
  <2> QED
    BY <1>3, <1>7, <2>1
<1>9. f \in [1..L -> Ids] /\ \A j \in 1..L : f[j] = r[j].id
  BY <1>4
<1> HIDE DEF f
<1>10. IsFiniteSet(1..L) /\ Cardinality(1..L) = L
  BY <1>3, FS_Interval
<1>11. Cardinality({f[k] : k \in 1..L}) = L
  <2> DEFINE D == 1..L
  <2>1. /\ IsFiniteSet(D) /\ Cardinality(D) = L
        /\ f \in [D -> Ids] /\ \A j, k \in D : f[j] = f[k] => j = k
    BY <1>8, <1>9, <1>10
  <2> HIDE DEF D
  <2>2. Cardinality({f[k] : k \in D}) = L
    BY <2>1, Numbered
  <2> QED
    BY <2>2 DEF D
<1>12. {f[k] : k \in 1..L} = {r[k].id : k \in DOMAIN r}
  BY <1>3, <1>9
<1>13. \A j, k \in DOMAIN r : j < k =>
         /\ r[j].record.status = "queued" => r[k].record.status = "queued"
         /\ Date(r[j].record) >= Date(r[k].record)
  BY <1>3, <1>5, <1>6
<1>14. \A k \in DOMAIN r : r[k].record \in seen[r[k].id]
  BY <1>3, <1>5
<1>15. Cardinality({r[k].id : k \in DOMAIN r}) = Len(r)
  BY <1>11, <1>12 DEF L
<1> QED
  BY <1>13, <1>14, <1>15, Zenon

\* The reply makes both properties true.
LEMMA ReplyRight ==
  ASSUME FilesInv, RequestInv, Reply
  PROVE  ListedInv' /\ ReplyTruthful' /\ NothingWithheld'
<1>1. /\ request.at = "reading" /\ \A s \in DOMAIN request.read : request.read[s] # Null
      /\ seen' = seen /\ missed' = missed
  BY DEF Reply
<1>2. PICK query \in Queries :
        request' = [at |-> "replied", query |-> query, read |-> Null,
                    reply |-> Slice(Sorted(Items), Offset(query), Limit(query))]
  BY DEF Reply
<1> DEFINE r == request'.reply
           limit == Limit(query)
           offset == Offset(query)
           N == Cardinality(DOMAIN Items)
           steady == {s \in Ids : Steady(s)}
           known == {s \in Ids : seen[s] # {Absent}}
<1>3. request'.query = query /\ r = Slice(Sorted(Items), offset, limit)
  BY <1>2
<1>4. limit \in Nat \cup {NaN} /\ offset \in Nat \cup {NaN}
  BY Clamped
<1>5. CASE NaN \in {limit, offset}
  <2>1. r = << >>
    BY <1>3, <1>5 DEF Slice
  <2>2. Listed' = {} /\ Cardinality({}) = 0 /\ Len(r) = 0 /\ Len(r) \in Nat /\ DOMAIN r = {}
    BY <2>1, FS_EmptySet DEF Listed
  <2>3. ReplyTruthful'
    BY <2>2 DEF ReplyTruthful
  <2>4. NothingWithheld'
    BY <1>3, <1>5, <2>1 DEF NothingWithheld
  <2> QED
    BY <1>3, <2>2, <2>3, <2>4 DEF ListedInv
<1>6. CASE NaN \notin {limit, offset}
  <2>1. limit \in Nat /\ offset \in Nat
    BY <1>4, <1>6
  <2> HIDE DEF limit, offset, r
  <2>2. /\ Len(r) = (IF N <= offset THEN 0 ELSE IF N - offset < limit THEN N - offset ELSE limit)
        /\ Len(r) \in Nat /\ DOMAIN r = 1..Len(r)
        /\ \E v : /\ Picked(r, v, Items)
                  /\ offset = 0 /\ Len(r) = N =>
                       \A k \in DOMAIN Items : \E j \in 1..Len(r) : v[j] = k
    <3>1. Answers(r, Items, offset, limit)
      BY <1>1, <1>3, <2>1, Answered, Zenon
    <3> QED
      BY <3>1 DEF Answers
  <2>3. PICK v : /\ Picked(r, v, Items)
                 /\ offset = 0 /\ Len(r) = N =>
                      \A k \in DOMAIN Items : \E j \in 1..Len(r) : v[j] = k
    BY <2>2
  <2>4. /\ Cardinality({r[k].id : k \in DOMAIN r}) = Len(r)
        /\ \A k \in DOMAIN r : r[k].record \in seen[r[k].id]
        /\ \A j, k \in DOMAIN r : j < k =>
             /\ r[j].record.status = "queued" => r[k].record.status = "queued"
             /\ Date(r[j].record) >= Date(r[k].record)
    BY <1>1, <2>2, <2>3, Truthful
  <2>5. ReplyTruthful'
    BY <1>1, <2>4, Zenon DEF ReplyTruthful, Listed, r
  <2>6. /\ N \in Nat /\ Cardinality(steady) \in 0..N
        /\ Cardinality(known) \in Nat /\ N <= Cardinality(known)
    BY <1>1, Known
  <2>7. ASSUME Len(r) < limit, offset = 0, NEW s \in steady
        PROVE  s \in {r[k].id : k \in DOMAIN r}
    <3>1. Len(r) = N
      <4> HIDE DEF N, steady, known
      <4> QED
        BY <2>1, <2>2, <2>6, <2>7
    <3>2. PICK k \in DOMAIN Items : Sessions[k] = s /\ Items[k].id = Sessions[k]
      BY <1>1, <2>7, ItemsRead
    <3>3. PICK j \in 1..Len(r) : v[j] = k
      BY <2>3, <2>7, <3>1, <3>2
    <3>4. r[j] = Items[k]
      BY <2>3, <3>3 DEF Picked
    <3> QED
      BY <2>2, <3>2, <3>3, <3>4
  <2>8. /\ Len(r) <= limit
        /\ Len(r) >= AtMost(limit, Cardinality(steady) - offset)
        /\ Len(r) <= AtLeast(0, Cardinality(known) - offset)
    <3> HIDE DEF N, steady, known
    <3> QED
      BY <2>1, <2>2, <2>6 DEF AtMost, AtLeast
  <2>9. NothingWithheld'
    <3>1. /\ steady = {s \in Ids : s \notin missed' /\ \A file \in seen'[s] : Whole(file)}
          /\ known = {s \in Ids : seen'[s] # {Absent}}
      BY <1>1 DEF Steady
    <3>2. Len(r) < limit /\ offset = 0 =>
            \A s \in Ids : (s \notin missed' /\ \A file \in seen'[s] : Whole(file)) =>
                              s \in Listed'
      BY <1>1, <2>7 DEF Listed, Steady, r
    <3> HIDE DEF steady, known
    <3> QED
      BY <1>3, <1>6, <2>8, <3>1, <3>2 DEF NothingWithheld, r, limit, offset
  <2>10. ASSUME NEW k \in DOMAIN r
         PROVE  r[k].id \in Ids
    <3>1. v[k] \in DOMAIN Items /\ r[k] = Items[v[k]]
      BY <2>2, <2>3 DEF Picked
    <3> QED
      BY <1>1, <3>1, ItemsRead
  <2>11. ListedInv'
    BY <1>3, <2>2, <2>10 DEF ListedInv, Listed, r
  <2> QED
    BY <2>5, <2>9, <2>11
<1> QED
  BY <1>5, <1>6

\* What was replied stays right whatever becomes of the files.
LEMMA ReplyStays ==
  ASSUME ListingInv, FilesInv', UNCHANGED <<request, missed>>,
         \A t \in Ids : /\ seen[t] \subseteq seen'[t]
                        /\ seen[t] # {Absent} => seen'[t] # {Absent}
  PROVE  ListedInv' /\ ReplyTruthful' /\ NothingWithheld'
<1>1. CASE ~Replied
  BY <1>1 DEF Replied, ListedInv, ReplyTruthful, NothingWithheld
<1>2. CASE Replied
  <2> DEFINE limit == Limit(request.query)
             offset == Offset(request.query)
             L == Len(request.reply)
             steady == {s \in Ids : Steady(s)}
             steadyNext == {s \in Ids : Steady(s)'}
             known == {s \in Ids : seen[s] # {Absent}}
             knownNext == {s \in Ids : seen'[s] # {Absent}}
  <2>1. Listed' = Listed /\ Listed \subseteq Ids
    BY <1>2 DEF ListingInv, ListedInv, Listed
  <2>2. ReplyTruthful'
    <3>1. \A k \in DOMAIN request.reply : request.reply[k].record \in seen'[request.reply[k].id]
      BY <1>2, <2>1 DEF ListingInv, ReplyTruthful, Listed
    <3> QED
      BY <1>2, <2>1, <3>1, Zenon DEF ListingInv, ReplyTruthful
  <2>3. /\ steadyNext \subseteq steady /\ steady \subseteq Ids
        /\ known \subseteq knownNext /\ knownNext \subseteq Ids
    BY DEF Steady
  <2>4. CASE NaN \in {limit, offset}
    BY <1>2, <2>1, <2>2, <2>4 DEF ListingInv, ListedInv, NothingWithheld
  <2>5. CASE NaN \notin {limit, offset}
    <3>1. /\ L <= limit /\ L >= AtMost(limit, Cardinality(steady) - offset)
          /\ L < limit /\ offset = 0 => \A s \in Ids : Steady(s) => s \in Listed
          /\ L <= AtLeast(0, Cardinality(known) - offset)
      BY <1>2, <2>5 DEF ListingInv, NothingWithheld, Steady
    <3>2. L < limit /\ offset = 0 => \A s \in Ids : Steady(s)' => s \in Listed
      BY <3>1, <2>3
    <3>3. limit \in Nat /\ offset \in Nat /\ L \in Nat
      BY <1>2, <2>5, Clamped DEF ListingInv, ListedInv
    <3> HIDE DEF limit, offset, L
    <3>4. /\ Cardinality(steadyNext) \in Nat /\ Cardinality(steady) \in Nat
          /\ Cardinality(steadyNext) <= Cardinality(steady)
          /\ Cardinality(known) \in Nat /\ Cardinality(knownNext) \in Nat
          /\ Cardinality(known) <= Cardinality(knownNext)
      <4> HIDE DEF steady, steadyNext, known, knownNext
      <4>1. IsFiniteSet(steady) /\ IsFiniteSet(knownNext)
        BY <2>3, IdsFinite, FS_Subset
      <4>2. IsFiniteSet(steadyNext) /\ IsFiniteSet(known)
        BY <2>3, <4>1, FS_Subset
      <4> QED
        BY <2>3, <4>1, <4>2, FS_Subset, FS_CardinalityType
    <3>5. L >= AtMost(limit, Cardinality(steadyNext) - offset) /\ L <= AtLeast(0, Cardinality(knownNext) - offset)
      <4> HIDE DEF steady, steadyNext, known, knownNext
      <4> QED
        BY <3>1, <3>3, <3>4 DEF AtMost, AtLeast
    <3>6. NothingWithheld'
      BY <2>1, <2>5, <3>1, <3>2, <3>5 DEF NothingWithheld, Steady, limit, offset, L
    <3> QED
      BY <1>2, <2>1, <2>2, <3>6 DEF ListingInv, ListedInv
  <2> QED
    BY <2>4, <2>5
<1> QED
  BY <1>1, <1>2

\* The invariant of the list: what a request has read was on disk at some time while it
\* was served, and what it replied follows from that
\* (filesystem-session-repository.ts:89-111).
THEOREM ListingInvariant == Spec => []ListingInv
<1>1. Init => ListingInv
  <2> SUFFICES ASSUME Init PROVE ListingInv
    OBVIOUS
  <2>1. ~Replied
    BY DEF Init, NoRequest, Replied
  <2> QED
    BY <2>1, FilesInit DEF ListingInv, ListedInv, ReplyTruthful, NothingWithheld
<1>2. ASSUME ListingInv, [Next]_vars
      PROVE  ListingInv'
  <2>1. FilesInv /\ RequestInv /\ FilesInv' /\ RequestInv'
    BY <1>2, FilesStep DEF ListingInv
  <2>2. ASSUME ~Replied' PROVE ListedInv' /\ ReplyTruthful' /\ NothingWithheld'
    BY <2>2 DEF ListedInv, ReplyTruthful, NothingWithheld
  <2>3. CASE Tick \/ UNCHANGED vars
    <3>1. UNCHANGED <<request, seen, missed>>
      BY <2>3 DEF Tick, vars
    <3> QED
      BY <1>2, <2>1, <3>1, ReplyStays DEF ListingInv
  <2>4. ASSUME NEW s \in Ids, OpenFile(s)
        PROVE  ListingInv'
    <3>1. Torn \in Files \ {Absent} /\ Put(s, Torn) /\ UNCHANGED <<request, missed>>
      BY <2>4 DEF OpenFile, Files, Torn, Absent, File
    <3>2. \A t \in Ids : /\ seen[t] \subseteq seen'[t]
                         /\ seen[t] # {Absent} => seen'[t] # {Absent}
      BY <2>1, <3>1, PutFile
    <3> QED
      BY <1>2, <2>1, <3>1, <3>2, ReplyStays DEF ListingInv
  <2>5. ASSUME NEW s \in Ids, FillFile(s)
        PROVE  ListingInv'
    <3>1. writing[s] \in Files \ {Absent} /\ Put(s, writing[s]) /\ UNCHANGED <<request, missed>>
      BY <2>1, <2>5 DEF FillFile, FilesInv
    <3>2. \A t \in Ids : /\ seen[t] \subseteq seen'[t]
                         /\ seen[t] # {Absent} => seen'[t] # {Absent}
      BY <2>1, <3>1, PutFile
    <3> QED
      BY <1>2, <2>1, <3>1, <3>2, ReplyStays DEF ListingInv
  <2>6. CASE List
    <3>1. ~Replied'
      BY <2>6 DEF List, Asked, Replied
    <3> QED
      BY <2>1, <2>2, <3>1 DEF ListingInv
  <2>7. ASSUME NEW s \in Ids, ReadFile(s)
        PROVE  ListingInv'
    <3>1. ~Replied'
      BY <2>1, <2>7 DEF ReadFile, Replied, RequestInv
    <3> QED
      BY <2>1, <2>2, <3>1 DEF ListingInv
  <2>8. CASE Reply
    BY <2>1, <2>8, ReplyRight DEF ListingInv
  <2> QED
    BY <1>2, <2>3, <2>4, <2>5, <2>6, <2>7, <2>8 DEF Next
<1> QED
  BY <1>1, <1>2, PTL DEF Spec

\* Whatever workers write meanwhile, a reply lists each session once at most, with a
\* record it had while the request was served, in the order of endedAt, or else startedAt
\* (filesystem-session-repository.ts:102).
THEOREM ListTruthful == Spec => []ReplyTruthful
BY ListingInvariant, PTL DEF ListingInv

\* Only the limit, the offset and I/O errors withhold a session whose file was whole all
\* the time (filesystem-session-repository.ts:94-107, sessions.controller.ts:88-91).
THEOREM ListComplete == Spec => []NothingWithheld
BY ListingInvariant, PTL DEF ListingInv
=============================================================================
