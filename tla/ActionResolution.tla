--------------------------- MODULE ActionResolution ---------------------------
(***************************************************************************)
(* What a semantic action makes the browser click: resolveAction and       *)
(* findMatchingElement of apps/worker/src/session/scenario-runner.ts, then *)
(* PlaywrightBrowserDriver.executeAction.  An element's label is the set   *)
(* of the patterns that match it, as regular expression or as substring.   *)
(***************************************************************************)
EXTENDS Domain, Sequences, SequencesExt

CONSTANTS Steps,      \* actions: [type, label, occurrence], label Null unless given; only
                      \* the driver reads the occurrence of a click-element
          Elements    \* sequences of [label, kind], as the vision LLM lists them

ASSUME ElementsAssumption == Null \notin Nat /\ \A es \in Elements : DOMAIN es = 1..Len(es)

VARIABLES action, elements,
          candidate,  \* index of the candidate label being looked up
          executed    \* the action handed to the driver: Null, or [type, target]

resolveVars == <<action, elements, candidate, executed>>

InteractiveKinds == {"button", "checkbox", "toggle", "slider", "link", "icon"}

\* semanticLabelCandidates; an empty list stands for null.
Candidates(a) ==
  IF a.type \in {"click-element", "click-if-present"} THEN <<a.label>>
  ELSE IF a.type = "place-bet" THEN <<"spin", "place bet", "bet", "play", "start">>
  ELSE IF a.type = "cash-out" THEN <<"cash out", "cashout", "collect", "take win">>
  ELSE << >>

InteractiveOnly(a) == a.type \in {"place-bet", "cash-out"}

Matches(pattern) == {k \in DOMAIN elements : pattern \in elements[k].label}
Controls(pattern) == {k \in Matches(pattern) : elements[k].kind \in InteractiveKinds}

\* Mutant: a readout is better than nothing for money actions, too.
FindAnyElement(pattern, interactiveOnly) ==
  IF Controls(pattern) # {} THEN Min(Controls(pattern))
  ELSE IF Matches(pattern) = {} THEN Null ELSE Min(Matches(pattern))

\* findMatchingElement: the index of the element, Null for undefined.
FindMatchingElement(pattern, interactiveOnly) ==
  IF Controls(pattern) # {} THEN Min(Controls(pattern))
  ELSE IF interactiveOnly \/ Matches(pattern) = {} THEN Null ELSE Min(Matches(pattern))

ResolveInit ==
  /\ action \in Steps /\ elements \in Elements
  /\ candidate = 1 /\ executed = Null

\* `for (const label of candidates)` finds a match: click the middle of it.
Resolve ==
  /\ executed = Null /\ candidate <= Len(Candidates(action))
  /\ LET match == FindMatchingElement(Candidates(action)[candidate], InteractiveOnly(action)) IN
     /\ match # Null
     /\ executed' = [type |-> "click-point", target |-> match]
  /\ UNCHANGED <<action, elements, candidate>>

NextCandidate ==
  /\ executed = Null /\ candidate <= Len(Candidates(action))
  /\ FindMatchingElement(Candidates(action)[candidate], InteractiveOnly(action)) = Null
  /\ candidate' = candidate + 1
  /\ UNCHANGED <<action, elements, executed>>

\* No match: the raw action goes to the driver, which looks for a button by its
\* ARIA name (clickByLabel, clickIfPresent) or does what the type says.
FallThrough ==
  /\ executed = Null /\ candidate > Len(Candidates(action))
  /\ executed' = [type |-> action.type, target |-> Null]
  /\ UNCHANGED <<action, elements, candidate>>

ResolveNext == Resolve \/ NextCandidate \/ FallThrough

ResolveSpec == ResolveInit /\ [][ResolveNext]_resolveVars

-----------------------------------------------------------------------------
\* The invariant behind BestMatchClicked: the wordings tried before found nothing, and
\* what was handed over is the match of the current one, or the action as it is.
ResolveInv ==
  /\ action \in Steps /\ elements \in Elements
  /\ candidate \in 1..Len(Candidates(action)) + 1
  /\ LET found(c) == FindMatchingElement(Candidates(action)[c], InteractiveOnly(action)) IN
     /\ \A b \in 1..candidate - 1 : found(b) = Null
     /\ executed # Null =>
          IF candidate <= Len(Candidates(action))
          THEN executed.type = "click-point" /\ executed.target = found(candidate) /\ executed.target # Null
          ELSE executed.type = action.type /\ executed.target = Null

Fits(k, pattern) ==
  pattern \in elements[k].label /\ (InteractiveOnly(action) => elements[k].kind \in InteractiveKinds)

\* scenario-runner.ts:47-50 and :98-107: the click goes to the most preferred wording
\* that is on the screen at all, among its matches to a control before a picture or a
\* readout, which a money action never clicks, and to the first of those; an action
\* reaches the driver as it is only when nothing on the screen fits, since a canvas
\* game has no ARIA tree to fall back on.
BestMatchClicked ==
  LET candidates == Candidates(action)
      isControl(k) == elements[k].kind \in InteractiveKinds
      best(k, c) ==
        /\ Fits(k, candidates[c])
        /\ \A b \in 1..c - 1, other \in DOMAIN elements : ~Fits(other, candidates[b])
        /\ \A other \in DOMAIN elements : Fits(other, candidates[c]) /\ other # k =>
             IF isControl(other) = isControl(k) THEN k < other ELSE isControl(k)
  IN executed # Null =>
       IF executed.target # Null
       THEN \E c \in DOMAIN candidates : best(executed.target, c)
       ELSE \A c \in DOMAIN candidates, k \in DOMAIN elements : ~Fits(k, candidates[c])
=============================================================================
