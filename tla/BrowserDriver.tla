---------------------------- MODULE BrowserDriver ----------------------------
(***************************************************************************)
(* The clicks of PlaywrightBrowserDriver                                   *)
(* (packages/browser/src/playwright-driver.ts) for the action that         *)
(* ActionResolution hands over: clickPoint, which tries three ways one     *)
(* after the other, clickByLabel and clickIfPresent, which look for nodes  *)
(* of the ARIA tree.  The browser may reject any call it gets.             *)
(***************************************************************************)
EXTENDS ActionResolution

CONSTANTS Trees,       \* ARIA trees: sequences of [role, name], a name the patterns it matches
          Malformed    \* labels that are no regular expression

ASSUME OutcomesAssumption == Null \notin {"ok", "err"}
ASSUME TreesAssumption == \A t \in Trees : Len(t) \in Nat /\ DOMAIN t = 1..Len(t)
ASSUME OccurrencesAssumption == \A a \in Steps : a.occurrence \in Nat

VARIABLES
  stage,      \* the await of the driver: "idle" before the call, "settled" after it
  result,     \* Null, "ok", "err"
  tree,       \* what the page offers to locators
  locator,    \* clickIfPresent: index of the candidate being tried
  listener,   \* what the control under the point reacts to: [event, trustedOnly], or Null
  (* History: *)
  heard,      \* how often the listener was activated
  tapped,     \* the tap was dispatched
  clicks      \* the clicks on nodes of the tree: [named, occurrence, late]

driverVars == <<stage, result, tree, locator, listener, heard, tapped, clicks>>
allVars == <<resolveVars, driverVars>>

Listeners == [event : {"touchstart", "pointerdown", "mousedown", "click"}, trustedOnly : BOOLEAN]

DriverInit ==
  /\ ResolveInit
  /\ stage = "idle" /\ result = Null /\ tree = << >> /\ locator = 1
  /\ listener = Null /\ heard = 0 /\ tapped = FALSE /\ clicks = << >>

Resolution ==
  /\ Resolve \/ NextCandidate \/ FallThrough
  /\ UNCHANGED driverVars

Settle(outcome) == stage' = "settled" /\ result' = outcome

-----------------------------------------------------------------------------
(* clickPoint                                                              *)

ClickPoint ==
  /\ stage = "idle" /\ executed # Null /\ executed.type = "click-point"
  /\ stage' = "tap" /\ listener' \in Listeners \cup {Null}
  /\ UNCHANGED <<resolveVars, result, tree, locator, heard, tapped, clicks>>

Activated(events, trusted) ==
  listener # Null /\ listener.event \in events /\ (listener.trustedOnly => trusted)

Dispatch(events, trusted) == heard' = heard + (IF Activated(events, trusted) THEN 1 ELSE 0)

\* touchscreen.tap; the browser may follow it up with mouse events of its own.  When
\* it throws the error is logged and the mouse comes next all the same.
Tap ==
  /\ stage = "tap" /\ stage' = "move"
  /\ \/ /\ \E more \in {{}, {"mousedown", "click"}} :
             Dispatch({"touchstart", "pointerdown"} \cup more, TRUE)
        /\ tapped' = TRUE
     \/ UNCHANGED <<heard, tapped>>
  /\ UNCHANGED <<resolveVars, result, tree, locator, listener, clicks>>

MouseStages == {"move", "down", "up"}
After == [move |-> "down", down |-> "up", up |-> "dispatch"]
MouseEvents == [move |-> {}, down |-> {"pointerdown", "mousedown"}, up |-> {"click"}]

Mouse ==
  /\ stage \in MouseStages /\ stage' = After[stage]
  /\ Dispatch(MouseEvents[stage], TRUE)
  /\ UNCHANGED <<resolveVars, result, tree, locator, listener, tapped, clicks>>

\* Mutant: an error of the mouse is swallowed like one of the tap.
MouseErrorSwallowed ==
  /\ stage \in MouseStages /\ stage' = "dispatch"
  /\ UNCHANGED <<resolveVars, result, tree, locator, listener, heard, tapped, clicks>>

\* Nothing catches an error of the mouse, whatever the tap may have done by then.
MouseFails ==
  /\ stage \in MouseStages /\ Settle("err")
  /\ UNCHANGED <<resolveVars, tree, locator, listener, heard, tapped, clicks>>

\* The events dispatched on the element itself; an error is logged.
DomDispatch ==
  /\ stage = "dispatch" /\ Settle("ok")
  /\ \/ Dispatch({"pointerdown", "mousedown", "click"}, FALSE)
     \/ UNCHANGED heard
  /\ UNCHANGED <<resolveVars, tree, locator, listener, tapped, clicks>>

-----------------------------------------------------------------------------
(* clickByLabel and clickIfPresent                                         *)

\* executeAction looks for one wording where resolveAction knew several.
ByLabel == [x \in {"place-bet", "cash-out"} |-> IF x = "place-bet" THEN "place bet" ELSE "cash out"]
Label == IF action.type \in DOMAIN ByLabel THEN ByLabel[action.type] ELSE action.label

\* What getByRole and getByText find; nth(n) has n of them before it.
Nodes(roles) == {k \in DOMAIN tree : tree[k].role \in roles /\ Label \in tree[k].name}
Nth(nodes, n) == CHOOSE k \in nodes : Cardinality({m \in nodes : m < k}) = n

\* new RegExp(label) throws, inside the promise, before any candidate is tried.
MalformedLabel ==
  /\ stage = "idle" /\ executed # Null /\ Label \in Malformed
  /\ executed.type \in {"click-element", "click-if-present"}
  /\ Settle("err")
  /\ UNCHANGED <<resolveVars, tree, locator, listener, heard, tapped, clicks>>

LookUp(types, next) ==
  /\ stage = "idle" /\ executed # Null /\ executed.type \in types /\ Label \notin Malformed
  /\ stage' = next /\ tree' \in Trees
  /\ UNCHANGED <<resolveVars, result, locator, listener, heard, tapped, clicks>>

ClickByLabel == LookUp({"click-element", "place-bet", "cash-out"}, "by-label")
ClickIfPresent == LookUp({"click-if-present"}, "if-present")

\* A click on a node: whether the label names it, how many buttons so named come before
\* it, and whether click() timed out although the click had been sent, as it does while
\* it waits for a navigation the click has started.
Click(k, late) ==
  clicks' = Append(clicks, [named |-> Label \in tree[k].name, late |-> late,
                            occurrence |-> Cardinality({m \in Nodes({"button"}) : m < k})])

\* getByRole('button', ...).nth(occurrence).click()
ButtonClicked ==
  LET buttons == Nodes({"button"}) IN
  /\ stage = "by-label" /\ action.occurrence < Cardinality(buttons)
  /\ Click(Nth(buttons, action.occurrence), FALSE) /\ Settle("ok")
  /\ UNCHANGED <<resolveVars, tree, locator, listener, heard, tapped>>

\* No such button, or five seconds during which the click could not be sent or ended.
ButtonTimesOut ==
  LET buttons == Nodes({"button"}) IN
  /\ stage = "by-label" /\ Settle("err")
  /\ \/ UNCHANGED clicks
     \/ action.occurrence < Cardinality(buttons) /\ Click(Nth(buttons, action.occurrence), TRUE)
  /\ UNCHANGED <<resolveVars, tree, locator, listener, heard, tapped>>

\* The candidates, by role; getByText finds every node by its text.
LocatorRoles == <<{"button"}, {"link"}, {"button", "link", "text"}>>

\* Mutant: the loop goes on after a click.
CandidateClickedOnly ==
  LET nodes == Nodes(LocatorRoles[locator]) IN
  /\ stage = "if-present" /\ locator \in DOMAIN LocatorRoles /\ nodes # {}
  /\ Click(Nth(nodes, 0), FALSE) /\ locator' = locator + 1
  /\ UNCHANGED <<resolveVars, stage, result, tree, listener, heard, tapped>>

\* waitFor and click of the candidate's first() node succeed: return.
CandidateClicked ==
  LET nodes == Nodes(LocatorRoles[locator]) IN
  /\ stage = "if-present" /\ locator \in DOMAIN LocatorRoles /\ nodes # {}
  /\ Click(Nth(nodes, 0), FALSE) /\ Settle("ok")
  /\ UNCHANGED <<resolveVars, tree, locator, listener, heard, tapped>>

\* Mutant: waiting for a candidate is not inside the try block.
CandidateRejects ==
  /\ stage = "if-present" /\ locator \in DOMAIN LocatorRoles /\ Settle("err")
  /\ UNCHANGED <<resolveVars, tree, locator, listener, heard, tapped, clicks>>

\* Either one timed out, the click perhaps after it was sent: the next candidate, on a
\* page that may have changed by then.
CandidateMissed ==
  LET nodes == Nodes(LocatorRoles[locator]) IN
  /\ stage = "if-present" /\ locator \in DOMAIN LocatorRoles
  /\ UNCHANGED clicks \/ (nodes # {} /\ Click(Nth(nodes, 0), TRUE))
  /\ locator' = locator + 1 /\ tree' \in Trees
  /\ UNCHANGED <<resolveVars, stage, result, listener, heard, tapped>>

NothingPresent ==
  /\ stage = "if-present" /\ locator \notin DOMAIN LocatorRoles /\ Settle("ok")
  /\ UNCHANGED <<resolveVars, tree, locator, listener, heard, tapped, clicks>>

DriverNext ==
  \/ Resolution
  \/ ClickPoint \/ Tap \/ Mouse \/ MouseFails \/ DomDispatch
  \/ MalformedLabel
  \/ ClickByLabel \/ ButtonClicked \/ ButtonTimesOut
  \/ ClickIfPresent \/ CandidateClicked \/ CandidateMissed \/ NothingPresent

DriverSpec == DriverInit /\ [][DriverNext]_allVars

-----------------------------------------------------------------------------
\* The parts of the inductive invariant behind ClickHeard and BestEffort.

\* Nothing happens before an action was handed over, and each await belongs to some
\* types of it.
PointStages == {"tap"} \cup MouseStages \cup {"dispatch"}
StageInv ==
  /\ stage \in PointStages \cup {"idle", "by-label", "if-present", "settled"}
  /\ stage # "settled" => result = Null
  /\ stage # "idle" => executed # Null
  /\ stage = "by-label" => executed.type \in {"click-element", "place-bet", "cash-out"}
  /\ stage = "if-present" => executed.type = "click-if-present"
  /\ stage \in PointStages => executed.type = "click-point"

\* What the listener has heard by the time an await of clickPoint is reached.
HeardInv ==
  /\ heard \in Nat /\ (stage \in {"idle", "tap"} => tapped = FALSE)
  /\ listener # Null => listener \in Listeners
  /\ stage \in {"move", "down", "up", "dispatch"} /\ listener # Null =>
       /\ listener.event \in {"touchstart", "pointerdown"} /\ tapped => heard > 0
       /\ listener.event \in {"pointerdown", "mousedown"} /\ stage \in {"up", "dispatch"} => heard > 0
       /\ listener.event = "click" /\ stage = "dispatch" => heard > 0

\* playwright-driver.ts:158-165 "We fire ALL THREE; the game handles whichever it
\* accepts": a click that is reported as done was heard by whatever listens under the
\* point, trusted events only or not, except that only the tap, whose error is
\* swallowed, reaches a listener for touches.
ClickHeard ==
  result = "ok" /\ executed.type = "click-point" /\ listener # Null =>
    heard > 0 \/ (listener.event = "touchstart" /\ ~tapped)

\* Through the ARIA tree only what the label names is clicked, for click-element the
\* occurrence asked for, and again only by click-if-present, once per candidate, after
\* clicks that timed out too late; a click reported as done was the last one and ended
\* in time, one reported as failed may have been made all the same.
RetriedWhenLateOnly ==
  /\ \A k \in DOMAIN clicks :
       /\ clicks[k].named
       /\ executed.type = "click-element" => clicks[k].occurrence = action.occurrence
       /\ clicks[k].late \/ (k = Len(clicks) /\ result = "ok")
       /\ k <= (IF executed.type = "click-if-present" THEN Len(LocatorRoles) ELSE 1)
  /\ result = "ok" /\ executed.type \in {"click-element", "place-bet", "cash-out"} =>
       \E k \in DOMAIN clicks : ~clicks[k].late

\* playwright-driver.ts:275-276 "Never fails the scenario", :300 "This promise never
\* rejects in practice": it does for a label that is no regular expression, which the
\* visual look-up had tolerated (scenario-runner.ts:138), and for no other reason.
BestEffort ==
  result = "err" /\ executed.type = "click-if-present" => Label \in Malformed

\* A node is clicked once the tree is known, and a candidate once at most.
Clicks == [named : BOOLEAN, late : BOOLEAN, occurrence : Nat]
ClicksInv ==
  /\ stage \in {"by-label", "if-present"} => tree \in Trees
  /\ clicks \in Seq(Clicks) /\ locator \in 1..Len(LocatorRoles) + 1
  /\ stage = "if-present" => Len(clicks) < locator
  /\ stage \notin {"if-present", "settled"} => clicks = << >>
  /\ stage = "idle" => locator = 1
  /\ RetriedWhenLateOnly

DriverInv == ResolveInv /\ StageInv /\ HeardInv /\ ClickHeard /\ BestEffort

\* ARCHITECTURE.md:147 "The game handles whichever it listens for; the other is dropped
\* harmlessly": one click-point activates what it clicks once.
OthersDropped == heard <= 1
=============================================================================
