------------------------------ MODULE PlayedGame ------------------------------
(***************************************************************************)
(* ScenarioRunner and its oracle over a game: what the screens show is     *)
(* what the game did, when it did it.  The game, external, takes a stake   *)
(* for a bet, settles rounds in its own time, pays by a multiplier with a  *)
(* rounding of its own, and may once credit money out of nothing.  Unlike  *)
(* in ScenarioRunner the LLM reads the screen as it was at the screenshot. *)
(***************************************************************************)
EXTENDS ScenarioRunner

CONSTANTS Stake, Multipliers,   \* minor units; hundredths
          StartBalance,
          Wordings              \* what a game may call its cash-out control

ASSUME GameAssumption ==
  Stake \in Nat \ {0} /\ StartBalance \in Int /\ Multipliers \subseteq Int
ASSUME NullMoneyAssumption == Null \notin [amount : Int, currency : {"EUR"}]

VARIABLES
  wording,               \* what this game calls it
  balance, shownRound,   \* what the game shows
  stake,                 \* money at risk, 0 between rounds
  betClicks, cashClick,  \* clicks the game has not reacted to yet
  shot,                  \* the screen in the screenshot being looked at
  faulty,                \* the game has credited money out of nothing
  (* History: how the money has moved, *)
  captured,              \* from the screenshot of `current` to the last one taken
  later,                 \* since then
  judged                 \* the last transition the oracle saw: [action, moves, rules]

gameVars == <<wording, balance, shownRound, stake, betClicks, cashClick, shot, faulty,
              captured, later, judged>>
vars == <<runVars, gameVars>>

\* SCENARIO_LIBRARY (apps/worker/src/scenarios/library.ts).
ScenarioLibrary ==
  <<[id |-> "play.one-spin", actions |-> <<"place-bet", "wait">>],
    [id |-> "smoke.observe", actions |-> <<"wait">>],
    [id |-> "rapid.click.place-bet", actions |-> [k \in 1..5 |-> "place-bet"]],
    [id |-> "network.offline-mid-round",
     actions |-> <<"place-bet", "wait", "throttle-network:offline", "wait", Restore, "wait">>]>>

Still == [sum |-> 0, kinds |-> {}]
Moved(moves, kind, amount) == [sum |-> moves.sum + amount, kinds |-> moves.kinds \cup {kind}]
Both(a, b) == [sum |-> a.sum + b.sum, kinds |-> a.kinds \cup b.kinds]

Euros(n) == [amount |-> n, currency |-> "EUR"]

Shown ==
  [balance |-> Euros(balance), round |-> shownRound,
   elements |-> IF stake > 0 THEN <<[label |-> {wording}, enabled |-> TRUE]>> ELSE << >>,
   dismissHint |-> FALSE]

GameInit ==
  /\ wording \in Wordings /\ balance = StartBalance /\ shownRound = Null /\ stake = 0
  /\ betClicks = 0 /\ cashClick = FALSE /\ shot = Null /\ faulty = FALSE
  /\ captured = Still /\ later = Still /\ judged = Null
  /\ obs = Idle /\ stored = {InitialKey} /\ puts = 1
  /\ pc = "idle" /\ round = 0 /\ actions = << >> /\ i = 1
  /\ current = FinalizeState(Shown, InitialKey)
  /\ prior = current /\ before = current
  /\ todo = << >> /\ halted = FALSE /\ violations = << >> /\ recorded = << >>
  /\ network = "none"
  /\ dispatched = 0 /\ blind = {} /\ beforeAt = 0 /\ currentAt = 0

-----------------------------------------------------------------------------
(* The game.                                                               *)

Move(kind, amount) ==
  /\ balance' = balance + amount /\ later' = Moved(later, kind, amount)
  /\ UNCHANGED <<runVars, wording, shot, captured, judged>>

Round(outcome, multiplier, payout) ==
  [outcome |-> outcome, betAmount |-> Euros(Stake), multiplier |-> multiplier, payout |-> payout]

\* A bet is taken when no round is open; further clicks are dropped.
TakeBet ==
  /\ betClicks > 0 /\ betClicks' = betClicks - 1 /\ stake = 0
  /\ Move("bet", -Stake) /\ stake' = Stake /\ shownRound' = Round("pending", Null, Null)
  /\ UNCHANGED <<cashClick, faulty>>

DropClicks ==
  /\ betClicks > 0 \/ cashClick
  /\ betClicks' = 0 /\ cashClick' = FALSE
  /\ UNCHANGED <<runVars, wording, balance, shownRound, stake, shot, faulty, captured, later, judged>>

\* Any way of rounding to whole units.
Payouts(m) == {(Stake * m) \div Hundredths, (Stake * m + Hundredths - 1) \div Hundredths}

Pay ==
  /\ stake > 0 /\ stake' = 0
  /\ \E m \in Multipliers : \E payout \in Payouts(m) :
       /\ Move("paid", payout)
       /\ shownRound' = Round(IF cashClick THEN "cashed-out" ELSE "win", m, Euros(payout))
  /\ cashClick' = FALSE
  /\ UNCHANGED <<betClicks, faulty>>

Lose ==
  /\ stake > 0 /\ stake' = 0
  /\ Move("lost", 0) /\ shownRound' = Round("loss", Null, Null)
  /\ UNCHANGED <<betClicks, cashClick, faulty>>

Refund ==
  /\ stake > 0 /\ stake' = 0
  /\ Move("refund", Stake) /\ shownRound' = Null
  /\ UNCHANGED <<betClicks, cashClick, faulty>>

CreditFromNowhere ==
  /\ ~faulty /\ faulty' = TRUE
  /\ Move("fault", 1)
  /\ UNCHANGED <<shownRound, stake, betClicks, cashClick>>

GameStep == TakeBet \/ DropClicks \/ Pay \/ Lose \/ Refund \/ CreditFromNowhere

-----------------------------------------------------------------------------
(* The runner, as the game sees it.                                        *)

Untouched == UNCHANGED gameVars

\* A click may reach the game more than once, or not at all, whether the driver
\* reports success or not (BrowserDriver).
Execute ==
  /\ ExecuteOk \/ ExecuteErr
  /\ IF actions[i] = "place-bet" THEN betClicks' \in {betClicks, 1, 2} ELSE UNCHANGED betClicks
  /\ IF actions[i] = "cash-out" THEN cashClick' \in BOOLEAN ELSE UNCHANGED cashClick
  /\ UNCHANGED <<wording, balance, shownRound, stake, shot, faulty, captured, later, judged>>

TakeScreenshot ==
  /\ pc = "observe" /\ Screenshot /\ UNCHANGED scnVars
  /\ shot' = Shown /\ captured' = Both(captured, later) /\ later' = Still
  /\ UNCHANGED <<wording, balance, shownRound, stake, betClicks, cashClick, faulty, judged>>

\* ExtractState of what the screenshot shows.
ReadScreen ==
  /\ pc = "observe" /\ obs.at = "llm"
  /\ obs' = [obs EXCEPT !.at = "ok", !.state = FinalizeState(shot, obs.key)]
  /\ UNCHANGED <<stored, puts, scnVars>> /\ Untouched

ObservationGoesOn ==
  /\ pc = "observe" /\ UNCHANGED scnVars /\ Untouched
  /\ \/ PutArtifact \/ ExtractText \/ ExtractStateThrows
     \/ \E stage \in {"screenshot", "put", "ocr", "llm"} : Fail(stage)

Judge ==
  /\ Observed
  /\ captured' = Still /\ shot' = Null
  /\ judged' = [action |-> actions[i], moves |-> captured,
                rules |-> {todo'[k].ruleId : k \in DOMAIN todo'}]
  /\ UNCHANGED <<wording, balance, shownRound, stake, betClicks, cashClick, faulty, later>>

RunnerGoesOn ==
  /\ \/ \E s \in Scenarios : round < MaxRounds /\ Run(s)
     \/ NotObserved \/ ObservationThrows \/ Return
     \/ \E ok \in WriteOutcomes : Persist(ok)
  /\ Untouched

Next ==
  \/ GameStep
  \/ Execute \/ TakeScreenshot \/ ReadScreen \/ ObservationGoesOn \/ Judge \/ RunnerGoesOn

Spec == GameInit /\ [][Next]_vars

-----------------------------------------------------------------------------
Accused(rule) == rule \in judged.rules

\* The verdict is about what the game did between the two screenshots, however many
\* observations failed in between and whatever the game did while they were looked
\* at: a balance is reported to have changed without a money action, or to have
\* grown on a bet, exactly when it did.  So a fault is reported unless it falls into
\* the window of a money action or is outweighed, and so is a round that is paid,
\* or a bet that is taken, after the window of its bet (as in play.one-spin).
VerdictMatchesGame ==
  judged # Null =>
    /\ Accused("balance-stable-without-money-action")
         <=> judged.moves.sum # 0 /\ judged.action \notin MoneyActions
    /\ Accused("balance-decreases-on-bet")
         <=> judged.moves.sum > 0 /\ judged.action = "place-bet"

\* A game that does nothing wrong is only accused of growing on a bet when a round was
\* paid or refunded in the window of that bet, never of a wrong payout, whichever way
\* it rounds, and of hiding its cash-out control only when it calls it something else,
\* by a word scenario-runner.ts:92 knows and ui-rules.ts:18 does not.
JustAccusations ==
  judged # Null /\ "fault" \notin judged.moves.kinds =>
    /\ Accused("balance-decreases-on-bet") => {"paid", "refund"} \cap judged.moves.kinds # {}
    /\ ~Accused("payout-matches-multiplier")
    /\ Accused("cash-out-available-mid-round") => wording # "cash out"

\* The parts of the inductive invariant behind the two properties above.

\* The money that moved makes up the difference between the balance the runner knows
\* and the one the game has, and only grows it by what is paid, refunded or a fault.
Accounted(moves) ==
  /\ moves.sum \in Int
  /\ {"paid", "refund", "fault"} \cap moves.kinds = {} => moves.sum <= 0

MovesInv ==
  /\ balance \in Int /\ stake \in {0, Stake}
  /\ Accounted(captured) /\ Accounted(later)
  /\ current.balance = Euros(balance - captured.sum - later.sum)
  /\ pc = "observe" => before = current

\* A screen of the game: a round is paid by its multiplier, and a pending one offers
\* the control that ends it.
Genuine(screen) ==
  screen.round # Null =>
    /\ screen.round.betAmount = Euros(Stake)
    /\ screen.round.outcome = "cashed-out" =>
         /\ screen.round.multiplier \in Multipliers
         /\ \E payout \in Payouts(screen.round.multiplier) : screen.round.payout = Euros(payout)
    /\ screen.round.outcome = "pending" =>
         screen.elements = <<[label |-> {wording}, enabled |-> TRUE]>>

\* What is looked at is what the game showed, and what is read is what was looked at.
ShotInv ==
  /\ DOMAIN obs = {"at", "key", "state"} /\ obs.at \in Stages
  /\ Genuine(Shown)
  /\ obs.at \in {"put", "ocr", "llm", "ok"} =>
       Genuine(shot) /\ shot.balance = Euros(balance - later.sum)
  /\ obs.at = "ok" => obs.state = FinalizeState(shot, obs.key)

GameInv == MovesInv /\ ShotInv /\ VerdictMatchesGame /\ JustAccusations
=============================================================================
