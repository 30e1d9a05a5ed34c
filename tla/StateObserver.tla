---------------------------- MODULE StateObserver ----------------------------
(***************************************************************************)
(* One observation cycle of apps/worker/src/session/state-observer.ts:     *)
(* screenshot -> artifact -> OCR -> LLM extraction, each an awaited call    *)
(* that may fail, with the screenshot already stored when OCR or the LLM   *)
(* does.  The LLM adapter may also throw instead of returning Err          *)
(* (packages/llm/src/gemini-provider.ts:196 is outside its try block).     *)
(***************************************************************************)
EXTENDS Domain, Integers, FiniteSets

CONSTANT Screens     \* what the LLM can read off a screen: [balance, round, elements, dismissHint]

VARIABLES obs,       \* the observation in flight: [at, key, state]
          stored,    \* keys the artifact store holds
          puts       \* number of successful artifact writes (history)

obsVars == <<obs, stored, puts>>

Stages == {"idle", "screenshot", "put", "ocr", "llm", "ok", "err", "throw"}

\* sessions/<id>/rounds/<round>/<label>.png; a label is a slug and, inside a
\* scenario, the index of the action (0 elsewhere).
Key(round, index, label) == [round |-> round, index |-> index, label |-> label]
Labels == {"initial", "after-dismiss"} \cup Actions
Keys == [round : Int, index : Nat, label : Labels]

ASSUME NullAssumption == Null \notin Keys

Idle == [at |-> "idle", key |-> Null, state |-> Null]
Observing(key) == [at |-> "screenshot", key |-> key, state |-> Null]

\* The observed screen with the key of its own screenshot.
FinalizeState(screen, key) ==
  [balance |-> screen.balance, round |-> screen.round, elements |-> screen.elements,
   dismissHint |-> screen.dismissHint, screenshotRef |-> key]

\* The observed game states, and what an observation is made of.
States ==
  [balance : {s.balance : s \in Screens}, round : {s.round : s \in Screens},
   elements : {s.elements : s \in Screens}, dismissHint : {s.dismissHint : s \in Screens},
   screenshotRef : Keys]
Observations == [at : Stages, key : Keys \cup {Null}, state : States \cup {Null}]

ObsInit == obs = Idle /\ stored = {} /\ puts = 0

Fail(stage) ==
  /\ obs.at = stage
  /\ obs' = [obs EXCEPT !.at = "err"]
  /\ UNCHANGED <<stored, puts>>

Screenshot ==
  /\ obs.at = "screenshot"
  /\ obs' = [obs EXCEPT !.at = "put"]
  /\ UNCHANGED <<stored, puts>>

PutArtifact ==
  /\ obs.at = "put"
  /\ obs' = [obs EXCEPT !.at = "ocr"]
  /\ stored' = stored \cup {obs.key}
  /\ puts' = puts + 1

ExtractText ==
  /\ obs.at = "ocr"
  /\ obs' = [obs EXCEPT !.at = "llm"]
  /\ UNCHANGED <<stored, puts>>

\* Mutant: the adapter's placeholder reference is not replaced.
ExtractStatePending ==
  /\ obs.at = "llm"
  /\ \E screen \in Screens :
       obs' = [obs EXCEPT !.at = "ok", !.state = FinalizeState(screen, Key(0, 0, "pending"))]
  /\ UNCHANGED <<stored, puts>>

ExtractState ==
  /\ obs.at = "llm"
  /\ \E screen \in Screens :
       obs' = [obs EXCEPT !.at = "ok", !.state = FinalizeState(screen, obs.key)]
  /\ UNCHANGED <<stored, puts>>

ExtractStateThrows ==
  /\ obs.at = "llm"
  /\ obs' = [obs EXCEPT !.at = "throw"]
  /\ UNCHANGED <<stored, puts>>

ObsNext ==
  \/ Screenshot \/ PutArtifact \/ ExtractText \/ ExtractState \/ ExtractStateThrows
  \/ \E stage \in {"screenshot", "put", "ocr", "llm"} : Fail(stage)
=============================================================================
