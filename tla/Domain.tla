------------------------------- MODULE Domain -------------------------------
(***************************************************************************)
(* Notions shared by the modules: packages/core/src/domain.                *)
(***************************************************************************)
EXTENDS Integers

CONSTANT Null            \* a nullish field, a value not there yet

\* ActionSchema: the type of an action, with the profile of a throttle-network.
Throttles == {"throttle-network:offline", "throttle-network:slow-3g", "throttle-network:fast-3g"}
Restore == "throttle-network:restore"
Actions ==
  {"click-element", "click-if-present", "click-point", "set-bet", "place-bet", "cash-out",
   "type-text", "wait", "reload", "open-new-tab", Restore} \cup Throttles

\* The statuses SessionRunner.run ends with; nobody writes `cancelled`.
Terminal == {"completed", "failed"}

\* What the `finally` block of SessionRunner.run may write after `found` failures
\* went through recordFailure: those of a scenario an adapter threw in are not in
\* its `failures` any more.
FinalPatches(found) ==
  {[status |-> "completed", count |-> found]}
  \cup {[status |-> "failed", count |-> n] : n \in 0..found}
=============================================================================
