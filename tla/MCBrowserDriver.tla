--------------------------- MODULE MCBrowserDriver ---------------------------
(***************************************************************************)
(* Screens of up to three elements: controls and readouts whose labels     *)
(* match one wording, two of them ("place bet" and "bet") or none; ARIA    *)
(* trees of up to two nodes, and of two buttons with one between them.     *)
(***************************************************************************)
EXTENDS BrowserDriver

Labels == {{"spin", "(spin"}, {"place bet", "bet"}, {"bet"}, {"collect"}, {}}
Kinds == {"button", "text"}

MCElements == UNION {[1..n -> [label : Labels, kind : Kinds]] : n \in 0..3}

Names == {{"spin"}, {"place bet", "bet"}}
Node(role, name) == [role |-> role, name |-> name]
AnyNode == [role : {"button", "link", "text"}, name : Names]

MCTrees ==
  UNION {[1..n -> AnyNode] : n \in 0..2}
  \cup {<<Node("button", name), node, Node("button", name)>> : name \in Names, node \in AnyNode}

Step(type, label, occurrence) == [type |-> type, label |-> label, occurrence |-> occurrence]

MCSteps ==
  {Step("place-bet", Null, 0), Step("cash-out", Null, 0), Step("click-if-present", "spin", 0),
   Step("click-element", "bet", 0), Step("click-element", "bet", 1),
   Step("click-if-present", "(spin", 0)}

MCMalformed == {"(spin"}
=============================================================================
