----------------------------- MODULE MCLLMClient -----------------------------
(***************************************************************************)
(* Overload, a gateway that is unavailable, what names 500 (a server error *)
(* or a spent quota of 500 requests), and what names nothing transient (a  *)
(* bad key, or a quota again).                                             *)
(***************************************************************************)
EXTENDS LLMClient

MCErrors == {{"503", "overloaded"}, {"502", "unavailable"}, {"500"}, {}}

MCResponses == {"valid", "invalid", "not-json", "blocked"}
=============================================================================
