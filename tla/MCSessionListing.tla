--------------------------- MODULE MCSessionListing ---------------------------
(***************************************************************************)
(* Three sessions and one write while a request is served; every limit     *)
(* and offset around the length of the list.                               *)
(***************************************************************************)
EXTENDS SessionListing

MCSessions == <<"s1", "s2", "s3">>

MCQueries == [limit : {Null, NaN, 0, 2}, offset : {Null, NaN, -1, 1, 3}]
=============================================================================
