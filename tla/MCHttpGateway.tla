---------------------------- MODULE MCHttpGateway ----------------------------
(* Connections for TLC, one more than the gateway serves at a time.  The     *)
(* first two carry an id of their own (and the second the id of the first,   *)
(* too); the third never gets as far as to have one.                         *)
EXTENDS HttpGateway, TLC

CONSTANTS h1, h2, h3, id1, id2

OwnIds      == h1 :> {id1} @@ h2 :> {id2} @@ h3 :> {}
BorrowedIds == h1 :> {id1} @@ h2 :> {id1, id2} @@ h3 :> {}
=============================================================================
