------------------------- MODULE MCRequestTransactions -------------------------
(* Small instances of RequestTransactions for TLC: one request of each shape. *)
EXTENDS RequestTransactions, TLC

CONSTANTS upload, audience, studio, type, asset

MCRows == {type, asset}

\* An upload, a page load that touches the row twice over two mutations, and a
\* document of a two-row mutation with an await in front.
MCProgram ==
  upload   :> <<UploadMedia(type, asset)>> @@
  audience :> <<UpdateLastAccess(asset), PlainMutation(type)>> @@
  studio   :> <<Login(asset) \o PlainMutation(type)>>
===============================================================================
