--------------------------- MODULE MCMessageQueue ---------------------------
(* MessageQueue with two producers, two consumers and two kinds of items.  *)
EXTENDS MessageQueue
=============================================================================
