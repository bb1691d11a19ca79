---------------------------- MODULE MCTopicMatch ----------------------------
(* Model-checking instance of TopicMatch. *)
EXTENDS TopicMatch
=============================================================================
