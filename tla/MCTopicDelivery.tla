-------------------------- MODULE MCTopicDelivery --------------------------
(* Small instances of TopicDelivery: one chat and one page, few topics.    *)
EXTENDS TopicDelivery, TLC

MCUrl    == [t \in Topics |-> t]
MCKey    == [t \in Topics |-> NULL]
MCRank   == [t \in Topics |-> 1]
MCExpiry == [t \in Topics |-> 3]

MCPref == [consented |-> TRUE, paused |-> FALSE, paused_until |-> 0,
           daily_limit |-> 2, minimum_interval_hours |-> 1, idle_hours |-> 1,
           quiet_start |-> 0, quiet_end |-> 0, fixed_platform |-> NULL]
MCPrefs == {MCPref}

(* Bound: two messages in the chat, or one while the page is also in use.  *)
PageOrLongChat ==
  \/ Page \notin Platforms
  \/ activity[Page] = NULL
  \/ Cardinality(UserEvents \cap (Queue!SeqSet(accepted) \cup checking)) <= 1

Interchange == Permutations(Deliveries) \cup Permutations(UserEvents) \cup Permutations(Topics)
============================================================================
