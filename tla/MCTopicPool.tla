---------------------------- MODULE MCTopicPool ----------------------------
(* Small instance of TopicPool: one platform, three candidates of which   *)
(* two are copies of one page, a day of four ticks.                        *)
EXTENDS TopicPool, TLC

CONSTANTS t1, t2, t3

MCUrl    == (t1 :> "page1") @@ (t2 :> "page2") @@ (t3 :> "page1")
MCKey    == (t1 :> NULL) @@ (t2 :> NULL) @@ (t3 :> NULL)
MCRank   == (t1 :> 2) @@ (t2 :> 1) @@ (t3 :> 1)
MCExpiry == (t1 :> 3) @@ (t2 :> 4) @@ (t3 :> 4)

Pref(consented, limit, fixed) ==
  [consented |-> consented, paused |-> FALSE, paused_until |-> 0,
   daily_limit |-> limit, minimum_interval_hours |-> 1, idle_hours |-> 1,
   quiet_start |-> 3, quiet_end |-> 0, fixed_platform |-> fixed]

MCPrefs      == {Pref(TRUE, 2, NULL), Pref(FALSE, 2, NULL)}
MCFirstPrefs == Pref(TRUE, 2, NULL)
============================================================================
