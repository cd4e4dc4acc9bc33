----------------------------- MODULE TopicPool -----------------------------
(***************************************************************************)
(* The durable Topic Pool store (honeyos/companion/topic_pool.py).         *)
(*                                                                         *)
(* Every action is one SQLite transaction of TopicPoolStore.  A claim by   *)
(* reserve_due_delivery is three of them: it reads the preferences, then   *)
(* the latest channel, then runs the BEGIN IMMEDIATE transaction with the  *)
(* values it read, so other actors interleave between the three.           *)
(*                                                                         *)
(* Left out: the text of a topic (title, hook, summary ...), the columns   *)
(* no statement reads back (reserved_at, consumed_at, error), and the      *)
(* categories, which only the Scout reads.                                 *)
(***************************************************************************)
EXTENDS Integers, FiniteSets

CONSTANTS
  Topics,           \* topic ids: every candidate the Scout could ever offer
  Deliveries,       \* delivery ids (uuid4), the rows of proactive_deliveries
  Platforms,        \* platforms with a private chat (api_server, feishu ...)
  Claimants,        \* callers of reserve_due_delivery
  NULL,             \* an empty column, or a row that is not there
  TopicUrl,         \* [Topics -> urls]: normalized_url
  TopicKey,         \* [Topics -> source keys or NULL]: source_key
  TopicRank,        \* [Topics -> Nat]: order by score DESC, observed_at ASC
  TopicExpiry,      \* [Topics -> Nat]: expires_at
  PrefSettings,     \* the preference rows the user can leave behind
  FirstPrefs,       \* the preference row at the start
  Hour, Day,        \* length of an hour and of a day in clock ticks
  ClaimTimeout,     \* the 15 minutes after which a claim is stale
  MaxTime           \* bound: the clock stops there

(* update_preferences rejects a daily limit above 3 and hours above 24.    *)
Preferences ==
  [consented: BOOLEAN, paused: BOOLEAN, paused_until: Nat,
   daily_limit: 0..3, minimum_interval_hours: 0..24, idle_hours: 0..24,
   quiet_start: Nat, quiet_end: Nat, fixed_platform: Platforms \cup {NULL}]

ASSUME PoolAssumption ==
  /\ NULL \notin Deliveries /\ NULL \notin Platforms
  /\ NULL \notin Topics /\ NULL \notin Nat
  /\ TopicRank \in [Topics -> Nat]
  /\ TopicExpiry \in [Topics -> Nat]
  /\ DOMAIN TopicUrl = Topics /\ DOMAIN TopicKey = Topics
  /\ PrefSettings \subseteq Preferences
  /\ FirstPrefs \in PrefSettings
  /\ Hour \in Nat \ {0} /\ Day \in Nat \ {0}
  /\ ClaimTimeout \in Nat \ {0}
  /\ MaxTime \in Nat

ASSUME DeliveriesFinite == IsFiniteSet(Deliveries)

VARIABLES
  now,        \* wall clock
  item,       \* topic_pool_items: status and delivery_id
  delivery,   \* proactive_deliveries
  prefs,      \* proactive_preferences, row 1
  activity,   \* channel_activity: platform -> last_user_message_at
  claim       \* per claimant: how far reserve_due_delivery has got

poolVars == <<now, item, delivery, prefs, activity, claim>>

----------------------------------------------------------------------------
ItemStatus == {"absent", "open", "reserved", "consumed", "expired", "dismissed"}
Retired    == {"consumed", "expired", "dismissed"}

Item == [status: ItemStatus, holder: Deliveries \cup {NULL}]

Delivery == [status: {"unused", "reserved", "sent", "failed"},
             topic: Topics \cup {NULL}, platform: Platforms \cup {NULL},
             created_at: Nat \cup {NULL}, sent_at: Nat \cup {NULL}]

Idle == [pc |-> "idle"]

(* reserve_due_delivery between its transactions: "prefs" once it has read *)
(* the preferences, "channel" once it has read the latest channel too.     *)
ClaimState ==
  {Idle} \cup [pc: {"prefs"}, at: Nat, prefs: PrefSettings]
         \cup [pc: {"channel"}, at: Nat, prefs: PrefSettings, platform: Platforms]

TypeOK ==
  /\ now \in Nat
  /\ item \in [Topics -> Item]
  /\ delivery \in [Deliveries -> Delivery]
  /\ prefs \in PrefSettings
  /\ activity \in [Platforms -> Nat \cup {NULL}]
  /\ claim \in [Claimants -> ClaimState]

Init ==
  /\ now = 0
  /\ item = [t \in Topics |-> [status |-> "absent", holder |-> NULL]]
  /\ delivery = [d \in Deliveries |->
                   [status |-> "unused", topic |-> NULL, platform |-> NULL,
                    created_at |-> NULL, sent_at |-> NULL]]
  /\ prefs = FirstPrefs
  /\ activity = [p \in Platforms |-> NULL]
  /\ claim = [c \in Claimants |-> Idle]

----------------------------------------------------------------------------
(* Rows of proactive_deliveries.                                           *)

Live(d) == delivery[d].status \in {"reserved", "sent"}
Sent    == {d \in Deliveries : delivery[d].status = "sent"}

\* Mutant: every reserved row counts as stale.
StaleAtOnce(at) == {d \in Deliveries : delivery[d].status = "reserved"}

(* Claims whose created_at is 15 minutes old at time "at".                 *)
Stale(at) == {d \in Deliveries : /\ delivery[d].status = "reserved"
                                 /\ delivery[d].created_at + ClaimTimeout <= at}

----------------------------------------------------------------------------
(* Item updates shared by the transactions; each maps rows to rows.        *)

Vacant(status) == [status |-> status, holder |-> NULL]

(* _expire: past its expires_at, an open or reserved item expires.  Its    *)
(* delivery row is not touched.                                            *)
Expire(rows, at) ==
  [t \in Topics |-> IF rows[t].status \in {"open", "reserved"} /\ TopicExpiry[t] <= at
                    THEN Vacant("expired") ELSE rows[t]]

(* The item a stale delivery still holds is open again.                    *)
Release(rows, ds) ==
  [t \in Topics |-> IF /\ rows[t].status = "reserved"
                       /\ \E d \in ds : delivery[d].topic = t /\ rows[t].holder = d
                    THEN Vacant("open") ELSE rows[t]]

(* The unique indexes on topic_pool_items (the fingerprint digests the URL *)
(* and the title, so the URL index covers it).                             *)
Clash(t, u) ==
  TopicUrl[t] = TopicUrl[u] \/ (TopicKey[t] # NULL /\ TopicKey[t] = TopicKey[u])

\* Mutant: only topics still in the pool are compared.
DuplicateInPool(t) == \E u \in Topics : item[u].status \in {"open", "reserved"} /\ Clash(t, u)

(* A candidate that clashes with any row, whatever its status, is refused. *)
Duplicate(t) == \E u \in Topics : item[u].status # "absent" /\ Clash(t, u)

----------------------------------------------------------------------------
(* Operations other than the claim.                                        *)

Tick ==
  /\ now < MaxTime
  /\ now' = now + 1
  /\ UNCHANGED <<item, delivery, prefs, activity, claim>>

(* add_candidates: one transaction inserts the new rows and skips the      *)
(* duplicates; get_topic then sweeps expired rows while it reads them back.*)
AddCandidates(new) ==
  /\ new # {}
  /\ \A t \in new : item[t].status = "absent" /\ ~Duplicate(t)
  /\ \A t, u \in new : Clash(t, u) => t = u
  /\ item' = Expire([t \in Topics |-> IF t \in new THEN Vacant("open") ELSE item[t]], now)
  /\ UNCHANGED <<now, delivery, prefs, activity, claim>>

(* get_topic and list_open_topics both commit the sweep before they read.  *)
ListOpenTopics ==
  /\ item' = Expire(item, now)
  /\ UNCHANGED <<now, delivery, prefs, activity, claim>>

DismissTopic(t) ==
  /\ item[t].status = "open"
  /\ item' = [item EXCEPT ![t] = Vacant("dismissed")]
  /\ UNCHANGED <<now, delivery, prefs, activity, claim>>

(* consume_topic: the sweep is committed even when the topic is gone.      *)
ConsumeTopic(t) ==
  LET rows == Expire(item, now)
  IN  /\ item' = IF rows[t].status = "open"
                 THEN [rows EXCEPT ![t].status = "consumed"] ELSE rows
      /\ UNCHANGED <<now, delivery, prefs, activity, claim>>

(* update_preferences, through the proactive_companion tool.               *)
UpdatePreferences(p) ==
  /\ prefs' = p
  /\ UNCHANGED <<now, item, delivery, activity, claim>>

(* record_channel_activity: the upsert never moves a timestamp backwards.  *)
RecordChannelActivity(p, at) ==
  /\ activity[p] # NULL => activity[p] <= at
  /\ activity' = [activity EXCEPT ![p] = at]
  /\ UNCHANGED <<now, item, delivery, prefs, claim>>

----------------------------------------------------------------------------
(* reserve_due_delivery.                                                   *)

Quiet(p, at) ==
  LET clock == at % Day
  IN  IF p.quiet_start <= p.quiet_end
      THEN p.quiet_start <= clock /\ clock < p.quiet_end
      ELSE p.quiet_start <= clock \/ clock < p.quiet_end

MaySpeak(p, at) ==
  /\ p.consented /\ ~p.paused /\ p.daily_limit > 0
  /\ p.paused_until <= at
  /\ ~Quiet(p, at)

(* The platform is the fixed one or the one the user wrote on last.        *)
LatestChannel(p, fixed) ==
  /\ activity[p] # NULL
  /\ fixed # NULL => p = fixed
  /\ fixed = NULL =>
       \A q \in Platforms : activity[q] # NULL => activity[q] <= activity[p]

(* Limits count the rows marked sent; claims in flight are not counted.    *)
SentToday(at) == {d \in Sent : delivery[d].sent_at \div Day = at \div Day}

WithinLimits(p, at) ==
  /\ Cardinality(SentToday(at)) < p.daily_limit
  /\ \A d \in Sent : at - delivery[d].sent_at >= p.minimum_interval_hours * Hour

Best(rows, t, at) ==
  /\ rows[t].status = "open" /\ TopicExpiry[t] > at
  /\ \A u \in Topics : rows[u].status = "open" /\ TopicExpiry[u] > at
                         => TopicRank[u] <= TopicRank[t]

(* The partial unique index idx_active_topic_delivery.                     *)
IndexAdmits(t, recovered) ==
  \A d \in Deliveries \ recovered : Live(d) => delivery[d].topic # t

(* First transaction: read the preferences.  A guard that fails returns    *)
(* None, which changes nothing.                                            *)
ReadPreferences(c) ==
  /\ claim[c] = Idle
  /\ MaySpeak(prefs, now)
  /\ claim' = [claim EXCEPT ![c] = [pc |-> "prefs", at |-> now, prefs |-> prefs]]
  /\ UNCHANGED <<now, item, delivery, prefs, activity>>

(* Second transaction: read the channel; no channel, or a user who is not  *)
(* idle long enough, ends the call.                                        *)
ReadChannel(c) ==
  /\ claim[c].pc = "prefs"
  /\ \/ \E p \in Platforms :
          /\ LatestChannel(p, claim[c].prefs.fixed_platform)
          /\ claim' = [claim EXCEPT ![c] =
               IF claim[c].at - activity[p] >= claim[c].prefs.idle_hours * Hour
               THEN [pc |-> "channel", at |-> claim[c].at,
                     prefs |-> claim[c].prefs, platform |-> p]
               ELSE Idle]
     \/ /\ \A p \in Platforms : ~LatestChannel(p, claim[c].prefs.fixed_platform)
        /\ claim' = [claim EXCEPT ![c] = Idle]
  /\ UNCHANGED <<now, item, delivery, prefs, activity>>

\* Mutant: the recovered claim's item is opened, its row and the index forgotten.
ReserveForgettingRows(c, d, t) ==
  LET at   == claim[c].at
      rows == Release(Expire(item, at), Stale(at))
  IN  /\ claim[c].pc = "channel"
      /\ WithinLimits(claim[c].prefs, at)
      /\ Best(rows, t, at)
      /\ delivery[d].status = "unused"
      /\ item' = [rows EXCEPT ![t] = [status |-> "reserved", holder |-> d]]
      /\ delivery' = [delivery EXCEPT ![d] =
           [status |-> "reserved", topic |-> t, platform |-> claim[c].platform,
            created_at |-> at, sent_at |-> NULL]]
      /\ claim' = [claim EXCEPT ![c] = Idle]
      /\ UNCHANGED <<now, prefs, activity>>

(* Third transaction, committed: sweep expired items, release stale        *)
(* claims, then claim the best open topic under a fresh delivery id.       *)
Reserve(c, d, t) ==
  LET at    == claim[c].at
      stale == Stale(at)
      rows  == Release(Expire(item, at), stale)
  IN  /\ claim[c].pc = "channel"
      /\ WithinLimits(claim[c].prefs, at)
      /\ Best(rows, t, at)
      /\ IndexAdmits(t, stale)
      /\ delivery[d].status = "unused"
      /\ item' = [rows EXCEPT ![t] = [status |-> "reserved", holder |-> d]]
      /\ delivery' = [e \in Deliveries |->
           IF e = d THEN [status |-> "reserved", topic |-> t,
                          platform |-> claim[c].platform, created_at |-> at, sent_at |-> NULL]
           ELSE IF e \in stale THEN [delivery[e] EXCEPT !.status = "failed"]
           ELSE delivery[e]]
      /\ claim' = [claim EXCEPT ![c] = Idle]
      /\ UNCHANGED <<now, prefs, activity>>

(* Third transaction, rolled back: a limit is reached, nothing is open or  *)
(* the index refuses the row.  The sweep and the release are undone too.   *)
RollBack(c) ==
  LET at   == claim[c].at
      rows == Release(Expire(item, at), Stale(at))
  IN  /\ claim[c].pc = "channel"
      /\ WithinLimits(claim[c].prefs, at) =>
           \A t \in Topics : Best(rows, t, at) => ~IndexAdmits(t, Stale(at))
      /\ claim' = [claim EXCEPT ![c] = Idle]
      /\ UNCHANGED <<now, item, delivery, prefs, activity>>

----------------------------------------------------------------------------
\* What the mutants below do to the delivery row.
Answer(d, success) ==
  /\ delivery[d].status = "reserved"
  /\ delivery' = [delivery EXCEPT ![d] =
       [@ EXCEPT !.status  = IF success THEN "sent" ELSE "failed",
                 !.sent_at = IF success THEN now ELSE NULL]]
  /\ UNCHANGED <<now, prefs, activity, claim>>

\* Mutant: a sent topic goes back to the pool.
FinishReopening(d, success) ==
  /\ Answer(d, success)
  /\ item' = [item EXCEPT ![delivery[d].topic] = Vacant("open")]

\* Mutant: the item is left as it was.
FinishRowOnly(d, success) == Answer(d, success) /\ UNCHANGED item

\* Mutant: the item is updated whoever holds it.
FinishAnyHolder(d, success) ==
  /\ Answer(d, success)
  /\ item' = [item EXCEPT ![delivery[d].topic] =
                IF success THEN [@ EXCEPT !.status = "consumed"] ELSE Vacant("open")]

(* finish_delivery: only a row still "reserved" is finished, so a late     *)
(* answer to a claim that has been taken back returns False.  The item     *)
(* follows only if this delivery still holds it.                           *)
FinishDelivery(d, success) ==
  LET t == delivery[d].topic
  IN  /\ delivery[d].status = "reserved"
      /\ delivery' = [delivery EXCEPT ![d] =
           [@ EXCEPT !.status  = IF success THEN "sent" ELSE "failed",
                     !.sent_at = IF success THEN now ELSE NULL]]
      /\ item' = IF item[t].holder = d
                 THEN [item EXCEPT ![t] = IF success THEN [@ EXCEPT !.status = "consumed"]
                                                     ELSE Vacant("open")]
                 ELSE item
      /\ UNCHANGED <<now, prefs, activity, claim>>

----------------------------------------------------------------------------
PoolNext ==
  \/ Tick
  \/ \E new \in SUBSET Topics : AddCandidates(new)
  \/ ListOpenTopics
  \/ \E t \in Topics : DismissTopic(t) \/ ConsumeTopic(t)
  \/ \E p \in PrefSettings : UpdatePreferences(p)
  \/ \E p \in Platforms, at \in {now} \cup (Nat \cap {now - 1}) : RecordChannelActivity(p, at)
  \/ \E c \in Claimants : ReadPreferences(c) \/ ReadChannel(c) \/ RollBack(c)
  \/ \E c \in Claimants, d \in Deliveries, t \in Topics : Reserve(c, d, t)
  \/ \E d \in Deliveries, success \in BOOLEAN : FinishDelivery(d, success)

Spec == Init /\ [][PoolNext]_poolVars
----------------------------------------------------------------------------
(* Invariants.                                                             *)

(* An open topic has no delivery in flight and was never sent: the index   *)
(* idx_active_topic_delivery never has to refuse a claim, and a topic that *)
(* comes back after a failure or a stale claim has lost its old claim.     *)
OpenIsUnclaimed ==
  \A d \in Deliveries : Live(d) => item[delivery[d].topic].status # "open"

(* A reserved item and its delivery row agree: the row that holds it is    *)
(* itself reserved, for that topic.  A claim in flight holds its item      *)
(* unless the item expired under it.                                       *)
HolderAgrees ==
  /\ \A t \in Topics : item[t].status = "reserved" =>
       \E d \in Deliveries : /\ item[t].holder = d
                            /\ delivery[d].status = "reserved" /\ delivery[d].topic = t
  /\ \A d \in Deliveries : delivery[d].status = "reserved" =>
       \/ item[delivery[d].topic] = [status |-> "reserved", holder |-> d]
       \/ item[delivery[d].topic].status = "expired"

(* One source is sent to the user at most once: no two rows marked sent    *)
(* are about the same page or the same source entry, even when the topic   *)
(* went back to the pool and was claimed again in between.                 *)
SourceSentOnce ==
  \A d, e \in Sent : Clash(delivery[d].topic, delivery[e].topic) => d = e

(* Action properties.                                                      *)

(* A consumed, expired or dismissed topic stays that way: a late failure   *)
(* report never puts it back in the pool.                                  *)
RetiredIsFinal ==
  [][\A t \in Topics : item[t].status \in Retired => item'[t].status = item[t].status]_poolVars

(* A topic taken by one claim passes to another only if the first claim    *)
(* has failed and, unless its own caller reported it, had 15 minutes.      *)
ClaimNotStolen ==
  [][\A t \in Topics :
       /\ item[t].status = "reserved"
       /\ item'[t].status = "reserved" /\ item'[t].holder # item[t].holder
       => /\ delivery'[item[t].holder].status = "failed"
          /\ now - delivery[item[t].holder].created_at >= ClaimTimeout]_poolVars

(* What the status of its row says of a topic, in the words of TopicClaims.*)
PhaseOf(status) ==
  CASE status = "absent" -> "unknown"
    [] status \in {"open", "reserved"} -> "offered"
    [] status \in Retired -> "retired"

(* The tables implement the abstract claims of TopicClaims: open and       *)
(* reserved items are on offer, a reserved row is a held claim.            *)
Claims == INSTANCE TopicClaims WITH
  Claims  <- Deliveries,
  phase   <- [t \in Topics |-> PhaseOf(item[t].status)],
  state   <- [d \in Deliveries |->
                IF delivery[d].status = "reserved" THEN "held" ELSE delivery[d].status],
  subject <- [d \in Deliveries |-> {delivery[d].topic} \ {NULL}]

ImplementsClaims == Claims!Spec
============================================================================
