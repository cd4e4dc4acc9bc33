---------------------------- MODULE TopicClaims ----------------------------
(***************************************************************************)
(* What the Topic Pool promises about claims, with no tables, clocks or    *)
(* preferences.  A topic is offered once; while it is offered it may be    *)
(* granted to one claim at a time; a claim ends sent or failed, once; a    *)
(* sent topic, like one that was withdrawn, is retired for good.           *)
(***************************************************************************)
CONSTANTS Topics, Claims

VARIABLES
  phase,    \* topic -> "unknown", "offered" or "retired"
  state,    \* claim -> "unused", "held", "sent" or "failed"
  subject   \* claim -> the set holding the topic it was granted, {} before that

claimVars == <<phase, state, subject>>

Init ==
  /\ phase = [t \in Topics |-> "unknown"]
  /\ state = [c \in Claims |-> "unused"]
  /\ subject = [c \in Claims |-> {}]

HeldOn(t) == {c \in Claims : state[c] = "held" /\ t \in subject[c]}

(* New topics arrive and offered ones are withdrawn, in any number.        *)
Move(new, gone) ==
  /\ \A t \in new  : phase[t] = "unknown"
  /\ \A t \in gone : phase[t] = "offered" \/ t \in new
  /\ phase' = [t \in Topics |-> IF t \in gone THEN "retired"
                                ELSE IF t \in new THEN "offered" ELSE phase[t]]

Curate ==
  /\ \E new, gone \in SUBSET Topics : Move(new, gone)
  /\ UNCHANGED <<state, subject>>

(* A grant may first withdraw topics and take claims back, but t is then   *)
(* on offer with no claim left on it.                                      *)
Grant(c, t) ==
  \E gone \in SUBSET Topics, back \in SUBSET Claims :
    /\ Move({}, gone)
    /\ \A b \in back : state[b] = "held"
    /\ phase[t] = "offered" /\ t \notin gone
    /\ HeldOn(t) \subseteq back
    /\ state[c] = "unused"
    /\ state' = [b \in Claims |-> IF b = c THEN "held"
                                  ELSE IF b \in back THEN "failed" ELSE state[b]]
    /\ subject' = [subject EXCEPT ![c] = {t}]

Deliver(c) ==
  /\ state[c] = "held"
  /\ state' = [state EXCEPT ![c] = "sent"]
  /\ phase' = [t \in Topics |-> IF t \in subject[c] THEN "retired" ELSE phase[t]]
  /\ UNCHANGED subject

Fail(c) ==
  /\ state[c] = "held"
  /\ state' = [state EXCEPT ![c] = "failed"]
  /\ UNCHANGED <<phase, subject>>

Next ==
  \/ Curate
  \/ \E c \in Claims : Deliver(c) \/ Fail(c)
  \/ \E c \in Claims, t \in Topics : Grant(c, t)

Spec == Init /\ [][Next]_claimVars
============================================================================
