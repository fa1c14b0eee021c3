---------------------------- MODULE RoundService ----------------------------
(***************************************************************************)
(* What the run queue promises to the people in a conversation, without    *)
(* workers, leases, generations or attempts: messages become rounds,       *)
(* the rounds of a conversation are worked on one at a time and in the     *)
(* order they came, and a round that succeeds is answered, once, in the    *)
(* very step in which it succeeds.                                         *)
(***************************************************************************)
EXTENDS Integers

CONSTANTS
  Rounds,           \* a set of numbers: the order in which messages came
  Conversations,
  NoConversation,
  Audience          \* the rounds whose answer goes back to an IM platform

VARIABLES
  conversation,     \* the conversation of each round
  phase,            \* how far each round is
  answered          \* the rounds whose answer was handed over for delivery

serviceVars == <<conversation, phase, answered>>

Phases == {"absent", "queued", "running", "succeeded", "failed", "cancelled"}

ServiceInit ==
  /\ conversation = [r \in Rounds |-> NoConversation]
  /\ phase = [r \in Rounds |-> "absent"]
  /\ answered = {}

\* A message arrives after every message that came before it.
Submit(r, c) ==
  /\ phase[r] = "absent"
  /\ \A q \in Rounds : q > r => phase[q] = "absent"
  /\ conversation' = [conversation EXCEPT ![r] = c]
  /\ phase' = [phase EXCEPT ![r] = "queued"]
  /\ UNCHANGED answered

\* Its turn comes: nothing earlier is unfinished and nothing else is active.
Start(r) ==
  /\ phase[r] = "queued"
  /\ \A q \in Rounds \ {r} : conversation[q] = conversation[r] =>
       /\ phase[q] # "running"
       /\ q < r => phase[q] # "queued"
  /\ phase' = [phase EXCEPT ![r] = "running"]
  /\ UNCHANGED <<conversation, answered>>

Answer(r) ==
  /\ phase[r] = "running"
  /\ phase' = [phase EXCEPT ![r] = "succeeded"]
  /\ answered' = answered \cup ({r} \cap Audience)
  /\ UNCHANGED conversation

\* Work on some active rounds breaks off: each waits again or has failed.
BreakOff(again, lost) ==
  /\ \A r \in again \cup lost : phase[r] = "running"
  /\ phase' = [r \in Rounds |-> IF r \in again THEN "queued"
                                ELSE IF r \in lost THEN "failed" ELSE phase[r]]
  /\ UNCHANGED <<conversation, answered>>

Cancel(r) ==
  /\ phase[r] \in {"queued", "running"}
  /\ phase' = [phase EXCEPT ![r] = "cancelled"]
  /\ UNCHANGED <<conversation, answered>>

Reopen(r) ==
  /\ phase[r] \in {"failed", "cancelled"}
  /\ phase' = [phase EXCEPT ![r] = "queued"]
  /\ UNCHANGED <<conversation, answered>>

ServiceNext ==
  \/ \E r \in Rounds :
       \/ \E c \in Conversations : Submit(r, c)
       \/ Start(r) \/ Answer(r) \/ Cancel(r) \/ Reopen(r)
  \/ \E again, lost \in SUBSET Rounds : BreakOff(again, lost)

ServiceSpec == ServiceInit /\ [][ServiceNext]_serviceVars
=============================================================================
