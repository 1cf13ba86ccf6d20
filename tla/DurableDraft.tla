---------------------------- MODULE DurableDraft ----------------------------
(***************************************************************************)
(* What the checkpoint ring promises: a reboot finds the last record that  *)
(* was put, until the session is wiped.  Only a wipe may bring an older    *)
(* record back to the front, and once it has finished there is none.       *)
(***************************************************************************)
EXTENDS Naturals

CONSTANT Times  \* records are told apart by when they were taken; 0 is none

VARIABLES
  draft,   \* the record a boot would find now
  older,   \* records still stored behind it
  wiping   \* a wipe has been started and is not over

vars == <<draft, older, wiping>>

Init == draft = 0 /\ older = {} /\ wiping = FALSE

\* A record may be put although a wipe that failed is not over.
Put(d) ==
  /\ draft' = d
  /\ older' = (older \union {draft}) \ {0}
  /\ UNCHANGED wiping

\* Room for new records is made at the expense of the older ones.
Forget ==
  /\ older' \in SUBSET older
  /\ UNCHANGED <<draft, wiping>>

BeginWipe == ~wiping /\ wiping' = TRUE /\ UNCHANGED <<draft, older>>

\* A wipe takes records away in no particular order.
Uncover ==
  /\ wiping
  /\ draft' \in older \union {0}
  /\ older' \in SUBSET (older \ {draft'})
  /\ wiping' \in BOOLEAN

EndWipe == wiping /\ draft' = 0 /\ older' = {} /\ wiping' = FALSE

\* The wipe is interrupted: what is left stays.
Abandon == wiping /\ wiping' = FALSE /\ draft' = draft /\ older' \in SUBSET older

Next ==
  \/ \E d \in Times : Put(d)
  \/ Forget \/ BeginWipe \/ Uncover \/ EndWipe \/ Abandon

Spec == Init /\ [][Next]_vars
=============================================================================
