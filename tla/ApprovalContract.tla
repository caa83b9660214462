--------------------------- MODULE ApprovalContract ---------------------------
(***************************************************************************)
(* What the approval of a plan promises, without the two stores, requests, *)
(* transactions or failures: one version of the plan is open at a time, an *)
(* edit replaces it by a version nobody has seen before, one decision ends *)
(* that, and only the version a human has approved is ever executed, once. *)
(***************************************************************************)
CONSTANTS Plan, None

VARIABLES
  open,      \* the version that a decision would be about
  offered,   \* every version there has been
  verdict,   \* "none" until the decision
  executed   \* the version whose execution has started

promise == <<open, offered, verdict, executed>>

Init == open = None /\ offered = {} /\ verdict = "none" /\ executed = None

Propose(p) ==
  /\ open = None
  /\ open' = p /\ offered' = {p}
  /\ UNCHANGED <<verdict, executed>>

Replace(q) ==
  /\ open # None /\ verdict = "none"
  /\ q \notin offered
  /\ open' = q /\ offered' = offered \cup {q}
  /\ UNCHANGED <<verdict, executed>>

Decide(v) ==
  /\ open # None /\ verdict = "none"
  /\ verdict' = v
  /\ UNCHANGED <<open, offered, executed>>

Execute ==
  /\ verdict = "APPROVED" /\ executed = None
  /\ executed' = open
  /\ UNCHANGED <<open, offered, verdict>>

Next ==
  \/ \E p \in Plan : Propose(p) \/ Replace(p)
  \/ \E v \in {"APPROVED", "REJECTED", "CANCELLED"} : Decide(v)
  \/ Execute

Spec == Init /\ [][Next]_promise
=============================================================================
