----------------------------- MODULE RunService -----------------------------
(***************************************************************************)
(* What a client of the run orchestrator may rely on: scenarios run one    *)
(* after the other, a goal is answered once, and the answer to a goal that *)
(* was started comes after its launch has ended.                           *)
(***************************************************************************)

CONSTANT Goals  \* run_scenario goals, each a request of its own

VARIABLES
  phase,   \* of each goal's launch: "none", "up", "down"
  clean,   \* the goals whose launch ended by itself with exit code 0
  answer   \* to each goal, "open" until there is one

serviceVars == <<phase, clean, answer>>

ServiceInit ==
  /\ phase = [g \in Goals |-> "none"]
  /\ clean = {}
  /\ answer = [g \in Goals |-> "open"]

Start(g) ==
  /\ phase[g] = "none" /\ answer[g] = "open"
  /\ \A h \in Goals : phase[h] # "up"
  /\ phase' = [phase EXCEPT ![g] = "up"]
  /\ UNCHANGED <<clean, answer>>

End(g) ==
  /\ phase[g] = "up"
  /\ phase' = [phase EXCEPT ![g] = "down"]
  /\ clean' \in {clean, clean \cup {g}}
  /\ UNCHANGED answer

Decline(g) ==
  /\ phase[g] = "none" /\ answer[g] = "open"
  /\ answer' \in {[answer EXCEPT ![g] = a] : a \in {"rejected", "aborted"}}
  /\ UNCHANGED <<phase, clean>>

Conclude(g) ==
  /\ phase[g] = "down" /\ answer[g] = "open"
  /\ \E a \in {"succeeded", "aborted", "cancelled"} :
       /\ a = "succeeded" => g \in clean
       /\ answer' = [answer EXCEPT ![g] = a]
  /\ UNCHANGED <<phase, clean>>

ServiceNext == \E g \in Goals : Start(g) \/ End(g) \/ Decline(g) \/ Conclude(g)

ServiceSpec == ServiceInit /\ [][ServiceNext]_serviceVars

=============================================================================
