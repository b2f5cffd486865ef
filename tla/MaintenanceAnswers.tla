-------------------------- MODULE MaintenanceAnswers --------------------------
(***************************************************************************)
(* What fetchStoreMaintenanceInfo promises a page that asks it: an answer  *)
(* for each key it named which is a setting the backend had at most Bound  *)
(* ago, or one of the two substitutes, Default and Simulated.  How the     *)
(* answer is found is MaintenanceCache's business, which implements this.  *)
(***************************************************************************)
EXTENDS Integers, Sequences

CONSTANTS
  Keys,       \* the maintenance switches
  Callers,    \* renders of a page that ask for them
  Default,    \* the answer when there is no other
  Simulated,  \* the answer made up when the backend cannot be reached
  Bound       \* how old an answer may be

VARIABLES
  now,      \* the clock
  retired,  \* for each key, when each earlier version of it was replaced
  call      \* what each caller asked, and its answer

vars == <<now, retired, call>>

\* Versions are numbered from 0; version v was replaced at retired[k][v + 1].
Current(k) == Len(retired[k])
HeldSince(k, t) == {v \in 0 .. Current(k) : v = Current(k) \/ retired[k][v + 1] >= t}
Acceptable(k) == {Default, Simulated} \cup HeldSince(k, now - Bound)

Nothing == [k \in {} |-> Default]
Idle == [pc |-> "idle", keys |-> {}, answer |-> Nothing]

Init ==
  /\ now = 0
  /\ retired = [k \in Keys |-> <<>>]
  /\ call = [c \in Callers |-> Idle]

Tick == now' = now + 1 /\ UNCHANGED <<retired, call>>

Change(k) ==
  /\ retired' = [retired EXCEPT ![k] = Append(@, now)]
  /\ UNCHANGED <<now, call>>

\* Callers ask, and callers that wait are answered, any number of them at once.
Respond ==
  /\ \A c \in Callers :
       \/ call'[c] = call[c]
       \/ call[c].pc # "waiting" /\ call'[c].pc = "waiting"
       \/ /\ call'[c].pc = "answered"
          /\ call[c].pc = "waiting" => call'[c].keys = call[c].keys
          /\ \A k \in call'[c].keys : call'[c].answer[k] \in Acceptable(k)
  /\ UNCHANGED <<now, retired>>

Next == Tick \/ (\E k \in Keys : Change(k)) \/ Respond

Spec == Init /\ [][Next]_vars
=============================================================================
