--------------------------- MODULE MutationFence ---------------------------
(***************************************************************************)
(* What the shared mutation claim promises, whatever the provider, the     *)
(* database and the processes do: the attempts to change one subscription  *)
(* at its provider follow one another.  An attempt takes effect at most    *)
(* once and only while it is the one in flight, its verdict is recorded    *)
(* once, is the truth about that effect, and only then may another attempt *)
(* begin.                                                                  *)
(***************************************************************************)

CONSTANTS
    Attempt,      \* the attempts to change the subscription at its provider
    NoAttempt     \* nobody

VARIABLES
    inFlight,     \* the attempt between its claim and its verdict, or NoAttempt
    effect,       \* effect[a]: the provider carried the attempt out
    verdict       \* verdict[a]: "none", or what was recorded of it

fenceVars == <<inFlight, effect, verdict>>

Init ==
    /\ inFlight = NoAttempt
    /\ effect = [a \in Attempt |-> FALSE]
    /\ verdict = [a \in Attempt |-> "none"]

\* A fresh attempt is let in when nobody is in flight
Begin(a) ==
    /\ inFlight = NoAttempt
    /\ verdict[a] = "none"
    /\ ~effect[a]
    /\ inFlight' = a
    /\ UNCHANGED <<effect, verdict>>

\* The provider carries the attempt in flight out, once
TakeEffect(a) ==
    /\ inFlight = a
    /\ ~effect[a]
    /\ effect' = [effect EXCEPT ![a] = TRUE]
    /\ UNCHANGED <<inFlight, verdict>>

\* The truth about the attempt in flight is recorded and the next is let in
Conclude(a) ==
    /\ inFlight = a
    /\ verdict' = [verdict EXCEPT ![a] = IF effect[a] THEN "applied" ELSE "not_applied"]
    /\ inFlight' = NoAttempt
    /\ UNCHANGED effect

Next == \E a \in Attempt : Begin(a) \/ TakeEffect(a) \/ Conclude(a)

Spec == Init /\ [][Next]_fenceVars

============================================================================
