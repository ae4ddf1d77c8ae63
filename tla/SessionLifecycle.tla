-------------------------- MODULE SessionLifecycle --------------------------
(***************************************************************************)
(* What a session promises to whoever reads it from the MemoryStore: it is *)
(* recorded as Paused any number of times and then, at most once, as       *)
(* Completed or Failed.  Its step count never goes back, and only another  *)
(* Start opens a finished session again.                                   *)
(***************************************************************************)
EXTENDS Naturals

CONSTANTS Sessions

VARIABLES
    starts,  \* starts[s]: number of times the session was started
    saved    \* saved[s]: which start the record belongs to, its status, steps

lifecycleVars == <<starts, saved>>

Outcome == {"Paused", "Completed", "Failed"}

Init ==
    /\ starts = [s \in Sessions |-> 0]
    /\ saved = [s \in Sessions |->
                   [gen |-> 0, status |-> "Running", stepCount |-> 0]]

\* The session is started, for the first time or once more.
Begin(s) ==
    /\ starts' = [starts EXCEPT ![s] = @ + 1]
    /\ UNCHANGED saved

\* A run of the session ends.  It continues the recorded pause, or it belongs
\* to a later start than the record.
Record(s) ==
    /\ saved' = [saved EXCEPT ![s] = saved'[s]]
    /\ saved'[s].gen \in 1..starts[s]
    /\ saved'[s].status \in Outcome
    /\ \/ saved'[s].gen > saved[s].gen
       \/ /\ saved'[s].gen = saved[s].gen
          /\ saved[s].status = "Paused"
          /\ saved'[s].stepCount >= saved[s].stepCount
    /\ UNCHANGED starts

Next == \E s \in Sessions : Begin(s) \/ Record(s)

Spec == Init /\ [][Next]_lifecycleVars
=============================================================================
