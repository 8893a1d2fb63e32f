--------------------------- MODULE EffectivelyOnce ---------------------------
(***************************************************************************)
(* What the control protocol promises a run's results: messages queued by   *)
(* an agent process are committed by the controller in order and without    *)
(* gaps, each committed message is applied at most once and in any order,   *)
(* and the process forgets a message only once it has been committed.       *)
(* UplinkDelivery implements this with windows, sessions and               *)
(* acknowledgements; the header of coordination.proto promises it:          *)
(* "at-least-once on the wire and effectively-once at the controller".      *)
(***************************************************************************)
EXTENDS Naturals, Sequences

CONSTANT Source   \* agent processes

VARIABLES
  queued,     \* number of messages a process has queued
  committed,  \* how many of them the controller has accepted responsibility for
  forgotten,  \* how many of them the process no longer keeps for replay
  applied     \* the messages applied so far, in order of application

evars == <<queued, committed, forgotten, applied>>

EInit ==
  /\ queued = [s \in Source |-> 0]
  /\ committed = [s \in Source |-> 0]
  /\ forgotten = [s \in Source |-> 0]
  /\ applied = [s \in Source |-> <<>>]

Queue(s) ==
  /\ queued' = [queued EXCEPT ![s] = @ + 1]
  /\ UNCHANGED <<committed, forgotten, applied>>

Commit(s) ==
  /\ committed[s] < queued[s]
  /\ committed' = [committed EXCEPT ![s] = @ + 1]
  /\ UNCHANGED <<queued, forgotten, applied>>

ApplyOne(s) ==
  \E n \in 1..committed[s] :
    /\ \A i \in 1..Len(applied[s]) : applied[s][i] # n
    /\ applied' = [applied EXCEPT ![s] = Append(@, n)]
    /\ UNCHANGED <<queued, committed, forgotten>>

Forget(s) ==
  \E n \in forgotten[s]..committed[s] :
    /\ forgotten' = [forgotten EXCEPT ![s] = n]
    /\ UNCHANGED <<queued, committed, applied>>

ENext == \E s \in Source : Queue(s) \/ Commit(s) \/ ApplyOne(s) \/ Forget(s)

ESpec == EInit /\ [][ENext]_evars
=============================================================================
