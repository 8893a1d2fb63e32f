----------------------------- MODULE FlowProofs -----------------------------
(* What is proved of the iterations of a scenario's VUs (module Flow), for any *)
(* finite set of VUs, any flow and any number of branches and iterations.      *)
EXTENDS Flow, FiniteSetTheorems, SequenceTheorems, WellFoundedInduction, TLAPS

-----------------------------------------------------------------------------
(* The inductive invariant. *)

\* The requests that are out.
Sending == {c \in Context : at[c] = "send"}

\* Branches exist while their VU is at the join.
ForkInv == \A v \in Vu : at[Main(v)] # "join" => \A c \in BranchesOf(v) : at[c] = "ended"

\* A VU of which an abort was asked has ended, or one of its branches keeps an
\* abort for the join.
KeepsAbort(v) == \E c \in BranchesOf(v) : at[c] = "ended" /\ outcome[c] \in Aborts
AbortInv ==
  /\ doomed \subseteq Vu
  /\ \A v \in doomed :
       at[Main(v)] = "retired" \/ (at[Main(v)] = "join" /\ KeepsAbort(v))

FlowInv ==
  /\ TypeOK /\ in_flight = Cardinality(Sending)
  /\ ForkInv /\ AbortInv /\ RendezvousOpens

-----------------------------------------------------------------------------
(* Contexts. *)

\* Facts about the contexts of VUs.
LEMMA Contexts ==
  /\ \A c \in Context : c[1] \in Vu /\ c[2] \in 0..Branches /\ c = <<c[1], c[2]>>
  /\ \A v \in Vu : Main(v) \in Context /\ Main(v)[1] = v /\ Main(v)[2] = 0
  /\ \A v \in Vu : Family(v) = {c \in Context : c[1] = v}
  /\ \A v \in Vu : BranchesOf(v) = {c \in Context : c[1] = v /\ c[2] # 0}
  /\ \A c \in Context : c[2] = 0 => c = Main(c[1])
<1> USE SizeAssumption
<1>1. \A c \in Context : c[1] \in Vu /\ c[2] \in 0..Branches /\ c = <<c[1], c[2]>>
  BY DEF Context
<1>2. \A v \in Vu : Main(v) \in Context /\ Main(v)[1] = v /\ Main(v)[2] = 0
  BY DEF Context, Main
<1>3. \A v \in Vu : Family(v) = {c \in Context : c[1] = v}
  BY DEF Context, Family
<1>4. \A c \in Context : c[2] = 0 => c = Main(c[1])
  BY <1>1 DEF Main
<1>5. \A v \in Vu : BranchesOf(v) = {c \in Context : c[1] = v /\ c[2] # 0}
  BY <1>2, <1>3, <1>4 DEF BranchesOf
<1> QED
  BY <1>1, <1>2, <1>3, <1>4, <1>5

\* There are finitely many, and so are those in any place.
LEMMA FiniteContexts ==
  /\ IsFiniteSet(Context)
  /\ \A S : S \subseteq Context => IsFiniteSet(S) /\ Cardinality(S) \in Nat
<1>1. IsFiniteSet(0..Branches)
  BY FS_Interval, SizeAssumption
<1>2. IsFiniteSet(Context)
  BY <1>1, FS_Product, SizeAssumption DEF Context
<1>3. ASSUME NEW S, S \subseteq Context PROVE IsFiniteSet(S) /\ Cardinality(S) \in Nat
  BY <1>2, <1>3, FS_Subset, FS_CardinalityType
<1> QED
  BY <1>2, <1>3

\* Subsets of the contexts are no larger.
LEMMA Fewer ==
  ASSUME NEW S, NEW T, S \subseteq T, T \subseteq Context
  PROVE  Cardinality(S) <= Cardinality(T)
BY FiniteContexts, FS_Subset

-----------------------------------------------------------------------------
(* A step of one context. *)

Busy == {"step", "slot", "send", "think", "released", "backoff", "rendezvous"}

\* What one context of a running iteration may do to the state the invariant is
\* about: move itself, release those that wait at the rendezvous, count its own
\* request, and end with an abort.
ContextStep(c) ==
  /\ at[c] \in Busy /\ at'[c] # "join"
  /\ \A d \in Context : d # c =>
       /\ at'[d] = at[d] \/ (at[d] = "rendezvous" /\ at'[d] = "released")
       /\ outcome'[d] = outcome[d]
  /\ \/ at[c] # "send" /\ at'[c] # "send" /\ in_flight' = in_flight
     \/ at[c] # "send" /\ at'[c] = "send" /\ in_flight' = in_flight + 1
     \/ at[c] = "send" /\ at'[c] # "send" /\ in_flight' = in_flight - 1
  /\ \/ doomed' = doomed
     \/ /\ doomed' = doomed \cup {c[1]} /\ outcome'[c] \in Aborts
        /\ at'[c] = IF c[2] = 0 THEN "retired" ELSE "ended"
  /\ \/ arrived' = arrived /\ at'[c] # "rendezvous"
     \/ arrived' = arrived + 1 /\ arrived' # Users
     \/ arrived' = 0 /\ \A d \in Context : at'[d] # "rendezvous"

\* The gauge follows a context that starts or ends a request.
LEMMA ContextCounts ==
  ASSUME FlowInv, NEW c \in Context, ContextStep(c)
  PROVE  in_flight' = Cardinality(Sending')
<1> DEFINE S == Sending
<1>1. IsFiniteSet(S) /\ Cardinality(S) \in Nat /\ in_flight = Cardinality(S)
  BY FiniteContexts DEF Sending, FlowInv
<1>2. \A d \in Context : d # c => (at'[d] = "send" <=> at[d] = "send")
  BY DEF ContextStep
<1>3. CASE at[c] # "send" /\ at'[c] # "send" /\ in_flight' = in_flight
  <2>1. Sending' = S
    BY <1>2, <1>3 DEF Sending
  <2> QED
    BY <1>1, <1>3, <2>1
<1>4. CASE at[c] # "send" /\ at'[c] = "send" /\ in_flight' = in_flight + 1
  <2>1. Sending' = S \cup {c} /\ c \notin S
    BY <1>2, <1>4 DEF Sending
  <2>2. Cardinality(S \cup {c}) = Cardinality(S) + 1
    BY <1>1, <2>1, FS_AddElement
  <2> QED
    BY <1>1, <1>4, <2>1, <2>2
<1>5. CASE at[c] = "send" /\ at'[c] # "send" /\ in_flight' = in_flight - 1
  <2>1. Sending' = S \ {c} /\ c \in S
    BY <1>2, <1>5 DEF Sending
  <2>2. Cardinality(S \ {c}) = Cardinality(S) - 1
    BY <1>1, <2>1, FS_RemoveElement
  <2> QED
    BY <1>1, <1>5, <2>1, <2>2
<1> QED
  BY <1>3, <1>4, <1>5 DEF ContextStep

\* Such a step makes no branches.
LEMMA ContextForks ==
  ASSUME FlowInv, NEW c \in Context, ContextStep(c)
  PROVE  ForkInv'
<1> SUFFICES ASSUME NEW v \in Vu, at'[Main(v)] # "join", NEW d \in BranchesOf(v)
             PROVE  at'[d] = "ended"
  BY DEF ForkInv, BranchesOf, Family, Main
<1>1. Main(v) \in Context /\ d \in Context /\ d[1] = v /\ d[2] # 0
  BY Contexts
<1>2. at[Main(v)] # "join"
  BY <1>1 DEF ContextStep, Busy
<1>3. at[d] = "ended"
  BY <1>2 DEF FlowInv, ForkInv
<1> QED
  BY <1>1, <1>3 DEF ContextStep, Busy

\* An abort reaches the VU, or waits for the join.
LEMMA ContextAborts ==
  ASSUME FlowInv, NEW c \in Context, ContextStep(c)
  PROVE  AbortInv'
<1>1. c[1] \in Vu /\ Main(c[1]) \in Context
  BY Contexts
<1>2. doomed' \subseteq Vu
  BY <1>1 DEF FlowInv, AbortInv, ContextStep
<1>3. ASSUME NEW v \in doomed'
      PROVE  \/ at'[Main(v)] = "retired"
             \/ at'[Main(v)] = "join" /\ \E d \in BranchesOf(v) :
                                            at'[d] = "ended" /\ outcome'[d] \in Aborts
  <2>1. v \in Vu /\ Main(v) \in Context
    BY <1>2, Contexts
  <2>2. CASE v \in doomed /\ at[Main(v)] = "retired"
    BY <2>1, <2>2 DEF ContextStep, Busy
  <2>3. CASE v \in doomed /\ at[Main(v)] = "join" /\ KeepsAbort(v)
    <3>1. PICK d \in BranchesOf(v) : at[d] = "ended" /\ outcome[d] \in Aborts
      BY <2>3 DEF KeepsAbort
    <3>2. d \in Context
      BY <2>1, Contexts
    <3> QED
      BY <2>1, <2>3, <3>1, <3>2 DEF ContextStep, Busy
  <2>4. CASE v \notin doomed
    <3>1. /\ v = c[1] /\ outcome'[c] \in Aborts
          /\ at'[c] = IF c[2] = 0 THEN "retired" ELSE "ended"
      BY <1>3, <2>4 DEF ContextStep
    <3>2. CASE c[2] = 0
      BY <3>1, <3>2, Contexts
    <3>3. CASE c[2] # 0
      <4>1. c \in BranchesOf(v) /\ c # Main(v)
        BY <2>1, <3>1, <3>3, Contexts
      <4>2. at[Main(v)] = "join"
        BY <2>1, <4>1 DEF FlowInv, ForkInv, ContextStep, Busy
      <4>3. at'[Main(v)] = "join"
        BY <2>1, <4>1, <4>2 DEF ContextStep
      <4> QED
        BY <3>1, <3>3, <4>1, <4>3
    <3> QED
      BY <3>2, <3>3
  <2> QED
    BY <2>2, <2>3, <2>4 DEF FlowInv, AbortInv
<1> QED
  BY <1>2, <1>3 DEF AbortInv, KeepsAbort, BranchesOf, Family, Main

\* The barrier counts the arrival, or opens.
LEMMA ContextWaits ==
  ASSUME FlowInv, NEW c \in Context, ContextStep(c)
  PROVE  RendezvousOpens'
<1> USE SizeAssumption
<1> DEFINE W == Waiting
<1>1. /\ W \subseteq Context /\ IsFiniteSet(W) /\ Cardinality(W) \in Nat
      /\ arrived \in Nat /\ Cardinality(W) <= arrived /\ arrived < Users
  BY FiniteContexts DEF Waiting, FlowInv, TypeOK, RendezvousOpens
<1>2. Waiting' \subseteq W \cup {c} /\ Waiting' \subseteq Context
  BY DEF Waiting, ContextStep
<1>3. PICK w : w = Waiting'
  OBVIOUS
<1>4. IsFiniteSet(w) /\ Cardinality(w) \in Nat
  BY <1>2, <1>3, FiniteContexts
<1>5. CASE arrived' = arrived /\ at'[c] # "rendezvous"
  <2>1. w \subseteq W
    BY <1>2, <1>3, <1>5 DEF Waiting
  <2>2. Cardinality(w) <= Cardinality(W)
    BY <1>1, <2>1, Fewer
  <2> QED
    BY <1>1, <1>3, <1>4, <1>5, <2>2 DEF RendezvousOpens
<1>6. CASE arrived' = arrived + 1 /\ arrived' # Users
  <2>1. Cardinality(W \cup {c}) <= Cardinality(W) + 1
    <3>1. Cardinality(W \cup {c}) = IF c \in W THEN Cardinality(W) ELSE Cardinality(W) + 1
      BY <1>1, FS_AddElement
    <3> HIDE DEF W
    <3> QED
      BY <1>1, <3>1
  <2>2. Cardinality(w) <= Cardinality(W \cup {c})
    BY <1>1, <1>2, <1>3, Fewer
  <2>3. Cardinality(W \cup {c}) \in Nat
    BY <1>1, FiniteContexts
  <2>4. Cardinality(w) <= arrived + 1 /\ arrived + 1 < Users
    BY <1>1, <1>4, <1>6, <2>1, <2>2, <2>3
  <2> QED
    BY <1>3, <1>6, <2>4 DEF RendezvousOpens
<1>7. CASE arrived' = 0 /\ \A d \in Context : at'[d] # "rendezvous"
  <2>1. w = {}
    BY <1>3, <1>7 DEF Waiting
  <2>2. Cardinality(w) = 0
    BY <2>1, FS_EmptySet
  <2> QED
    BY <1>3, <1>7, <2>2 DEF RendezvousOpens
<1> QED
  BY <1>5, <1>6, <1>7 DEF ContextStep

\* So a step of one context preserves the invariant.
LEMMA ContextPreserves ==
  ASSUME FlowInv, TypeOK', NEW c \in Context, ContextStep(c)
  PROVE  FlowInv'
BY ContextCounts, ContextForks, ContextAborts, ContextWaits DEF FlowInv

-----------------------------------------------------------------------------
(* The steps of one context. *)

\* StartRequest, Prepared, PrepareFails.
LEMMA RequestSteps ==
  ASSUME FlowInv, NEW c \in Context, StartRequest(c) \/ Prepared(c) \/ PrepareFails(c)
  PROVE  TypeOK' /\ ContextStep(c)
<1> USE DEF FlowInv, TypeOK, history
<1>1. CASE StartRequest(c)
  BY <1>1 DEF StartRequest, AtStep, Running, ContextStep, Busy, Places, Awaits
<1>2. CASE Prepared(c)
  BY <1>2 DEF Prepared, ContextStep, Busy, Places, Awaits
<1>3. CASE PrepareFails(c)
  BY <1>3 DEF PrepareFails, Advance, ContextStep, Busy, Places, Awaits
<1> QED
  BY <1>1, <1>2, <1>3

\* A request or its data ends the VU's flow.
LEMMA UnwindStep ==
  ASSUME FlowInv, NEW c \in Context, NEW o \in Outcomes, Unwind(c, o)
  PROVE  /\ at' \in [Context -> Places] /\ outcome' \in [Context -> Outcomes]
         /\ DOMAIN stack' = Context /\ DOMAIN groups' = Context
         /\ at'[c] = (IF c[2] = 0 THEN "retired" ELSE "ended") /\ outcome'[c] = o
         /\ \A d \in Context : d # c => at'[d] = at[d] /\ outcome'[d] = outcome[d]
BY DEF FlowInv, TypeOK, Unwind, Places

\* The data of a request is exhausted.
LEMMA ExhaustedStep ==
  ASSUME FlowInv, NEW c \in Context, DataExhausted(c)
  PROVE  TypeOK' /\ ContextStep(c)
<1>1. Unwind(c, "stop_vu") /\ "stop_vu" \in Outcomes /\ at[c] = "slot"
  BY DEF DataExhausted, Outcomes
<1>2. UNCHANGED <<program, failed, iteration, in_flight, arrived, doomed>>
  BY DEF DataExhausted, history
<1>3. TypeOK'
  BY <1>1, <1>2, UnwindStep DEF FlowInv, TypeOK
<1>4. ContextStep(c)
  BY <1>1, <1>2, UnwindStep DEF ContextStep, Busy
<1> QED
  BY <1>3, <1>4

\* The response, and what assertions make of it.
LEMMA RespondStep ==
  ASSUME FlowInv, NEW c \in Context, NEW bad \in BOOLEAN,
         NEW flow \in {"continue", "abort_iteration"} \cup Aborts, Respond(c, bad, flow)
  PROVE  TypeOK' /\ ContextStep(c)
<1>1. /\ at[c] = "send" /\ in_flight' = in_flight - 1
      /\ UNCHANGED <<program, iteration, arrived>>
  BY DEF Respond
<1>2. failed' \in [Context -> BOOLEAN]
  BY DEF Respond, FlowInv, TypeOK
<1>3. in_flight' \in Nat
  <2>1. Sending \in SUBSET Context /\ c \in Sending /\ IsFiniteSet(Sending)
    BY <1>1, FiniteContexts DEF Sending
  <2>2. Cardinality(Sending) \in Nat /\ Cardinality(Sending) # 0
    BY <2>1, FS_CardinalityType, FS_EmptySet
  <2> QED
    BY <1>1, <2>2 DEF FlowInv
<1>4. CASE flow \in {"continue", "abort_iteration"}
  <2>1. /\ at' = [at EXCEPT ![c] = "think"] \/ at' = [at EXCEPT ![c] = "step"]
        /\ DOMAIN stack' = Context /\ UNCHANGED <<groups, outcome, doomed>>
    BY <1>4 DEF Respond, Advance, FlowInv, TypeOK, Aborts
  <2>2. TypeOK'
    BY <1>1, <1>2, <1>3, <2>1 DEF FlowInv, TypeOK, Places, Awaits
  <2>3. ContextStep(c)
    BY <1>1, <2>1 DEF FlowInv, TypeOK, ContextStep, Busy
  <2> QED
    BY <2>2, <2>3
<1>5. CASE flow \in Aborts
  <2>1. Unwind(c, flow) /\ doomed' = doomed \cup {c[1]} /\ flow \in Outcomes
    BY <1>5 DEF Respond, Aborts, Outcomes
  <2>2. TypeOK'
    BY <1>1, <1>2, <1>3, <2>1, UnwindStep DEF FlowInv, TypeOK
  <2>3. at'[c] \in {"retired", "ended"}
    BY <2>1, UnwindStep
  <2>4. ContextStep(c)
    BY <1>1, <1>5, <2>1, <2>3, UnwindStep DEF ContextStep, Busy
  <2> QED
    BY <2>2, <2>4
<1> QED
  BY <1>4, <1>5

\* Steps that stay in the running flow.
LEMMA BlockSteps ==
  ASSUME FlowInv, NEW c \in Context,
         \/ \E b \in 1..Branches : Enter(c, b)
         \/ SkipLoop(c) \/ LeaveBlock(c) \/ NextRound(c)
  PROVE  TypeOK' /\ ContextStep(c)
<1> DEFINE Stays ==
             /\ at[c] = "step" /\ DOMAIN stack' = Context /\ DOMAIN groups' = Context
             /\ UNCHANGED <<program, at, outcome, iteration, in_flight, arrived, doomed>>
<1>1. Stays
  <2> USE DEF FlowInv, TypeOK, history, AtStep, AtEnd, Running
  <2>1. ASSUME NEW b \in 1..Branches, Enter(c, b) PROVE Stays
    BY <2>1 DEF Enter
  <2>2. CASE SkipLoop(c)
    BY <2>2 DEF SkipLoop, Advance
  <2>3. CASE LeaveBlock(c)
    BY <2>3 DEF LeaveBlock, PopGroup, Return
  <2>4. CASE NextRound(c)
    BY <2>4 DEF NextRound, Again, Return
  <2> QED
    BY <2>1, <2>2, <2>3, <2>4
<1>2. failed' = failed \/ failed' = [failed EXCEPT ![c] = FALSE]
  BY DEF Enter, SkipLoop, LeaveBlock, NextRound
<1>3. failed' \in [Context -> BOOLEAN]
  BY <1>2 DEF FlowInv, TypeOK
<1>4. TypeOK'
  BY <1>1, <1>3 DEF FlowInv, TypeOK
<1>5. ContextStep(c)
  BY <1>1 DEF ContextStep, Busy
<1> QED
  BY <1>4, <1>5

\* Timers, attempts and the end of a branch.
LEMMA WaitSteps ==
  ASSUME FlowInv, NEW c \in Context,
         \/ Wake(c) \/ (\E ok \in BOOLEAN : AttemptEnds(c, ok)) \/ NextAttempt(c)
         \/ GiveUp(c) \/ BranchEnds(c)
  PROVE  TypeOK' /\ ContextStep(c)
<1> DEFINE Moves ==
             /\ at[c] \in Busy \ {"send"} /\ DOMAIN stack' = Context
             /\ \/ at' = at /\ at[c] # "rendezvous"
                \/ \E p \in {"step", "backoff", "ended"} : at' = [at EXCEPT ![c] = p]
             /\ UNCHANGED <<program, groups, outcome, iteration, in_flight, arrived, doomed>>
<1>1. Moves
  <2> USE DEF FlowInv, TypeOK, history, AtEnd, Running, Busy
  <2>1. CASE Wake(c)
    BY <2>1 DEF Wake
  <2>2. ASSUME NEW ok \in BOOLEAN, AttemptEnds(c, ok) PROVE Moves
    BY <2>2 DEF AttemptEnds, Return
  <2>3. CASE NextAttempt(c)
    BY <2>3 DEF NextAttempt, Again
  <2>4. CASE GiveUp(c)
    BY <2>4 DEF GiveUp
  <2>5. CASE BranchEnds(c)
    BY <2>5 DEF BranchEnds, Return
  <2> QED
    BY <2>1, <2>2, <2>3, <2>4, <2>5
<1>2. failed' = failed \/ failed' = [failed EXCEPT ![c] = FALSE]
  BY DEF Wake, AttemptEnds, NextAttempt, GiveUp, BranchEnds
<1>3. failed' \in [Context -> BOOLEAN]
  BY <1>2 DEF FlowInv, TypeOK
<1>4. at' \in [Context -> Places]
  BY <1>1 DEF FlowInv, TypeOK, Places, Awaits
<1>5. TypeOK'
  BY <1>1, <1>3, <1>4 DEF FlowInv, TypeOK
<1>6. ContextStep(c)
  BY <1>1 DEF FlowInv, TypeOK, ContextStep, Busy
<1> QED
  BY <1>5, <1>6

\* An arrival at the rendezvous.
LEMMA ArriveStep ==
  ASSUME FlowInv, NEW c \in Context, Arrive(c)
  PROVE  TypeOK' /\ ContextStep(c)
<1> USE DEF history
<1>1. /\ at[c] = "step" /\ DOMAIN stack' = Context
      /\ UNCHANGED <<program, groups, failed, outcome, iteration, in_flight, doomed>>
  BY DEF Arrive, AtStep, Running, Advance, FlowInv, TypeOK
<1>2. CASE LastArrival
  <2>1. /\ arrived' = 0 /\ at' \in [Context -> Places] /\ at'[c] = "step"
        /\ \A d \in Context : at'[d] = IF at[d] = "rendezvous" THEN "released" ELSE at[d]
    BY <1>1, <1>2 DEF Arrive, Waiting, FlowInv, TypeOK, Places, Awaits
  <2>2. TypeOK'
    BY <1>1, <2>1 DEF FlowInv, TypeOK
  <2>3. ContextStep(c)
    BY <1>1, <2>1 DEF ContextStep, Busy
  <2> QED
    BY <2>2, <2>3
<1>3. CASE ~LastArrival
  <2>1. arrived' = arrived + 1 /\ at' = [at EXCEPT ![c] = "rendezvous"] /\ arrived + 1 # Users
    BY <1>3 DEF Arrive, LastArrival
  <2>2. TypeOK'
    BY <1>1, <2>1 DEF FlowInv, TypeOK, Places, Awaits
  <2>3. ContextStep(c)
    BY <1>1, <2>1 DEF FlowInv, TypeOK, ContextStep, Busy
  <2> QED
    BY <2>2, <2>3
<1> QED
  BY <1>2, <1>3

\* Every step a context takes by itself preserves the invariant.
LEMMA ProgressPreserves ==
  ASSUME FlowInv, NEW c \in Context, Progress(c)
  PROVE  FlowInv'
BY RequestSteps, ExhaustedStep, RespondStep, BlockSteps, WaitSteps, ArriveStep, ContextPreserves
   DEF Progress

-----------------------------------------------------------------------------
(* The iteration, its branches and its end. *)

\* A VU between iterations begins one, or ends.
LEMMA IdlePreserves ==
  ASSUME FlowInv, TypeOK', NEW v \in Vu, at[Main(v)] = "idle", NEW p \in {"step", "retired"},
         at' = [at EXCEPT ![Main(v)] = p], UNCHANGED <<outcome, in_flight, arrived, doomed>>
  PROVE  FlowInv'
<1>1. Main(v) \in Context
  BY Contexts
<1>2. at'[Main(v)] = p /\ \A d \in Context : d # Main(v) => at'[d] = at[d]
  BY <1>1 DEF FlowInv, TypeOK
<1>3. Sending' = Sending /\ Waiting' = Waiting
  BY <1>1, <1>2 DEF Sending, Waiting
<1>4. ForkInv'
  <2> SUFFICES ASSUME NEW w \in Vu, at'[Main(w)] # "join", NEW d \in BranchesOf(w)
               PROVE  at'[d] = "ended"
    BY DEF ForkInv, BranchesOf, Family, Main
  <2>1. Main(w) \in Context /\ d \in Context /\ d # Main(v) /\ at[Main(w)] # "join"
    BY <1>2, Contexts
  <2> QED
    BY <1>2, <2>1 DEF FlowInv, ForkInv
<1>5. AbortInv'
  <2>1. ASSUME NEW w \in doomed
        PROVE  at'[Main(w)] = at[Main(w)] /\ \A d \in BranchesOf(w) : at'[d] = at[d]
    BY <1>2, Contexts DEF FlowInv, AbortInv
  <2> QED
    BY <2>1 DEF FlowInv, AbortInv, KeepsAbort, BranchesOf, Family, Main
<1>6. RendezvousOpens'
  BY <1>3 DEF FlowInv, RendezvousOpens
<1> QED
  BY <1>3, <1>4, <1>5, <1>6 DEF FlowInv

\* run_iteration begins.
LEMMA BeginPreserves ==
  ASSUME FlowInv, NEW v \in Vu, BeginIteration(v)
  PROVE  FlowInv'
<1>1. Main(v) \in Context
  BY Contexts
<1>2. /\ at[Main(v)] = "idle" /\ at' = [at EXCEPT ![Main(v)] = "step"]
      /\ UNCHANGED <<program, groups, failed, outcome, in_flight, arrived, doomed>>
  BY DEF BeginIteration
<1>3. iteration' \in [Vu -> Nat] /\ DOMAIN stack' = Context
  BY DEF BeginIteration, FlowInv, TypeOK
<1>4. TypeOK'
  BY <1>1, <1>2, <1>3 DEF FlowInv, TypeOK, Places
<1> QED
  BY <1>2, <1>4, IdlePreserves

\* The executor lets the VU end.
LEMMA RetirePreserves ==
  ASSUME FlowInv, NEW v \in Vu, Retire(v)
  PROVE  FlowInv'
<1>1. /\ at[Main(v)] = "idle" /\ at' = [at EXCEPT ![Main(v)] = "retired"]
      /\ UNCHANGED <<program, stack, groups, failed, outcome, iteration, in_flight, arrived>>
      /\ UNCHANGED doomed
  BY DEF Retire, history
<1>2. TypeOK'
  BY <1>1, Contexts DEF FlowInv, TypeOK, Places
<1> QED
  BY <1>1, <1>2, IdlePreserves

\* An iteration is complete: a step of the VU's own context.
LEMMA CompletePreserves ==
  ASSUME FlowInv, NEW v \in Vu, CompleteIteration(v)
  PROVE  FlowInv'
<1>1. Main(v) \in Context
  BY Contexts
<1>2. /\ at[Main(v)] = "step" /\ at' = [at EXCEPT ![Main(v)] = "idle"]
      /\ DOMAIN stack' = Context
      /\ UNCHANGED <<program, groups, failed, outcome, iteration, in_flight, arrived, doomed>>
  BY DEF CompleteIteration, AtEnd, Running, Return, history, FlowInv, TypeOK
<1>3. TypeOK'
  BY <1>1, <1>2 DEF FlowInv, TypeOK, Places
<1>4. ContextStep(Main(v))
  BY <1>1, <1>2 DEF FlowInv, TypeOK, ContextStep, Busy
<1> QED
  BY <1>1, <1>3, <1>4, ContextPreserves

\* The executor drops an iteration with its branches and their requests.
LEMMA CancelPreserves ==
  ASSUME FlowInv, NEW v \in Vu, NEW place \in {"idle", "retired"}, Cancel(v, place)
  PROVE  FlowInv'
<1>1. Main(v) \in Context /\ Main(v) \notin BranchesOf(v) /\ BranchesOf(v) \subseteq Context
  BY Contexts
<1>2. /\ \A d \in Context : at'[d] = IF d = Main(v) THEN place
                                     ELSE IF d \in BranchesOf(v) THEN "ended" ELSE at[d]
      /\ \A d \in Context : d \notin Family(v) => outcome'[d] = outcome[d]
      /\ at' \in [Context -> Places] /\ outcome' \in [Context -> Outcomes]
      /\ DOMAIN stack' = Context /\ DOMAIN groups' = Context
      /\ doomed' = doomed \ {v} /\ UNCHANGED <<program, failed, iteration, arrived>>
  BY <1>1 DEF Cancel, FlowInv, TypeOK, Places, Outcomes
<1>3. PICK S : S = Sending
  OBVIOUS
<1>4. PICK F : F = InFlightOf(v)
  OBVIOUS
<1>5. IsFiniteSet(S) /\ Cardinality(S) \in Nat /\ in_flight = Cardinality(S)
  BY <1>3, FiniteContexts DEF Sending, FlowInv
<1>6. F \subseteq S /\ S \cap F = F
  BY <1>3, <1>4, Contexts DEF InFlightOf, Sending
<1>7. Sending' = S \ F
  BY <1>1, <1>2, <1>3, <1>4, Contexts DEF Sending, InFlightOf
<1>8. IsFiniteSet(S \ F) /\ Cardinality(S \ F) = Cardinality(S) - Cardinality(F)
  BY <1>5, <1>6, FS_Difference
<1>9. in_flight' = Cardinality(S \ F) /\ in_flight' \in Nat
  <2>1. in_flight' = in_flight - Cardinality(F)
    BY <1>4 DEF Cancel
  <2>2. Cardinality(S \ F) \in Nat
    BY <1>8, FS_CardinalityType
  <2> QED
    BY <1>5, <1>8, <2>1, <2>2
<1>10. TypeOK'
  BY <1>2, <1>9 DEF FlowInv, TypeOK
<1>11. ForkInv'
  <2> SUFFICES ASSUME NEW w \in Vu, at'[Main(w)] # "join", NEW d \in BranchesOf(w)
               PROVE  at'[d] = "ended"
    BY DEF ForkInv, BranchesOf, Family, Main
  <2>1. Main(w) \in Context /\ d \in Context /\ d[1] = w /\ d[2] # 0
    BY Contexts
  <2>2. CASE w = v
    BY <1>1, <1>2, <2>1, <2>2
  <2>3. CASE w # v
    <3>1. at'[Main(w)] = at[Main(w)] /\ at'[d] = at[d]
      BY <1>2, <2>1, <2>3, Contexts
    <3> QED
      BY <3>1 DEF FlowInv, ForkInv
  <2> QED
    BY <2>2, <2>3
<1>12. AbortInv'
  <2>1. ASSUME NEW w \in doomed'
        PROVE  /\ w \in doomed /\ at'[Main(w)] = at[Main(w)]
               /\ \A d \in BranchesOf(w) : at'[d] = at[d] /\ outcome'[d] = outcome[d]
    BY <1>2, <2>1, Contexts DEF FlowInv, AbortInv
  <2> QED
    BY <1>2, <2>1 DEF FlowInv, AbortInv, KeepsAbort, BranchesOf, Family, Main
<1>13. RendezvousOpens'
  <2>1. Waiting' \subseteq Waiting /\ Waiting \subseteq Context
    BY <1>1, <1>2 DEF Waiting
  <2>2. PICK w, u : w = Waiting /\ u = Waiting'
    OBVIOUS
  <2>3. Cardinality(u) <= Cardinality(w) /\ Cardinality(u) \in Nat /\ Cardinality(w) \in Nat
    BY <2>1, <2>2, Fewer, FiniteContexts
  <2> QED
    BY <1>2, <2>2, <2>3 DEF FlowInv, RendezvousOpens, TypeOK
<1> QED
  BY <1>7, <1>9, <1>10, <1>11, <1>12, <1>13 DEF FlowInv

\* child_context: the branches of a parallel step begin.
LEMMA ForkPreserves ==
  ASSUME FlowInv, NEW v \in Vu, Fork(v)
  PROVE  FlowInv'
<1>1. PICK kids : kids = Children(v, Len(Step(Main(v)).blocks))
  OBVIOUS
<1>2. Main(v) \in Context /\ at[Main(v)] = "step"
  BY Contexts DEF Fork, AtStep, Running
<1>3. \A d \in Context : d \in kids => d \in BranchesOf(v)
  BY <1>1, Contexts DEF Children
<1>4. /\ \A d \in Context : at'[d] = IF d = Main(v) THEN "join"
                                     ELSE IF d \in kids THEN "step" ELSE at[d]
      /\ at' \in [Context -> Places]
  <2>1. at' = [c \in Context |-> CASE c = Main(v) -> "join"
                                   [] c \in kids -> "step"
                                   [] OTHER -> at[c]]
    BY <1>1 DEF Fork
  <2>2. \A d \in Context : at'[d] = IF d = Main(v) THEN "join"
                                     ELSE IF d \in kids THEN "step" ELSE at[d]
    BY <1>2, <1>3, <2>1, Contexts
  <2> QED
    BY <2>1, <2>2 DEF FlowInv, TypeOK, Places, Awaits
<1>5. /\ DOMAIN stack' = Context /\ DOMAIN groups' = Context
      /\ UNCHANGED <<program, outcome, iteration, in_flight, arrived, doomed>>
  BY DEF Fork
<1>6. failed' \in [Context -> BOOLEAN]
  BY DEF Fork
<1>7. TypeOK'
  BY <1>4, <1>5, <1>6 DEF FlowInv, TypeOK
<1>8. \A d \in Context : d \in BranchesOf(v) => at[d] = "ended"
  BY <1>2 DEF FlowInv, ForkInv
<1>9. Sending' = Sending /\ Waiting' = Waiting
  BY <1>2, <1>3, <1>4, <1>8 DEF Sending, Waiting
<1>10. ForkInv'
  <2> SUFFICES ASSUME NEW w \in Vu, at'[Main(w)] # "join", NEW d \in BranchesOf(w)
               PROVE  at'[d] = "ended"
    BY DEF ForkInv, BranchesOf, Family, Main
  <2>1. Main(w) \in Context /\ d \in Context /\ d[1] = w /\ d[2] # 0 /\ w # v
    BY <1>4, Contexts
  <2>2. at'[Main(w)] = at[Main(w)] /\ at'[d] = at[d]
    BY <1>3, <1>4, <2>1, Contexts
  <2> QED
    BY <2>2 DEF FlowInv, ForkInv
<1>11. AbortInv'
  <2>1. ASSUME NEW w \in doomed
        PROVE  at'[Main(w)] = at[Main(w)] /\ \A d \in BranchesOf(w) : at'[d] = at[d]
    <3>1. w \in Vu /\ w # v
      BY <1>2 DEF FlowInv, AbortInv
    <3> QED
      BY <1>3, <1>4, <3>1, Contexts
  <2> QED
    BY <1>5, <2>1 DEF FlowInv, AbortInv, KeepsAbort, BranchesOf, Family, Main
<1>12. RendezvousOpens'
  BY <1>5, <1>9 DEF FlowInv, RendezvousOpens
<1> QED
  BY <1>5, <1>7, <1>9, <1>10, <1>11, <1>12 DEF FlowInv

\* Numbers have a least one.
LEMMA LeastElement ==
  ASSUME NEW T, T \subseteq Nat, T # {}
  PROVE  \E b \in T : \A d \in T : ~(d < b)
<1> DEFINE Less == {p \in Nat \X Nat : p[1] < p[2]}
<1>1. IsWellFoundedOn(Less, Nat)
  BY NatLessThanWellFounded, Zenon DEF OpToRel
<1> HIDE DEF Less
<1>2. \E b \in T : \A d \in T : ~(<<d, b>> \in Less)
  BY <1>1, WFMin
<1> QED
  BY <1>2 DEF Less

\* run_parallel passes an abort on if a branch has one, and else completes.
LEMMA Joined ==
  ASSUME NEW n \in Nat, NEW f \in [1..n -> Outcomes]
  PROVE  JoinedOutcome(f) \in IF \E b \in 1..n : f[b] \in Aborts THEN Aborts ELSE {"completed"}
<1>1. CASE \E b \in 1..n : f[b] \in Aborts
  <2> DEFINE T == {b \in 1..n : f[b] \in Aborts}
  <2>1. T \subseteq Nat /\ T # {}
    BY <1>1
  <2>2. \E b \in T : \A d \in T : ~(d < b)
    BY <2>1, LeastElement
  <2>3. PICK b \in T : \A d \in T : ~(d < b)
    BY <2>2
  <2>4. b \in DOMAIN f /\ f[b] \in Aborts /\ \A d \in 1..(b - 1) : f[d] \notin Aborts
    BY <2>3
  <2>5. \E k \in DOMAIN f : f[k] \in Aborts /\ \A d \in 1..(k - 1) : f[d] \notin Aborts
    BY <2>4
  <2>6. f[CHOOSE k \in DOMAIN f : f[k] \in Aborts /\ \A d \in 1..(k - 1) : f[d] \notin Aborts]
          \in Aborts
    BY <2>5
  <2> QED
    BY <1>1, <2>6 DEF JoinedOutcome
<1>2. CASE ~\E b \in 1..n : f[b] \in Aborts
  BY <1>2 DEF JoinedOutcome
<1> QED
  BY <1>1, <1>2

\* join_all returns: an abort kept by a branch retires the VU.
LEMMA JoinPreserves ==
  ASSUME FlowInv, NEW v \in Vu, Join(v)
  PROVE  FlowInv'
<1> DEFINE f == [b \in 1..Branches |-> outcome[<<v, b>>]]
<1>1. Main(v) \in Context /\ Main(v) \notin BranchesOf(v) /\ BranchesOf(v) \subseteq Context
  BY Contexts
<1>2. at[Main(v)] = "join" /\ \A d \in BranchesOf(v) : at[d] = "ended"
  BY DEF Join
<1>3. f \in [1..Branches -> Outcomes]
  <2>1. \A b \in 1..Branches : <<v, b>> \in Context
    BY SizeAssumption DEF Context
  <2> QED
    BY <2>1 DEF FlowInv, TypeOK
<1>4. PICK o \in Outcomes :
        /\ o = JoinedOutcome(f)
        /\ (\E b \in 1..Branches : f[b] \in Aborts) => o \in Aborts
  <2>1. PICK g \in [1..Branches -> Outcomes] : g = f
    BY <1>3
  <2>2. JoinedOutcome(g) \in
          IF \E b \in 1..Branches : g[b] \in Aborts THEN Aborts ELSE {"completed"}
    BY SizeAssumption, Joined
  <2> HIDE DEF f
  <2> QED
    BY <2>1, <2>2 DEF Aborts, Outcomes
<1>5. /\ at' = [at EXCEPT ![Main(v)] = IF o = "completed" THEN "step" ELSE "retired"]
      /\ outcome' = [c \in Context |-> CASE c = Main(v) -> o
                                         [] c \in BranchesOf(v) -> "completed"
                                         [] OTHER -> outcome[c]]
      /\ DOMAIN stack' = Context /\ DOMAIN groups' = Context
      /\ UNCHANGED <<program, iteration, in_flight, arrived, doomed>>
  BY <1>4 DEF Join, history, FlowInv, TypeOK
<1>6. failed' \in [Context -> BOOLEAN]
  BY DEF Join, FlowInv, TypeOK
<1>7. /\ \A d \in Context : d \notin Family(v) => outcome'[d] = outcome[d]
      /\ outcome' \in [Context -> Outcomes]
  BY <1>1, <1>5, Contexts DEF FlowInv, TypeOK, Outcomes
<1>8. TypeOK'
  BY <1>1, <1>5, <1>6, <1>7 DEF FlowInv, TypeOK, Places
<1>9. /\ at'[Main(v)] = IF o = "completed" THEN "step" ELSE "retired"
      /\ \A d \in Context : d # Main(v) => at'[d] = at[d]
  BY <1>1, <1>5 DEF FlowInv, TypeOK
<1>10. Sending' = Sending /\ Waiting' = Waiting
  BY <1>1, <1>2, <1>9 DEF Sending, Waiting
<1>11. ForkInv'
  <2> SUFFICES ASSUME NEW w \in Vu, at'[Main(w)] # "join", NEW d \in BranchesOf(w)
               PROVE  at'[d] = "ended"
    BY DEF ForkInv, BranchesOf, Family, Main
  <2>1. Main(w) \in Context /\ d \in Context /\ d # Main(v)
    BY Contexts
  <2>2. CASE w = v
    BY <1>2, <1>9, <2>1, <2>2
  <2>3. CASE w # v
    <3>1. Main(w) # Main(v)
      BY <2>3, Contexts
    <3> QED
      BY <1>9, <2>1, <3>1 DEF FlowInv, ForkInv
  <2> QED
    BY <2>2, <2>3
<1>12. AbortInv'
  <2>1. ASSUME v \in doomed PROVE at'[Main(v)] = "retired"
    <3>1. PICK d \in BranchesOf(v) : outcome[d] \in Aborts
      BY <1>2, <2>1 DEF FlowInv, AbortInv, KeepsAbort
    <3>2. d \in Context /\ d[1] = v /\ d[2] \in 1..Branches /\ d = <<v, d[2]>>
      BY <3>1, SizeAssumption, Contexts
    <3>3. f[d[2]] \in Aborts
      BY <3>1, <3>2
    <3> QED
      BY <1>4, <1>9, <3>2, <3>3 DEF Aborts
  <2>2. ASSUME NEW w \in doomed, w # v
        PROVE  /\ at'[Main(w)] = at[Main(w)]
               /\ \A d \in BranchesOf(w) : at'[d] = at[d] /\ outcome'[d] = outcome[d]
    <3>1. w \in Vu /\ Main(w) \in Context /\ Main(w) # Main(v)
      BY <2>2, Contexts DEF FlowInv, AbortInv
    <3>2. \A d \in BranchesOf(w) : d \in Context /\ d # Main(v) /\ d \notin Family(v)
      BY <2>2, <3>1, Contexts
    <3> QED
      BY <1>7, <1>9, <3>1, <3>2
  <2>3. ASSUME NEW w \in doomed
        PROVE  \/ at'[Main(w)] = "retired"
               \/ at'[Main(w)] = "join" /\ \E d \in BranchesOf(w) :
                                              at'[d] = "ended" /\ outcome'[d] \in Aborts
    BY <2>1, <2>2 DEF FlowInv, AbortInv, KeepsAbort
  <2> QED
    BY <1>5, <2>3 DEF FlowInv, AbortInv, KeepsAbort, BranchesOf, Family, Main
<1>13. RendezvousOpens'
  BY <1>5, <1>10 DEF FlowInv, RendezvousOpens
<1> QED
  BY <1>5, <1>8, <1>10, <1>11, <1>12, <1>13 DEF FlowInv

-----------------------------------------------------------------------------
(* The theorems. *)

\* Every initial state satisfies the invariant.
LEMMA InitFlow ==
  ASSUME Init PROVE FlowInv
<1>1. TypeOK
  BY DEF Init, TypeOK, Places, Outcomes
<1>2. \A c \in Context : at[c] = IF c[2] = 0 THEN "idle" ELSE "ended"
  BY DEF Init
<1>3. Sending = {} /\ Waiting = {}
  BY <1>2 DEF Sending, Waiting
<1>4. in_flight = Cardinality(Sending) /\ RendezvousOpens
  BY <1>3, FS_EmptySet, SizeAssumption DEF Init, RendezvousOpens
<1>5. ForkInv
  BY <1>2, Contexts DEF ForkInv
<1>6. AbortInv
  BY DEF Init, AbortInv
<1> QED
  BY <1>1, <1>4, <1>5, <1>6 DEF FlowInv

\* Every step preserves the invariant.
LEMMA StepFlow ==
  ASSUME FlowInv, [Next]_vars PROVE FlowInv'
<1>1. ASSUME NEW v \in Vu, VuProgress(v) PROVE FlowInv'
  <2>1. \A c \in Family(v) : c \in Context
    BY Contexts
  <2> QED
    BY <1>1, <2>1, CompletePreserves, ForkPreserves, JoinPreserves, ProgressPreserves
       DEF VuProgress
<1>2. ASSUME NEW v \in Vu, BeginIteration(v) \/ Retire(v) PROVE FlowInv'
  BY <1>2, BeginPreserves, RetirePreserves
<1>3. ASSUME NEW v \in Vu, NEW place \in {"idle", "retired"}, Cancel(v, place) PROVE FlowInv'
  BY <1>3, CancelPreserves
<1>4. CASE UNCHANGED vars
  <2> USE <1>4 DEF vars, history, FlowInv
  <2>1. TypeOK'
    BY DEF TypeOK
  <2>2. ForkInv' /\ AbortInv'
    BY DEF ForkInv, AbortInv, KeepsAbort
  <2>3. Sending' = Sending /\ Waiting' = Waiting
    BY DEF Sending, Waiting
  <2> QED
    BY <2>1, <2>2, <2>3 DEF RendezvousOpens
<1> QED
  BY <1>1, <1>2, <1>3, <1>4 DEF Next, Ended

\* FlowInv holds in every reachable state.
THEOREM FlowInvariance == Spec => []FlowInv
<1>1. Init => FlowInv
  BY InitFlow
<1>2. FlowInv /\ [Next]_vars => FlowInv'
  BY StepFlow
<1> QED
  BY <1>1, <1>2, PTL DEF Spec

\* requests_in_flight counts exactly the requests that are out: the
\* RequestMetricsGuard of a request counts down once on every path, with any number
\* of branches and also when the executor drops the iteration.
THEOREM InFlightTheorem == Spec => []InFlightExact
<1>1. FlowInv => InFlightExact
  BY DEF FlowInv, InFlightExact, Sending
<1> QED
  BY <1>1, FlowInvariance, PTL

\* An abort that one branch of a parallel step asked for ends the VU at the join,
\* whatever the other branches return and in whatever order they end.
THEOREM AbortsTheorem == Spec => []AbortsRetire
<1>1. FlowInv => AbortsRetire
  BY DEF FlowInv, AbortInv, AbortsRetire
<1> QED
  BY <1>1, FlowInvariance, PTL

\* Nobody waits at a rendezvous that has had all its arrivals, for any number of
\* VUs and users, although waiters time out and are cancelled.
THEOREM RendezvousTheorem == Spec => []RendezvousOpens
<1>1. FlowInv => RendezvousOpens
  BY DEF FlowInv
<1> QED
  BY <1>1, FlowInvariance, PTL


-----------------------------------------------------------------------------
(* Groups.  Names is a recursive function: that it exists, and what it depends  *)
(* on, is shown by a least counterexample.                                     *)

\* g lists the names that the first calls push.
Listed(calls, n, g) == g = [i \in 0..n |-> IF i = 0 THEN <<>> ELSE Named(g[i - 1], calls[i])]

\* There is such a list.
LEMMA ListExists ==
  ASSUME NEW calls, NEW n \in Nat
  PROVE  \E g : Listed(calls, n, g)
<1>1. PICK T : T = {k \in Nat : ~\E g : Listed(calls, k, g)}
  OBVIOUS
<1>2. ASSUME T # {} PROVE FALSE
  <2>1. PICK b \in T : \A d \in T : ~(d < b)
    <3>1. T \subseteq Nat
      BY <1>1
    <3> QED BY <1>2, <3>1, LeastElement
  <2>2. b \in Nat
    BY <1>1
  <2>3. CASE b = 0
    <3>1. Listed(calls, 0, [i \in 0..0 |-> <<>>])
      BY DEF Listed
    <3> QED BY <1>1, <2>1, <2>3, <3>1
  <2>4. CASE b # 0
    <3>1. PICK k \in Nat : b = k + 1 /\ k < b
      <4>1. b - 1 \in Nat /\ b = (b - 1) + 1 /\ b - 1 < b
        BY <2>2, <2>4
      <4> QED BY <4>1
    <3>2. PICK h : Listed(calls, k, h)
      BY <1>1, <2>1, <3>1
    <3>3. PICK g : g = [i \in 0..(k + 1) |-> IF i = k + 1 THEN Named(h[k], calls[k + 1]) ELSE h[i]]
      OBVIOUS
    <3>4. \A i \in 0..(k + 1) : i \in 0..k \/ i = k + 1
      OBVIOUS
    <3>5. \A i \in 0..k : /\ g[i] = h[i] /\ i # k + 1
                          /\ h[i] = IF i = 0 THEN <<>> ELSE Named(h[i - 1], calls[i])
                          /\ i # 0 => i - 1 \in 0..k /\ g[i - 1] = h[i - 1]
      BY <3>2, <3>3 DEF Listed
    <3>6. g[k + 1] = Named(g[k], calls[k + 1]) /\ k + 1 # 0 /\ (k + 1) - 1 = k
      BY <3>3, <3>5
    <3>7. \A i \in 0..(k + 1) : g[i] = IF i = 0 THEN <<>> ELSE Named(g[i - 1], calls[i])
      BY <3>4, <3>5, <3>6
    <3>8. g = [i \in 0..(k + 1) |-> g[i]]
      BY <3>3
    <3>9. Listed(calls, k + 1, g)
      BY <3>7, <3>8 DEF Listed
    <3> QED BY <1>1, <2>1, <3>1, <3>9
  <2> QED BY <2>3, <2>4
<1> QED BY <1>1, <1>2

\* The first calls of two stacks were made by the same steps.
Begins(calls, n, g, others, m, h) ==
  /\ n \in Nat /\ Listed(calls, n, g) /\ m \in Nat /\ Listed(others, m, h) /\ n <= m
  /\ \A i \in 1..n : calls[i].step = others[i].step

\* The list depends on those steps alone.
LEMMA ListsAgree ==
  ASSUME NEW calls, NEW n, NEW g, NEW others, NEW m, NEW h, Begins(calls, n, g, others, m, h)
  PROVE  \A i \in 0..n : g[i] = h[i]
<1> USE DEF Begins
<1>1. PICK T : T = {i \in 0..n : g[i] # h[i]}
  OBVIOUS
<1>2. \A i \in 0..n : i \in 0..m
  OBVIOUS
<1>3. /\ \A i \in 0..n : g[i] = IF i = 0 THEN <<>> ELSE Named(g[i - 1], calls[i])
      /\ \A i \in 0..m : h[i] = IF i = 0 THEN <<>> ELSE Named(h[i - 1], others[i])
  BY DEF Listed
<1>4. ASSUME T # {} PROVE FALSE
  <2>1. PICK b \in T : \A d \in T : ~(d < b)
    <3>1. T \subseteq Nat
      BY <1>1
    <3> QED BY <1>4, <3>1, LeastElement
  <2>2. b \in 0..n /\ g[b] # h[b]
    BY <1>1, <2>1
  <2>3. b # 0
    BY <1>2, <1>3, <2>2
  <2>4. b - 1 \in 0..n /\ b - 1 < b /\ b \in 1..n
    BY <2>2, <2>3
  <2>5. g[b - 1] = h[b - 1]
    BY <1>1, <2>1, <2>4
  <2>6. Named(g[b - 1], calls[b]) = Named(h[b - 1], others[b])
    BY <2>4, <2>5 DEF Named
  <2>7. g[b] = Named(g[b - 1], calls[b]) /\ h[b] = Named(h[b - 1], others[b])
    BY <1>2, <1>3, <2>2, <2>3
  <2> QED BY <2>2, <2>6, <2>7
<1> QED BY <1>1, <1>4

\* A sequence read from its end.
LEMMA Reversed ==
  ASSUME NEW S, NEW u \in Seq(S)
  PROVE  /\ Len(u) \in Nat /\ Len(Reverse(u)) = Len(u)
         /\ \A i \in 1..Len(u) : Reverse(u)[i] = u[(Len(u) - i) + 1]
<1>1. PICK n \in Nat : n = Len(u)
  BY LenProperties
<1>2. u \in [1..n -> S]
  BY <1>1, LenProperties
<1>3. \A i \in 1..n : (n - i) + 1 \in 1..n
  OBVIOUS
<1>4. PICK q : q = [i \in 1..n |-> u[(n - i) + 1]]
  OBVIOUS
<1>5. q \in [1..n -> S]
  BY <1>2, <1>3, <1>4
<1>6. q \in Seq(S)
  BY <1>5
<1>7. Len(q) = n
  BY <1>4, <1>6, LenProperties
<1>8. Reverse(u) = q
  BY <1>1, <1>4 DEF Reverse
<1> QED BY <1>1, <1>4, <1>7, <1>8

\* Names is the last entry of the list, the calls taken from the outermost.
LEMMA NamesListed ==
  ASSUME NEW S, NEW u \in Seq(S)
  PROVE  \E g : Listed(Reverse(u), Len(u), g) /\ Names(u) = g[Len(u)]
<1>1. PICK n, calls : n \in Nat /\ n = Len(u) /\ calls = Reverse(u) /\ Len(calls) = n
  <2>1. Len(u) \in Nat
    BY LenProperties
  <2>2. Len(Reverse(u)) = Len(u)
    BY Reversed
  <2> QED BY <2>1, <2>2
<1> n \in Nat
  BY <1>1
<1>2. PICK g : g = CHOOSE names : names = [i \in 0..Len(calls) |-> IF i = 0 THEN <<>> ELSE Named(names[i - 1], calls[i])]
  OBVIOUS
<1>3. \E h : h = [i \in 0..Len(calls) |-> IF i = 0 THEN <<>> ELSE Named(h[i - 1], calls[i])]
  <2>1. PICK h : Listed(calls, n, h)
    BY ListExists
  <2>2. h = [i \in 0..Len(calls) |-> IF i = 0 THEN <<>> ELSE Named(h[i - 1], calls[i])]
    BY <1>1, <2>1 DEF Listed
  <2> QED BY <2>2, Zenon
<1>4. g = [i \in 0..Len(calls) |-> IF i = 0 THEN <<>> ELSE Named(g[i - 1], calls[i])]
  BY <1>2, <1>3, Zenon
<1>5. Names(u) = g[Len(calls)]
  BY <1>1, <1>2, Zenon DEF Names
<1> QED BY <1>1, <1>4, <1>5 DEF Listed

\* A sequence, whatever of.
IsSeq(q) == \E S : q \in Seq(S)

\* A sequence with one element more is one.
LEMMA SeqAppend ==
  ASSUME NEW q, IsSeq(q), NEW x
  PROVE  IsSeq(Append(q, x)) /\ Append(q, x) # <<>> /\ Front(Append(q, x)) = q
<1>1. PICK S : q \in Seq(S)
  BY DEF IsSeq
<1>2. PICK T : T = S \cup {x}
  OBVIOUS
<1>3. PICK n \in Nat : n = Len(q)
  BY <1>1, LenProperties
<1>4. q \in [1..n -> T]
  BY <1>1, <1>2, <1>3, LenProperties
<1>5. q \in Seq(T)
  BY <1>4
<1>6. PICK p : p = Append(q, x)
  OBVIOUS
<1>7. p \in Seq(T) /\ Len(p) = n + 1 /\ (\A i \in 1..n : p[i] = q[i]) /\ p # <<>>
  BY <1>2, <1>3, <1>5, <1>6, AppendProperties
<1>8. Front(p) = q
  <2>1. Front(p) = SubSeq(p, 1, n)
    BY <1>7 DEF Front
  <2>2. 1 \in 1..(Len(p) + 1) /\ n \in 0..Len(p)
    BY <1>7
  <2>3. SubSeq(p, 1, n) = [i \in 1..n |-> p[i]]
    BY <1>7
  <2>4. q = [i \in 1..n |-> q[i]]
    BY <1>4
  <2> QED BY <1>7, <2>1, <2>3, <2>4
<1> QED BY <1>6, <1>7, <1>8 DEF IsSeq

\* The lists are of sequences.
LEMMA ListSeqs ==
  ASSUME NEW calls, NEW n \in Nat, NEW g, Listed(calls, n, g)
  PROVE  \A i \in 0..n : IsSeq(g[i])
<1>1. PICK T : T = {i \in 0..n : ~IsSeq(g[i])}
  OBVIOUS
<1>2. \A i \in 0..n : g[i] = IF i = 0 THEN <<>> ELSE Named(g[i - 1], calls[i])
  BY DEF Listed
<1>3. ASSUME T # {} PROVE FALSE
  <2>1. PICK b \in T : \A d \in T : ~(d < b)
    <3>1. T \subseteq Nat
      BY <1>1
    <3> QED BY <1>3, <3>1, LeastElement
  <2>2. b \in 0..n /\ ~IsSeq(g[b])
    BY <1>1, <2>1
  <2>3. b # 0
    <3>1. IsSeq(<<>>)
      BY DEF IsSeq
    <3> QED BY <1>2, <2>2, <3>1
  <2>4. b - 1 \in 0..n /\ b - 1 < b
    BY <2>2, <2>3
  <2>5. IsSeq(g[b - 1])
    BY <1>1, <2>1, <2>4
  <2>6. IsSeq(Named(g[b - 1], calls[b]))
    BY <2>5, SeqAppend DEF Named
  <2> QED BY <1>2, <2>2, <2>3, <2>6
<1> QED BY <1>1, <1>3

\* What Names returns: nothing for no calls, and one name more for a tagging call.
LEMMA NamesOf ==
  ASSUME NEW S, NEW u \in Seq(S)
  PROVE  IsSeq(Names(u)) /\ (Len(u) = 0 => Names(u) = <<>>)
<1>1. PICK g : Listed(Reverse(u), Len(u), g) /\ Names(u) = g[Len(u)]
  BY NamesListed
<1>2. PICK n \in Nat : n = Len(u)
  BY LenProperties
<1>3. IsSeq(g[n])
  <2>1. Listed(Reverse(u), n, g) /\ n \in 0..n
    BY <1>1, <1>2
  <2> QED BY <2>1, ListSeqs
<1>4. n = 0 => g[n] = <<>>
  BY <1>1, <1>2 DEF Listed
<1> QED BY <1>1, <1>2, <1>3, <1>4

\* The names depend on the steps of the calls.
LEMMA NamesSame ==
  ASSUME NEW S, NEW u \in Seq(S), NEW T, NEW w \in Seq(T), Len(w) = Len(u),
         \A i \in 1..Len(u) : w[i].step = u[i].step
  PROVE  Names(w) = Names(u)
<1>1. PICK n \in Nat : n = Len(u) /\ n = Len(w) /\ n <= n
  BY LenProperties
<1>2. PICK g : Listed(Reverse(u), n, g) /\ Names(u) = g[n]
  BY <1>1, NamesListed
<1>3. PICK h : Listed(Reverse(w), n, h) /\ Names(w) = h[n]
  BY <1>1, NamesListed
<1>4. \A i \in 1..n : Reverse(u)[i].step = Reverse(w)[i].step
  <2>1. \A i \in 1..n : (n - i) + 1 \in 1..n
    OBVIOUS
  <2>2. \A i \in 1..n : Reverse(u)[i] = u[(n - i) + 1] /\ Reverse(w)[i] = w[(n - i) + 1]
    BY <1>1, Reversed
  <2>3. \A i \in 1..n : w[i].step = u[i].step
    BY <1>1
  <2>4. ASSUME NEW i \in 1..n PROVE Reverse(u)[i].step = Reverse(w)[i].step
    <3>1. PICK j \in 1..n : j = (n - i) + 1
      BY <2>1
    <3> QED BY <2>2, <2>3, <3>1
  <2> QED BY <2>4
<1>5. \A i \in 0..n : g[i] = h[i]
  <2>1. Begins(Reverse(u), n, g, Reverse(w), n, h)
    BY <1>1, <1>2, <1>3, <1>4 DEF Begins
  <2> QED BY <2>1, ListsAgree
<1> QED BY <1>2, <1>3, <1>5

\* A call more is the innermost.
LEMMA NamesMore ==
  ASSUME NEW S, NEW u \in Seq(S), NEW T, NEW w \in Seq(T), Len(w) = Len(u) + 1,
         \A i \in 1..Len(u) : w[i + 1].step = u[i].step
  PROVE  Names(w) = Named(Names(u), w[1])
<1>1. PICK n \in Nat, m \in Nat : n = Len(u) /\ m = n + 1 /\ m = Len(w) /\ n <= m
  <2>1. Len(u) \in Nat
    BY LenProperties
  <2> QED BY <2>1
<1>2. PICK g : Listed(Reverse(u), n, g) /\ Names(u) = g[n]
  BY <1>1, NamesListed
<1>3. PICK h : Listed(Reverse(w), m, h) /\ Names(w) = h[m]
  BY <1>1, NamesListed
<1>4. \A i \in 1..n : Reverse(u)[i].step = Reverse(w)[i].step
  <2>1. \A i \in 1..n : (n - i) + 1 \in 1..n /\ i \in 1..m /\ (m - i) + 1 = ((n - i) + 1) + 1
    BY <1>1
  <2>2. \A i \in 1..n : Reverse(u)[i] = u[(n - i) + 1]
    BY <1>1, Reversed
  <2>3. \A i \in 1..m : Reverse(w)[i] = w[(m - i) + 1]
    BY <1>1, Reversed
  <2>4. \A i \in 1..n : w[i + 1].step = u[i].step
    BY <1>1
  <2>5. ASSUME NEW i \in 1..n PROVE Reverse(u)[i].step = Reverse(w)[i].step
    <3>1. PICK j \in 1..n : j = (n - i) + 1
      BY <2>1
    <3>2. Reverse(u)[i] = u[j]
      BY <2>2, <3>1
    <3>3. Reverse(w)[i] = w[j + 1]
      BY <2>1, <2>3, <3>1
    <3> QED BY <2>4, <3>2, <3>3
  <2> QED BY <2>5
<1>5. \A i \in 0..n : g[i] = h[i]
  <2>1. PICK calls, others : calls = Reverse(u) /\ others = Reverse(w)
    OBVIOUS
  <2>2. Listed(calls, n, g) /\ Listed(others, m, h) /\ \A i \in 1..n : calls[i].step = others[i].step
    BY <1>2, <1>3, <1>4, <2>1
  <2>3. Begins(calls, n, g, others, m, h)
    BY <1>1, <2>2 DEF Begins
  <2> QED BY <2>3, ListsAgree
<1>6. h[m] = Named(h[n], Reverse(w)[m])
  <2>1. m \in 0..m /\ m # 0 /\ m - 1 = n
    BY <1>1
  <2>2. \A i \in 0..m : h[i] = IF i = 0 THEN <<>> ELSE Named(h[i - 1], Reverse(w)[i])
    BY <1>3 DEF Listed
  <2> QED BY <2>1, <2>2
<1>7. Reverse(w)[m] = w[1]
  <2>1. m \in 1..m /\ (m - m) + 1 = 1
    BY <1>1
  <2>2. \A i \in 1..m : Reverse(w)[i] = w[(m - i) + 1]
    BY <1>1, Reversed
  <2> QED BY <2>1, <2>2
<1>8. h[n] = g[n]
  BY <1>1, <1>5
<1> QED BY <1>2, <1>3, <1>6, <1>7, <1>8

\* A stack of frames.
IsFrame(f) == f = [step |-> f.step, block |-> f.block, rest |-> f.rest, left |-> f.left]
Stacked(u) == \E S : u \in Seq(S) /\ \A f \in S : IsFrame(f)

\* A stack with other frames of the same steps has the same names.
LEMMA StackTouched ==
  ASSUME NEW u, Stacked(u), NEW w, DOMAIN w = DOMAIN u, w = [i \in DOMAIN w |-> w[i]],
         \A i \in DOMAIN u : IsFrame(w[i]) /\ w[i].step = u[i].step
  PROVE  Stacked(w) /\ Names(w) = Names(u) /\ (u # <<>> => w # <<>>)
<1>1. PICK S : u \in Seq(S) /\ \A f \in S : IsFrame(f)
  BY DEF Stacked
<1>2. PICK n \in Nat : n = Len(u) /\ DOMAIN u = 1..n
  BY <1>1, LenProperties
<1>3. PICK T : T = {w[i] : i \in 1..n}
  OBVIOUS
<1>4. w \in [1..n -> T]
  BY <1>2, <1>3
<1>5. w \in Seq(T)
  BY <1>4
<1>6. Len(w) = n
  BY <1>2, <1>5, LenProperties
<1>7. \A f \in T : IsFrame(f)
  BY <1>2, <1>3
<1>8. Stacked(w)
  BY <1>5, <1>7 DEF Stacked
<1>9. \A i \in 1..n : w[i].step = u[i].step
  BY <1>2
<1>10. Names(w) = Names(u)
  BY <1>1, <1>2, <1>5, <1>6, <1>9, NamesSame
<1>11. u # <<>> => w # <<>>
  <2>1. u # <<>> => n # 0
    BY <1>1, <1>2, EmptySeq
  <2>2. Len(<<>>) = 0
    OBVIOUS
  <2> QED BY <1>6, <2>1, <2>2
<1> QED BY <1>8, <1>10, <1>11

\* A call is made.
LEMMA StackPushed ==
  ASSUME NEW u, Stacked(u), NEW f, IsFrame(f)
  PROVE  Stacked(<<f>> \o u) /\ Names(<<f>> \o u) = Named(Names(u), f) /\ <<f>> \o u # <<>>
<1>1. PICK S : u \in Seq(S) /\ \A e \in S : IsFrame(e)
  BY DEF Stacked
<1>2. PICK n \in Nat : n = Len(u) /\ u \in [1..n -> S]
  BY <1>1, LenProperties
<1>3. PICK T : T = S \cup {f}
  OBVIOUS
<1>4. u \in [1..n -> T]
  BY <1>2, <1>3
<1>5. u \in Seq(T) /\ <<f>> \in Seq(T) /\ Len(<<f>>) = 1 /\ <<f>>[1] = f
  BY <1>3, <1>4
<1>6. PICK w : w = <<f>> \o u
  OBVIOUS
<1>7. w \in Seq(T) /\ Len(w) = 1 + n
  BY <1>2, <1>5, <1>6, ConcatProperties
<1>8. w[1] = f /\ \A i \in 1..n : w[i + 1] = u[i]
  <2>1. \A i \in 1..(1 + n) : w[i] = IF i <= 1 THEN <<f>>[i] ELSE u[i - 1]
    BY <1>2, <1>5, <1>6, ConcatProperties
  <2>2. \A i \in 1..n : i + 1 \in 1..(1 + n) /\ ~(i + 1 <= 1) /\ (i + 1) - 1 = i
    OBVIOUS
  <2>3. 1 \in 1..(1 + n) /\ 1 <= 1
    OBVIOUS
  <2> QED BY <1>5, <2>1, <2>2, <2>3
<1>9. \A e \in T : IsFrame(e)
  BY <1>1, <1>3
<1>10. Names(w) = Named(Names(u), w[1])
  <2>1. Len(w) = Len(u) + 1 /\ \A i \in 1..Len(u) : w[i + 1].step = u[i].step
    BY <1>2, <1>7, <1>8
  <2> QED BY <1>1, <1>7, <2>1, NamesMore
<1>11. w # <<>>
  <2>1. Len(<<>>) = 0 /\ 1 + n # 0
    OBVIOUS
  <2> QED BY <1>7, <2>1
<1> QED BY <1>6, <1>7, <1>8, <1>9, <1>10, <1>11 DEF Stacked

\* A call returns.
LEMMA StackPopped ==
  ASSUME NEW u, Stacked(u), u # <<>>
  PROVE  Stacked(Tail(u)) /\ Names(u) = Named(Names(Tail(u)), Head(u)) /\ IsFrame(Head(u))
<1>1. PICK S : u \in Seq(S) /\ \A e \in S : IsFrame(e)
  BY DEF Stacked
<1>2. PICK w : w = Tail(u)
  OBVIOUS
<1>3. Len(u) \in Nat /\ Len(u) # 0
  BY <1>1, LenProperties, EmptySeq
<1>4. PICK n \in Nat : n + 1 = Len(u)
  <2>1. Len(u) - 1 \in Nat /\ (Len(u) - 1) + 1 = Len(u)
    BY <1>3
  <2> QED BY <2>1
<1>5. w \in Seq(S) /\ Len(w) = n /\ (\A i \in 1..n : w[i] = u[i + 1]) /\ Head(u) = u[1] /\ Head(u) \in S
  <2>1. w \in Seq(S) /\ Len(w) = Len(u) - 1 /\ (\A i \in 1..Len(w) : w[i] = u[i + 1]) /\ Head(u) \in S
    BY <1>1, <1>2, HeadTailProperties
  <2>2. Len(u) - 1 = n
    BY <1>4
  <2> QED BY <1>1, <1>4, <2>1, <2>2
<1>6. Names(u) = Named(Names(w), u[1])
  <2>1. Len(u) = Len(w) + 1 /\ \A i \in 1..Len(w) : u[i + 1].step = w[i].step
    BY <1>4, <1>5
  <2> QED BY <1>1, <1>5, <2>1, NamesMore
<1> QED BY <1>1, <1>2, <1>5, <1>6 DEF Stacked

\* The innermost call goes on: its steps are kept.
LEMMA StackMoved ==
  ASSUME NEW u, Stacked(u), u # <<>>, NEW f, IsFrame(f), f.step = Head(u).step
  PROVE  /\ Stacked(<<f>> \o Tail(u)) /\ Names(<<f>> \o Tail(u)) = Names(u) /\ <<f>> \o Tail(u) # <<>>
<1>1. Stacked(Tail(u)) /\ Names(u) = Named(Names(Tail(u)), Head(u))
  BY StackPopped
<1>2. PICK t : t = Tail(u)
  OBVIOUS
<1>3. Stacked(<<f>> \o t) /\ Names(<<f>> \o t) = Named(Names(t), f) /\ <<f>> \o t # <<>>
  BY <1>1, <1>2, StackPushed
<1>4. Named(Names(t), f) = Named(Names(t), Head(u))
  BY DEF Named
<1> QED BY <1>1, <1>2, <1>3, <1>4

\* What a context's groups are while it runs, and that a request stands on a step.
Active == Awaits \cup {"step"}
NestFine(a, u, q, b) ==
  /\ Stacked(u) /\ IsSeq(q) /\ IsSeq(b) /\ (a \in {"slot", "send", "backoff"} => u # <<>>)
  /\ a \in Active => q = b \o Names(u)
GroupsInv ==
  DOMAIN base = Context /\ \A c \in Context : NestFine(at[c], stack[c], groups[c], base[c])

\* A step of context c, which may release others at the rendezvous.
NestStep(c) ==
  /\ DOMAIN base' = Context /\ NestFine(at'[c], stack'[c], groups'[c], base'[c])
  /\ \A d \in Context : d # c =>
       /\ stack'[d] = stack[d] /\ groups'[d] = groups[d] /\ base'[d] = base[d]
       /\ at'[d] = at[d] \/ (at[d] = "rendezvous" /\ at'[d] = "released")

\* It keeps the invariant.
LEMMA NestPreserves ==
  ASSUME GroupsInv, NEW c \in Context, NestStep(c)
  PROVE  GroupsInv'
<1>1. \A d \in Context : NestFine(at'[d], stack'[d], groups'[d], base'[d])
  <2> SUFFICES ASSUME NEW d \in Context, d # c PROVE NestFine(at'[d], stack'[d], groups'[d], base'[d])
    BY DEF NestStep
  <2>1. NestFine(at[d], stack[d], groups[d], base[d])
    BY DEF GroupsInv
  <2>2. stack'[d] = stack[d] /\ groups'[d] = groups[d] /\ base'[d] = base[d]
    BY DEF NestStep
  <2>3. at'[d] = at[d] \/ (at[d] = "rendezvous" /\ at'[d] = "released")
    BY DEF NestStep
  <2>4. CASE at'[d] = at[d]
    BY <2>1, <2>2, <2>4
  <2>5. CASE at[d] = "rendezvous" /\ at'[d] = "released"
    BY <2>1, <2>2, <2>5 DEF NestFine, Active, Awaits
  <2> QED BY <2>3, <2>4, <2>5
<1> QED BY <1>1 DEF GroupsInv, NestStep

\* A context goes on where its names stay.
LEMMA NestMoves ==
  ASSUME NEW a, NEW u, NEW q, NEW b, NestFine(a, u, q, b), a \in Active, NEW w, Stacked(w), Names(w) = Names(u),
         NEW s, s \in {"slot", "send", "backoff"} => w # <<>>
  PROVE  NestFine(s, w, q, b)
BY DEF NestFine

\* A context that ends owes nothing.
LEMMA NestEnds ==
  ASSUME NEW s, s \notin Active, NEW u, Stacked(u), NEW q, IsSeq(q), NEW b, IsSeq(b)
  PROVE  NestFine(s, u, q, b)
BY DEF NestFine, Active, Awaits

\* Requests up to the response, and the end of a wait.
LEMMA NestRequests ==
  ASSUME FlowInv, GroupsInv, NEW c \in Context, StartRequest(c) \/ Prepared(c) \/ Wake(c) \/ GiveUp(c)
  PROVE  NestStep(c)
<1>1. stack' = stack /\ groups' = groups /\ base' = base
  BY DEF StartRequest, Prepared, Wake, GiveUp, history
<1>2. PICK s : /\ at' = [at EXCEPT ![c] = s] /\ at[c] \in Active
               /\ s \in {"slot", "send", "backoff"} => stack[c] # <<>>
  <2>1. CASE StartRequest(c)
    BY <2>1 DEF StartRequest, AtStep, Running, Active
  <2>2. CASE Prepared(c)
    <3>1. stack[c] # <<>>
      BY <2>2 DEF Prepared, GroupsInv, NestFine
    <3> QED BY <2>2, <3>1 DEF Prepared, Active, Awaits
  <2>3. CASE Wake(c)
    <3>1. at' = [at EXCEPT ![c] = "step"] /\ at[c] \in {"think", "released"}
      BY <2>3 DEF Wake
    <3>2. at[c] \in Active
      BY <3>1 DEF Active, Awaits
    <3>3. PICK s \in {"step"} : s = "step"
      OBVIOUS
    <3> QED BY <3>1, <3>2, <3>3
  <2>4. CASE GiveUp(c)
    <3>1. at' = [at EXCEPT ![c] = "step"] /\ at[c] = "rendezvous"
      BY <2>4 DEF GiveUp
    <3>2. at[c] \in Active
      BY <3>1 DEF Active, Awaits
    <3>3. PICK s \in {"step"} : s = "step"
      OBVIOUS
    <3> QED BY <3>1, <3>2, <3>3
  <2> QED BY <2>1, <2>2, <2>3, <2>4
<1>3. at'[c] = s /\ \A d \in Context : d # c => at'[d] = at[d]
  BY <1>2 DEF FlowInv, TypeOK
<1>4. NestFine(at[c], stack[c], groups[c], base[c]) /\ DOMAIN base = Context
  BY DEF GroupsInv
<1>5. NestFine(s, stack[c], groups[c], base[c])
  BY <1>2, <1>4 DEF NestFine
<1> QED BY <1>1, <1>3, <1>4, <1>5 DEF NestStep

\* The step at the head of the innermost call is behind it.
LEMMA NestAdvances ==
  ASSUME NEW u, Stacked(u), u # <<>>, NEW w, w = <<[Head(u) EXCEPT !.rest = Tail(Head(u).rest)]>> \o Tail(u)
  PROVE  Stacked(w) /\ Names(w) = Names(u) /\ w # <<>>
<1>1. IsFrame(Head(u))
  BY StackPopped
<1>2. PICK f : f = [Head(u) EXCEPT !.rest = Tail(Head(u).rest)]
  OBVIOUS
<1>3. IsFrame(f) /\ f.step = Head(u).step
  BY <1>1, <1>2 DEF IsFrame
<1> QED BY <1>2, <1>3, StackMoved

\* The request fails before it is sent, a loop is skipped, a rendezvous is reached.
LEMMA NestPasses ==
  ASSUME FlowInv, GroupsInv, NEW c \in Context, PrepareFails(c) \/ SkipLoop(c) \/ Arrive(c)
  PROVE  NestStep(c)
<1>1. groups' = groups /\ base' = base /\ stack' = [stack EXCEPT ![c] = Advanced(c)]
  BY DEF PrepareFails, SkipLoop, Arrive, Advance, history
<1>2. NestFine(at[c], stack[c], groups[c], base[c]) /\ DOMAIN base = Context
  BY DEF GroupsInv
<1>3. at[c] \in Active /\ stack[c] # <<>> /\ at'[c] \notin {"slot", "send", "backoff"}
  <2>1. CASE PrepareFails(c)
    BY <1>2, <2>1 DEF PrepareFails, NestFine, Active, Awaits, FlowInv, TypeOK
  <2>2. CASE SkipLoop(c)
    BY <2>2 DEF SkipLoop, AtStep, Running, Active, FlowInv, TypeOK
  <2>3. CASE Arrive(c)
    BY <2>3 DEF Arrive, AtStep, Running, Active, FlowInv, TypeOK, Waiting
  <2> QED BY <2>1, <2>2, <2>3
<1>4. \A d \in Context : d # c => at'[d] = at[d] \/ (at[d] = "rendezvous" /\ at'[d] = "released")
  <2>1. CASE PrepareFails(c)
    BY <2>1 DEF PrepareFails, FlowInv, TypeOK
  <2>2. CASE SkipLoop(c)
    BY <2>2 DEF SkipLoop
  <2>3. CASE Arrive(c)
    BY <2>3 DEF Arrive, FlowInv, TypeOK, Waiting
  <2> QED BY <2>1, <2>2, <2>3
<1>5. stack'[c] = Advanced(c) /\ \A d \in Context : d # c => stack'[d] = stack[d]
  BY <1>1 DEF FlowInv, TypeOK
<1>6. Stacked(Advanced(c)) /\ Names(Advanced(c)) = Names(stack[c])
  <2>1. Stacked(stack[c])
    BY <1>2 DEF NestFine
  <2>2. Advanced(c) = <<[Head(stack[c]) EXCEPT !.rest = Tail(Head(stack[c]).rest)]>> \o Tail(stack[c])
    BY DEF Advanced, Top
  <2> QED BY <1>3, <2>1, <2>2, NestAdvances
<1>7. NestFine(at'[c], Advanced(c), groups[c], base[c])
  BY <1>2, <1>3, <1>6, NestMoves
<1> QED BY <1>1, <1>2, <1>4, <1>5, <1>7 DEF NestStep

\* Only context c changes, and its base stays.
Alone(c) ==
  /\ base' = base
  /\ \A d \in Context : d # c => at'[d] = at[d] /\ stack'[d] = stack[d] /\ groups'[d] = groups[d]

\* Then what c becomes is all there is to show.
LEMMA NestAlone ==
  ASSUME GroupsInv, NEW c \in Context, Alone(c), NestFine(at'[c], stack'[c], groups'[c], base[c])
  PROVE  NestStep(c)
BY DEF NestStep, Alone, GroupsInv

\* A new attempt or round, or the end of the block: the innermost call keeps its step.
LEMMA NestAgain ==
  ASSUME NEW u, Stacked(u), u # <<>>, NEW r, NEW l, NEW w,
         w = [u EXCEPT ![1] = [step |-> u[1].step, block |-> u[1].block, rest |-> r, left |-> l]]
  PROVE  Stacked(w) /\ Names(w) = Names(u) /\ w # <<>>
<1>1. PICK f : f = [step |-> u[1].step, block |-> u[1].block, rest |-> r, left |-> l]
  OBVIOUS
<1>2. IsFrame(f) /\ f.step = u[1].step
  BY <1>1 DEF IsFrame
<1>3. PICK S : u \in Seq(S) /\ \A e \in S : IsFrame(e)
  BY DEF Stacked
<1>4. PICK n \in Nat : n = Len(u) /\ u \in [1..n -> S] /\ DOMAIN u = 1..n
  BY <1>3, LenProperties
<1>5. w = [u EXCEPT ![1] = f]
  BY <1>1
<1>6. DOMAIN w = DOMAIN u /\ w = [i \in DOMAIN w |-> w[i]]
  BY <1>4, <1>5
<1>7. \A i \in DOMAIN u : IsFrame(w[i]) /\ w[i].step = u[i].step
  <2> SUFFICES ASSUME NEW i \in 1..n PROVE IsFrame(w[i]) /\ w[i].step = u[i].step
    BY <1>4
  <2>1. CASE i = 1
    <3>1. w[i] = f
      BY <1>4, <1>5, <2>1
    <3> QED BY <1>2, <2>1, <3>1
  <2>2. CASE i # 1
    <3>1. w[i] = u[i] /\ u[i] \in S
      BY <1>4, <1>5, <2>2
    <3> QED BY <1>3, <3>1
  <2> QED BY <2>1, <2>2
<1> QED BY <1>6, <1>7, StackTouched

\* The first frame of a stack is a frame.
LEMMA StackFirst ==
  ASSUME NEW u, Stacked(u), u # <<>>
  PROVE  IsFrame(u[1]) /\ 1 \in DOMAIN u /\ Head(u) = u[1]
<1>1. PICK S : u \in Seq(S) /\ \A e \in S : IsFrame(e)
  BY DEF Stacked
<1>2. Len(u) \in Nat /\ Len(u) # 0
  BY <1>1, LenProperties, EmptySeq
<1>3. 1 \in 1..Len(u)
  BY <1>2
<1>4. 1 \in DOMAIN u /\ u[1] \in S
  BY <1>1, <1>3, LenProperties
<1> QED BY <1>1, <1>4

\* No pending call is a stack without names.
LEMMA StackNone == Stacked(<<>>) /\ Names(<<>>) = <<>>
<1>1. PICK S : S = {}
  OBVIOUS
<1>2. <<>> \in Seq(S) /\ Len(<<>>) = 0
  OBVIOUS
<1>3. \A f \in S : IsFrame(f)
  BY <1>1
<1>4. Names(<<>>) = <<>>
  BY <1>2, NamesOf
<1> QED BY <1>2, <1>3, <1>4 DEF Stacked

\* What a context that unwinds keeps of its groups is a sequence.
LEMMA UnwoundSeq ==
  ASSUME NEW c \in Context, GroupsInv
  PROVE  IsSeq(Unwound(c))
<1>1. IsSeq(groups[c]) /\ Stacked(stack[c])
  BY DEF GroupsInv, NestFine
<1>2. IsSeq(Labels(c))
  BY <1>1, NamesOf DEF Stacked, Labels
<1>3. PICK S : groups[c] \in Seq(S)
  BY <1>1 DEF IsSeq
<1>4. PICK n \in Nat : n = Len(groups[c])
  BY <1>3, LenProperties
<1>5. PICK m \in Nat : m = Len(Labels(c))
  BY <1>2, LenProperties DEF IsSeq
<1>6. PICK q : q = groups[c] /\ q \in Seq(S) /\ n = Len(q)
  BY <1>3, <1>4
<1>7. PICK k \in Int : k = n - m /\ k <= n
  <2>1. n - m \in Int /\ n - m <= n
    OBVIOUS
  <2> QED BY <2>1
<1>8. SubSeq(q, 1, k) \in Seq(S)
  <2>1. \A i \in 1..k : q[i] \in S
    BY <1>6, <1>7, ElementOfSeq
  <2> QED BY <1>6, <1>7, <2>1, SubSeqProperties
<1>9. Unwound(c) = SubSeq(q, 1, k)
  BY <1>4, <1>5, <1>6, <1>7 DEF Unwound
<1> QED BY <1>8, <1>9 DEF IsSeq

\* A context that unwinds has ended, with what is left of its groups.
LEMMA NestUnwinds ==
  ASSUME FlowInv, GroupsInv, NEW c \in Context, NEW o, Unwind(c, o), base' = base
  PROVE  NestStep(c)
<1>1. /\ stack'[c] = <<>> /\ groups'[c] = Unwound(c) /\ at'[c] \in {"retired", "ended"} /\ Alone(c)
  BY DEF Unwind, FlowInv, TypeOK, Alone
<1>2. at'[c] \notin Active
  BY <1>1 DEF Active, Awaits
<1>3. Stacked(<<>>)
  BY StackNone
<1>4. IsSeq(base[c])
  BY DEF GroupsInv, NestFine
<1>5. NestFine(at'[c], <<>>, Unwound(c), base[c])
  BY <1>2, <1>3, <1>4, UnwoundSeq, NestEnds
<1> QED BY <1>1, <1>5, NestAlone

\* The data of a request is exhausted.
LEMMA NestExhausted ==
  ASSUME FlowInv, GroupsInv, NEW c \in Context, DataExhausted(c)
  PROVE  NestStep(c)
<1>1. Unwind(c, "stop_vu") /\ base' = base
  BY DEF DataExhausted, history
<1> QED BY <1>1, NestUnwinds

\* A response, with what its assertions ask for.
LEMMA NestResponds ==
  ASSUME FlowInv, GroupsInv, NEW c \in Context, NEW bad \in BOOLEAN, NEW flow, Respond(c, bad, flow)
  PROVE  NestStep(c)
<1>1. base' = base /\ at[c] = "send" /\ at[c] \in Active
  BY DEF Respond, Active, Awaits
<1>2. NestFine(at[c], stack[c], groups[c], base[c]) /\ stack[c] # <<>> /\ Stacked(stack[c])
  BY <1>1 DEF GroupsInv, NestFine
<1>3. CASE flow = "continue" /\ at' = [at EXCEPT ![c] = "think"] /\ Advance(c) /\ groups' = groups
  <2>1. Alone(c) /\ at'[c] = "think" /\ stack'[c] = Advanced(c) /\ groups'[c] = groups[c]
    BY <1>1, <1>3 DEF Alone, Advance, FlowInv, TypeOK
  <2>2. Advanced(c) = <<[Head(stack[c]) EXCEPT !.rest = Tail(Head(stack[c]).rest)]>> \o Tail(stack[c])
    BY DEF Advanced, Top
  <2>3. Stacked(Advanced(c)) /\ Names(Advanced(c)) = Names(stack[c])
    BY <1>2, <2>2, NestAdvances
  <2>4. NestFine(at'[c], Advanced(c), groups[c], base[c])
    BY <1>1, <1>2, <2>1, <2>3 DEF NestFine
  <2> QED BY <2>1, <2>4, NestAlone
<1>4. CASE flow = "abort_iteration" /\ at' = [at EXCEPT ![c] = "step"] /\ stack' = [stack EXCEPT ![c][1].rest = <<>>] /\ groups' = groups
  <2>1. Alone(c) /\ at'[c] = "step" /\ stack'[c] = [stack[c] EXCEPT ![1].rest = <<>>] /\ groups'[c] = groups[c]
    BY <1>1, <1>4 DEF Alone, FlowInv, TypeOK
  <2>2. PICK u, w : u = stack[c] /\ w = stack'[c]
    OBVIOUS
  <2>3. w = [u EXCEPT ![1] = [step |-> u[1].step, block |-> u[1].block, rest |-> <<>>, left |-> u[1].left]]
    <3>1. IsFrame(u[1]) /\ 1 \in DOMAIN u
      BY <1>2, <2>2, StackFirst
    <3>2. [u[1] EXCEPT !.rest = <<>>] = [step |-> u[1].step, block |-> u[1].block, rest |-> <<>>, left |-> u[1].left]
      BY <3>1 DEF IsFrame
    <3>3. w = [u EXCEPT ![1] = [u[1] EXCEPT !.rest = <<>>]]
      BY <2>1, <2>2, <3>1
    <3> QED BY <3>2, <3>3
  <2>4. Stacked(w) /\ Names(w) = Names(u)
    BY <1>2, <2>2, <2>3, NestAgain
  <2>5. NestFine(at'[c], w, groups[c], base[c])
    BY <1>1, <1>2, <2>1, <2>2, <2>4 DEF NestFine
  <2> QED BY <2>1, <2>2, <2>5, NestAlone
<1>5. CASE Unwind(c, flow)
  BY <1>1, <1>5, NestUnwinds
<1> QED BY <1>3, <1>4, <1>5 DEF Respond

\* A sequence over a set is one over a larger set.
LEMMA SeqWider ==
  ASSUME NEW S, NEW R, S \subseteq R, NEW b \in Seq(S)
  PROVE  b \in Seq(R)
<1>1. PICK n \in Nat : n = Len(b)
  BY LenProperties
<1>2. b \in [1..n -> R]
  BY <1>1, LenProperties
<1> QED BY <1>2

\* The names grow at their end, on top of the base.
LEMMA BaseAppend ==
  ASSUME NEW b, IsSeq(b), NEW q, IsSeq(q), NEW x, NEW p, p = Append(q, x), NEW o, o = b \o q
  PROVE  b \o p = Append(o, x) /\ IsSeq(o)
<1>1. PICK S, T : b \in Seq(S) /\ q \in Seq(T)
  BY DEF IsSeq
<1>2. PICK R : R = S \cup T \cup {x}
  OBVIOUS
<1>3. b \in Seq(R) /\ q \in Seq(R) /\ x \in R
  BY <1>1, <1>2, SeqWider
<1>4. o \in Seq(R)
  BY <1>3
<1>5. b \o p = Append(o, x)
  <2>0. PICK d, e : d = b \o p /\ e = Append(o, x)
    OBVIOUS
  <2>1. p \in Seq(R) /\ Len(p) = Len(q) + 1 /\ p[Len(q) + 1] = x /\ \A i \in 1..Len(q) : p[i] = q[i]
    BY <1>3, <2>0, AppendProperties
  <2>2. o \in Seq(R) /\ Len(o) = Len(b) + Len(q) /\ \A i \in 1..(Len(b) + Len(q)) : o[i] = IF i <= Len(b) THEN b[i] ELSE q[i - Len(b)]
    BY <1>3, <2>0, ConcatProperties
  <2>3. d \in Seq(R) /\ Len(d) = Len(b) + Len(p) /\ \A i \in 1..(Len(b) + Len(p)) : d[i] = IF i <= Len(b) THEN b[i] ELSE p[i - Len(b)]
    BY <1>3, <2>0, <2>1, ConcatProperties
  <2>4. e \in Seq(R) /\ Len(e) = Len(o) + 1 /\ e[Len(o) + 1] = x /\ \A i \in 1..Len(o) : e[i] = o[i]
    BY <1>3, <2>0, <2>2, AppendProperties
  <2>5. PICK n \in Nat, m \in Nat : n = Len(b) /\ m = Len(q)
    BY <1>3, LenProperties
  <2>6. Len(d) = Len(e) /\ Len(d) = (n + m) + 1
    BY <2>1, <2>2, <2>3, <2>4, <2>5
  <2>7. ASSUME NEW i \in 1..((n + m) + 1) PROVE d[i] = e[i]
    <3>1. CASE i <= n
      <4>1. d[i] = b[i] /\ e[i] = o[i] /\ o[i] = b[i]
        BY <2>1, <2>2, <2>3, <2>4, <2>5, <3>1
      <4> QED BY <4>1
    <3>2. CASE ~(i <= n) /\ i <= n + m
      <4>1. PICK j \in 1..m : j = i - n
        BY <3>2
      <4>2. d[i] = p[j] /\ p[j] = q[j]
        BY <2>1, <2>3, <2>5, <3>2, <4>1
      <4>3. e[i] = o[i] /\ o[i] = q[j]
        BY <2>2, <2>4, <2>5, <3>2, <4>1
      <4> QED BY <4>2, <4>3
    <3>3. CASE i = (n + m) + 1
      <4>1. ~(i <= n) /\ i - n = m + 1 /\ i \in 1..(n + (m + 1))
        BY <3>3
      <4>2. p[m + 1] = x
        BY <2>1, <2>5
      <4>3. e[i] = x
        BY <2>2, <2>4, <2>5, <3>3
      <4>4. Len(b) + Len(p) = n + (m + 1)
        BY <2>1, <2>5
      <4>5. d[i] = p[m + 1]
        BY <2>3, <2>5, <4>1, <4>4
      <4> QED BY <4>2, <4>3, <4>5
    <3> QED BY <3>1, <3>2, <3>3
  <2>8. d = e
    BY <2>3, <2>4, <2>5, <2>6, <2>7, SeqEqual
  <2> QED BY <2>0, <2>8
<1> QED BY <1>4, <1>5 DEF IsSeq

\* A block is entered.
LEMMA NestEnters ==
  ASSUME FlowInv, GroupsInv, NEW c \in Context, NEW k, Enter(c, k)
  PROVE  NestStep(c)
<1>1. base' = base /\ at' = at /\ at[c] = "step" /\ stack[c] # <<>>
  BY DEF Enter, AtStep, Running, history
<1>2. /\ NestFine(at[c], stack[c], groups[c], base[c]) /\ Stacked(stack[c]) /\ IsSeq(groups[c]) /\ IsSeq(base[c])
      /\ groups[c] = base[c] \o Names(stack[c])
  BY <1>1 DEF GroupsInv, NestFine, Active
<1>3. PICK s, r : s = Step(c) /\ stack' = [stack EXCEPT ![c] = <<Frame(s, s.blocks[k], r)>> \o Advanced(c)]
  BY DEF Enter
<1>4. PICK f : f = Frame(s, s.blocks[k], r)
  OBVIOUS
<1>5. IsFrame(f) /\ f.step = s
  BY <1>4 DEF IsFrame, Frame
<1>6. PICK u : u = Advanced(c)
  OBVIOUS
<1>7. Stacked(u) /\ Names(u) = Names(stack[c])
  <2>1. Advanced(c) = <<[Head(stack[c]) EXCEPT !.rest = Tail(Head(stack[c]).rest)]>> \o Tail(stack[c])
    BY DEF Advanced, Top
  <2> QED BY <1>1, <1>2, <1>6, <2>1, NestAdvances
<1>8. PICK w : w = <<f>> \o u /\ Stacked(w) /\ Names(w) = Named(Names(u), f)
  BY <1>5, <1>7, StackPushed
<1>9. Alone(c) /\ stack'[c] = w
  <2>1. stack' = [stack EXCEPT ![c] = w]
    BY <1>3, <1>4, <1>6, <1>8
  <2>2. \A d \in Context : d # c => groups'[d] = groups[d]
    BY DEF Enter, FlowInv, TypeOK
  <2> QED BY <1>1, <2>1, <2>2 DEF Alone, FlowInv, TypeOK
<1>10. CASE s.op \in Tagging
  <2>1. groups'[c] = Append(groups[c], s.label)
    BY <1>3, <1>10 DEF Enter, FlowInv, TypeOK
  <2>2. Names(w) = Append(Names(stack[c]), s.label)
    BY <1>5, <1>7, <1>8, <1>10 DEF Named
  <2>3. IsSeq(Names(stack[c]))
    BY <1>2, NamesOf DEF Stacked
  <2>4. base[c] \o Names(w) = Append(groups[c], s.label)
    <3>1. PICK b, n, l : b = base[c] /\ n = Names(stack[c]) /\ l = s.label
      OBVIOUS
    <3>2. IsSeq(b) /\ IsSeq(n)
      BY <1>2, <2>3, <3>1
    <3>3. PICK p, o : p = Append(n, l) /\ o = b \o n
      OBVIOUS
    <3>4. b \o p = Append(o, l)
      BY <3>2, <3>3, BaseAppend
    <3> QED BY <1>2, <2>2, <3>1, <3>3, <3>4
  <2>5. IsSeq(groups'[c])
    BY <1>2, <2>1, SeqAppend
  <2>6. NestFine(at'[c], w, groups'[c], base[c])
    BY <1>1, <1>2, <1>8, <2>1, <2>4, <2>5 DEF NestFine
  <2> QED BY <1>9, <2>6, NestAlone
<1>11. CASE s.op \notin Tagging
  <2>1. groups' = groups
    BY <1>3, <1>11 DEF Enter
  <2>2. Names(w) = Names(stack[c])
    BY <1>5, <1>7, <1>8, <1>11 DEF Named
  <2>3. NestFine(at'[c], w, groups'[c], base[c])
    BY <1>1, <1>2, <1>8, <2>1, <2>2 DEF NestFine
  <2> QED BY <1>9, <2>3, NestAlone
<1> QED BY <1>10, <1>11

\* What the innermost call leaves behind.
LEMMA NestReturns ==
  ASSUME FlowInv, GroupsInv, NEW c \in Context, at[c] \in Active, stack[c] # <<>>, Return(c)
  PROVE  /\ Stacked(stack'[c]) /\ Names(stack[c]) = Named(Names(stack'[c]), Top(c))
         /\ \A d \in Context : d # c => stack'[d] = stack[d]
<1>1. stack'[c] = Tail(stack[c]) /\ \A d \in Context : d # c => stack'[d] = stack[d]
  BY DEF Return, FlowInv, TypeOK
<1>2. Stacked(stack[c])
  BY DEF GroupsInv, NestFine
<1>3. Stacked(Tail(stack[c])) /\ Names(stack[c]) = Named(Names(Tail(stack[c])), Head(stack[c]))
  BY <1>2, StackPopped
<1> QED BY <1>1, <1>3 DEF Top

\* A block is over: a tagging step pops its own name.
LEMMA NestLeaves ==
  ASSUME FlowInv, GroupsInv, NEW c \in Context, LeaveBlock(c)
  PROVE  NestStep(c)
<1>1. base' = base /\ at' = at /\ at[c] = "step" /\ stack[c] # <<>> /\ Return(c) /\ PopGroup(c)
  BY DEF LeaveBlock, AtEnd, Running, history
<1>2. /\ Stacked(stack[c]) /\ IsSeq(groups[c]) /\ IsSeq(base[c]) /\ groups[c] = base[c] \o Names(stack[c])
      /\ at[c] \in Active
  BY <1>1 DEF GroupsInv, NestFine, Active
<1>3. /\ Stacked(stack'[c]) /\ Names(stack[c]) = Named(Names(stack'[c]), Top(c))
      /\ \A d \in Context : d # c => stack'[d] = stack[d]
  BY <1>1, <1>2, NestReturns
<1>4. Alone(c)
  BY <1>1, <1>3 DEF Alone, PopGroup, FlowInv, TypeOK
<1>5. PICK n : n = Names(stack'[c]) /\ IsSeq(n)
  BY <1>3, NamesOf DEF Stacked
<1>6. CASE Top(c).step.op \in Tagging
  <2>1. groups'[c] = Front(groups[c])
    BY <1>1, <1>6 DEF PopGroup, FlowInv, TypeOK
  <2>2. PICK l : Names(stack[c]) = Append(n, l)
    BY <1>3, <1>5, <1>6 DEF Named
  <2>3. groups[c] = Append(base[c] \o n, l) /\ IsSeq(base[c] \o n)
    <3>1. PICK b : b = base[c]
      OBVIOUS
    <3>2. IsSeq(b) /\ IsSeq(n)
      BY <1>2, <1>5, <3>1
    <3>3. PICK p, o : p = Append(n, l) /\ o = b \o n
      OBVIOUS
    <3>4. b \o p = Append(o, l)
      BY <3>2, <3>3, BaseAppend
    <3>5. IsSeq(o)
      BY <3>2, <3>3, BaseAppend
    <3> QED BY <1>2, <1>5, <2>2, <3>1, <3>3, <3>4, <3>5
  <2>4. groups'[c] = base[c] \o n
    BY <2>1, <2>3, SeqAppend
  <2>5. NestFine(at'[c], stack'[c], groups'[c], base[c])
    BY <1>1, <1>2, <1>3, <1>5, <2>3, <2>4 DEF NestFine
  <2> QED BY <1>4, <2>5, NestAlone
<1>7. CASE Top(c).step.op \notin Tagging
  <2>1. groups'[c] = groups[c]
    BY <1>1, <1>7 DEF PopGroup
  <2>2. Names(stack[c]) = n
    BY <1>3, <1>5, <1>7 DEF Named
  <2>3. NestFine(at'[c], stack'[c], groups'[c], base[c])
    BY <1>1, <1>2, <1>3, <1>5, <2>1, <2>2 DEF NestFine
  <2> QED BY <1>4, <2>3, NestAlone
<1> QED BY <1>6, <1>7

\* A frame with its rest and its rounds replaced.
LEMMA FrameAgain ==
  ASSUME NEW e, e = [step |-> e.step, block |-> e.block, rest |-> e.rest, left |-> e.left], NEW r, NEW l
  PROVE  [e EXCEPT !.rest = r, !.left = l] = [step |-> e.step, block |-> e.block, rest |-> r, left |-> l]
<1>1. PICK a, b, p, q : a = e.step /\ b = e.block /\ p = e.rest /\ q = e.left
  OBVIOUS
<1>2. e = [step |-> a, block |-> b, rest |-> p, left |-> q]
  BY <1>1
<1>3. [e EXCEPT !.rest = r, !.left = l] = [step |-> a, block |-> b, rest |-> r, left |-> l]
  <2>1. PICK g : g = [e EXCEPT !.rest = r]
    OBVIOUS
  <2>2. g = [step |-> a, block |-> b, rest |-> r, left |-> q]
    BY <1>2, <2>1
  <2>3. [g EXCEPT !.left = l] = [step |-> a, block |-> b, rest |-> r, left |-> l]
    BY <2>2
  <2>4. [e EXCEPT !.rest = r, !.left = l] = [g EXCEPT !.left = l]
    BY <1>2, <2>1
  <2> QED BY <2>3, <2>4
<1> QED BY <1>1, <1>3

\* A call of a step that tags nothing returns.
LEMMA NestBack ==
  ASSUME FlowInv, GroupsInv, NEW c \in Context, at[c] \in Active, stack[c] # <<>>, Return(c),
         Top(c).step.op \notin Tagging, groups' = groups, base' = base, NEW s, at' = [at EXCEPT ![c] = s],
         s \notin {"slot", "send", "backoff"}
  PROVE  NestStep(c)
<1>1. /\ Stacked(stack'[c]) /\ Names(stack[c]) = Named(Names(stack'[c]), Top(c))
      /\ \A d \in Context : d # c => stack'[d] = stack[d]
  BY NestReturns
<1>2. Names(stack'[c]) = Names(stack[c])
  BY <1>1 DEF Named
<1>3. Alone(c) /\ at'[c] = s
  BY <1>1 DEF Alone, FlowInv, TypeOK
<1>4. NestFine(at[c], stack[c], groups[c], base[c])
  BY DEF GroupsInv
<1>5. NestFine(at'[c], stack'[c], groups'[c], base[c])
  BY <1>1, <1>2, <1>3, <1>4 DEF NestFine
<1> QED BY <1>3, <1>5, NestAlone

\* Another round or attempt begins.
LEMMA NestRepeats ==
  ASSUME FlowInv, GroupsInv, NEW c \in Context, at[c] \in Active, stack[c] # <<>>, Again(c),
         groups' = groups, base' = base, NEW s, at' = [at EXCEPT ![c] = s]
  PROVE  NestStep(c)
<1>1. Alone(c) /\ at'[c] = s
  BY DEF Again, Alone, FlowInv, TypeOK
<1>2. NestFine(at[c], stack[c], groups[c], base[c]) /\ Stacked(stack[c])
  BY DEF GroupsInv, NestFine
<1>3. PICK u, w : u = stack[c] /\ w = stack'[c]
  OBVIOUS
<1>4. IsFrame(u[1]) /\ 1 \in DOMAIN u
  BY <1>2, <1>3, StackFirst
<1>5. PICK r, l : w = [u EXCEPT ![1] = [step |-> u[1].step, block |-> u[1].block, rest |-> r, left |-> l]]
  <2>1. stack' = [stack EXCEPT ![c][1].rest = Top(c).block, ![c][1].left = @ - 1]
    BY DEF Again
  <2>2. w = [u EXCEPT ![1].rest = Top(c).block, ![1].left = @ - 1]
    BY <1>3, <2>1 DEF FlowInv, TypeOK
  <2>3. w = [u EXCEPT ![1] = [u[1] EXCEPT !.rest = Top(c).block, !.left = @ - 1]]
    BY <1>4, <2>2
  <2>4. PICK e, r, l : e = u[1] /\ r = Top(c).block /\ l = e.left - 1
    OBVIOUS
  <2>5. e = [step |-> e.step, block |-> e.block, rest |-> e.rest, left |-> e.left]
    BY <1>4, <2>4 DEF IsFrame
  <2>6. [e EXCEPT !.rest = r, !.left = l] = [step |-> e.step, block |-> e.block, rest |-> r, left |-> l]
    BY <2>5, FrameAgain
  <2>7. w = [u EXCEPT ![1] = [e EXCEPT !.rest = r, !.left = l]]
    BY <1>4, <2>3, <2>4, <2>5
  <2> QED BY <2>4, <2>6, <2>7
<1>6. Stacked(w) /\ Names(w) = Names(u) /\ w # <<>>
  BY <1>2, <1>3, <1>5, NestAgain, ZenonT(40)
<1>7. NestFine(s, w, groups[c], base[c])
  BY <1>2, <1>3, <1>6 DEF NestFine
<1> QED BY <1>1, <1>3, <1>7, NestAlone

\* A round of a loop is over.
LEMMA NestRounds ==
  ASSUME FlowInv, GroupsInv, NEW c \in Context, NextRound(c)
  PROVE  NestStep(c)
<1>1. /\ groups' = groups /\ base' = base /\ at' = at /\ at[c] = "step" /\ stack[c] # <<>>
      /\ Top(c).step.op \in Loops /\ (Again(c) \/ Return(c))
  BY DEF NextRound, AtEnd, Running, history
<1>2. at[c] \in Active /\ Top(c).step.op \notin Tagging
  BY <1>1 DEF Active, Loops, Tagging
<1>3. PICK s : s = at[c] /\ s \notin {"slot", "send", "backoff"} /\ at' = [at EXCEPT ![c] = s]
  <2>1. at' = [at EXCEPT ![c] = at[c]]
    BY <1>1 DEF FlowInv, TypeOK
  <2> QED BY <1>1, <2>1
<1>4. CASE Again(c)
  BY <1>1, <1>2, <1>3, <1>4, NestRepeats
<1>5. CASE Return(c)
  BY <1>1, <1>2, <1>3, <1>5, NestBack
<1> QED BY <1>1, <1>4, <1>5

\* An attempt of a retry is over.
LEMMA NestAttempts ==
  ASSUME FlowInv, GroupsInv, NEW c \in Context, NEW ok \in BOOLEAN, AttemptEnds(c, ok)
  PROVE  NestStep(c)
<1>1. /\ groups' = groups /\ base' = base /\ at[c] = "step" /\ stack[c] # <<>> /\ Top(c).step.op \in Retries
      /\ (Return(c) /\ at' = at) \/ (at' = [at EXCEPT ![c] = "backoff"] /\ stack' = stack)
  BY DEF AttemptEnds, AtEnd, Running, history
<1>2. at[c] \in Active /\ Top(c).step.op \notin Tagging
  BY <1>1 DEF Active, Retries, Tagging
<1>3. CASE Return(c) /\ at' = at
  <2>1. PICK s : s = at[c] /\ s \notin {"slot", "send", "backoff"} /\ at' = [at EXCEPT ![c] = s]
    <3>1. at' = [at EXCEPT ![c] = at[c]]
      BY <1>3 DEF FlowInv, TypeOK
    <3> QED BY <1>1, <3>1
  <2> QED BY <1>1, <1>2, <1>3, <2>1, NestBack
<1>4. CASE at' = [at EXCEPT ![c] = "backoff"] /\ stack' = stack
  <2>1. Alone(c)
    BY <1>1, <1>4 DEF Alone, FlowInv, TypeOK
  <2>2. NestFine(at[c], stack[c], groups[c], base[c])
    BY DEF GroupsInv
  <2>3. NestFine(at'[c], stack'[c], groups'[c], base[c])
    BY <1>1, <1>2, <1>4, <2>2 DEF NestFine
  <2> QED BY <2>1, <2>3, NestAlone
<1> QED BY <1>1, <1>3, <1>4

\* The next attempt begins.
LEMMA NestRetries ==
  ASSUME FlowInv, GroupsInv, NEW c \in Context, NextAttempt(c)
  PROVE  NestStep(c)
<1>1. groups' = groups /\ base' = base /\ at[c] = "backoff" /\ Again(c)
  BY DEF NextAttempt, history
<1>2. stack[c] # <<>> /\ at[c] \in Active
  BY <1>1 DEF GroupsInv, NestFine, Active, Awaits
<1>3. PICK s : at' = [at EXCEPT ![c] = s]
  BY DEF NextAttempt
<1> QED BY <1>1, <1>2, <1>3, NestRepeats

\* A branch is over, or an iteration.
LEMMA NestOver ==
  ASSUME FlowInv, GroupsInv, NEW c \in Context, AtEnd(c, {"branch", "iteration"}), Return(c), groups' = groups,
         base' = base, NEW s \in {"ended", "idle"}, at' = [at EXCEPT ![c] = s]
  PROVE  NestStep(c)
<1>1. at[c] = "step" /\ stack[c] # <<>> /\ Top(c).step.op \in {"branch", "iteration"}
  BY DEF AtEnd, Running
<1>2. at[c] \in Active /\ Top(c).step.op \notin Tagging /\ s \notin {"slot", "send", "backoff"}
  BY <1>1 DEF Active, Tagging
<1> QED BY <1>1, <1>2, NestBack

\* A branch is over.
LEMMA NestBranch ==
  ASSUME FlowInv, GroupsInv, NEW c \in Context, BranchEnds(c)
  PROVE  NestStep(c)
<1>1. AtEnd(c, {"branch", "iteration"}) /\ Return(c) /\ groups' = groups /\ base' = base
  BY DEF BranchEnds, AtEnd, history
<1>2. PICK s \in {"ended", "idle"} : at' = [at EXCEPT ![c] = s]
  BY DEF BranchEnds
<1> QED BY <1>1, <1>2, NestOver

\* An iteration is over.
LEMMA NestCompletes ==
  ASSUME FlowInv, GroupsInv, NEW v \in Vu, CompleteIteration(v)
  PROVE  NestStep(Main(v))
<1>1. PICK c \in Context : c = Main(v)
  BY Contexts
<1>2. AtEnd(c, {"branch", "iteration"}) /\ Return(c) /\ groups' = groups /\ base' = base
  BY <1>1 DEF CompleteIteration, AtEnd, history
<1>3. PICK s \in {"ended", "idle"} : at' = [at EXCEPT ![c] = s]
  BY <1>1 DEF CompleteIteration
<1> QED BY <1>1, <1>2, <1>3, NestOver

\* A VU ends between two iterations.
LEMMA NestRetires ==
  ASSUME FlowInv, GroupsInv, NEW v \in Vu, Retire(v)
  PROVE  NestStep(Main(v))
<1>1. PICK c \in Context : c = Main(v)
  BY Contexts
<1>2. groups' = groups /\ base' = base /\ stack' = stack /\ at' = [at EXCEPT ![c] = "retired"]
  BY <1>1 DEF Retire, history
<1>3. Alone(c) /\ at'[c] = "retired"
  BY <1>2 DEF Alone, FlowInv, TypeOK
<1>4. at'[c] \notin Active
  BY <1>3 DEF Active, Awaits
<1>5. Stacked(stack[c]) /\ IsSeq(groups[c]) /\ IsSeq(base[c])
  BY DEF GroupsInv, NestFine
<1>6. NestFine(at'[c], stack'[c], groups'[c], base[c])
  BY <1>2, <1>4, <1>5, NestEnds
<1> QED BY <1>1, <1>3, <1>6, NestAlone

\* A single call that tags nothing.
LEMMA StackSingle ==
  ASSUME NEW step, step.op \notin Tagging, NEW block, NEW left
  PROVE  Stacked(<<Frame(step, block, left)>>) /\ Names(<<Frame(step, block, left)>>) = <<>>
<1>1. PICK f : f = Frame(step, block, left)
  OBVIOUS
<1>2. IsFrame(f) /\ f.step = step
  BY <1>1 DEF IsFrame, Frame
<1>3. PICK u : u = <<>>
  OBVIOUS
<1>4. Stacked(u) /\ Names(u) = <<>>
  BY <1>3, StackNone
<1>5. Stacked(<<f>> \o u) /\ Names(<<f>> \o u) = Named(Names(u), f)
  BY <1>2, <1>4, StackPushed
<1>6. <<f>> \o u = <<f>>
  BY <1>3
<1>7. Named(Names(u), f) = <<>>
  BY <1>2, <1>4 DEF Named
<1> QED BY <1>1, <1>5, <1>6, <1>7

\* A sequence and nothing more.
LEMMA BaseAlone ==
  ASSUME NEW b, IsSeq(b)
  PROVE  b \o <<>> = b
<1>1. PICK S : b \in Seq(S)
  BY DEF IsSeq
<1> QED BY <1>1, ConcatEmptySeq

\* An iteration begins on the groups it finds.
LEMMA NestBegins ==
  ASSUME FlowInv, GroupsInv, NEW v \in Vu, BeginIteration(v)
  PROVE  NestStep(Main(v))
<1>1. PICK c \in Context : c = Main(v)
  BY Contexts
<1>2. /\ groups' = groups /\ base' = [base EXCEPT ![c] = groups[c]] /\ at' = [at EXCEPT ![c] = "step"]
      /\ stack' = [stack EXCEPT ![c] = <<Frame([op |-> "iteration"], program, 1)>>]
  BY <1>1 DEF BeginIteration
<1>3. DOMAIN base = Context /\ IsSeq(groups[c])
  BY DEF GroupsInv, NestFine
<1>4. PICK step : step = [op |-> "iteration"] /\ step.op \notin Tagging
  <2>1. [op |-> "iteration"].op \notin Tagging
    BY DEF Tagging
  <2> QED BY <2>1
<1>5. PICK w : w = <<Frame(step, program, 1)>> /\ Stacked(w) /\ Names(w) = <<>>
  BY <1>4, StackSingle
<1>6. /\ at'[c] = "step" /\ stack'[c] = w /\ groups'[c] = groups[c] /\ base'[c] = groups[c]
      /\ DOMAIN base' = Context
      /\ \A d \in Context : d # c => at'[d] = at[d] /\ stack'[d] = stack[d] /\ groups'[d] = groups[d] /\ base'[d] = base[d]
  BY <1>2, <1>3, <1>4, <1>5 DEF FlowInv, TypeOK
<1>7. groups[c] = groups[c] \o Names(w)
  BY <1>3, <1>5, BaseAlone
<1>8. NestFine(at'[c], stack'[c], groups'[c], base'[c])
  BY <1>3, <1>5, <1>6, <1>7 DEF NestFine
<1> QED BY <1>1, <1>6, <1>8 DEF NestStep

\* The executor drops an iteration with its branches.
LEMMA NestCancels ==
  ASSUME FlowInv, GroupsInv, NEW v \in Vu, NEW place \in {"idle", "retired"}, Cancel(v, place)
  PROVE  GroupsInv'
<1>1. base' = base /\ DOMAIN base = Context
  BY DEF Cancel, GroupsInv
<1>2. ASSUME NEW d \in Context PROVE NestFine(at'[d], stack'[d], groups'[d], base[d])
  <2>1. NestFine(at[d], stack[d], groups[d], base[d]) /\ IsSeq(groups[d]) /\ IsSeq(base[d])
    BY DEF GroupsInv, NestFine
  <2>2. CASE d \in Family(v)
    <3>1. at'[d] \in {"idle", "retired", "ended"}
      <4>1. d = Main(v) \/ d \in BranchesOf(v)
        BY <2>2 DEF BranchesOf
      <4>2. Main(v) \notin BranchesOf(v)
        BY DEF BranchesOf
      <4>3. CASE d = Main(v)
        BY <4>3 DEF Cancel
      <4>4. CASE d \in BranchesOf(v) /\ d # Main(v)
        BY <4>4 DEF Cancel
      <4> QED BY <4>1, <4>3, <4>4
    <3>2. at'[d] \notin Active
      BY <3>1 DEF Active, Awaits
    <3>3. stack'[d] = <<>>
      BY <2>2 DEF Cancel
    <3>4. IsSeq(groups'[d])
      <4>1. groups'[d] = IF d \in BranchesOf(v) THEN <<>> ELSE groups[d]
        BY DEF Cancel
      <4>2. IsSeq(<<>>)
        BY DEF IsSeq
      <4> QED BY <2>1, <4>1, <4>2
    <3> QED BY <2>1, <3>2, <3>3, <3>4, StackNone, NestEnds
  <2>3. CASE d \notin Family(v)
    <3>1. d # Main(v) /\ d \notin BranchesOf(v)
      BY <2>3, Contexts DEF BranchesOf
    <3>2. at'[d] = at[d]
      BY <3>1 DEF Cancel
    <3>3. stack'[d] = stack[d] /\ groups'[d] = groups[d]
      BY <2>3, <3>1 DEF Cancel
    <3> QED BY <2>1, <3>2, <3>3
  <2> QED BY <2>2, <2>3
<1> QED BY <1>1, <1>2 DEF GroupsInv

\* A parallel step: each branch begins on the groups of its parent.
LEMMA NestForks ==
  ASSUME FlowInv, GroupsInv, NEW v \in Vu, Fork(v)
  PROVE  GroupsInv'
<1>1. PICK kids, blocks : kids = Children(v, Len(Step(Main(v)).blocks)) /\ blocks = Step(Main(v)).blocks
  OBVIOUS
<1>2. Main(v) \in Context /\ at[Main(v)] = "step" /\ stack[Main(v)] # <<>>
  BY Contexts DEF Fork, AtStep, Running
<1>3. \A d \in Context : d \in kids => d # Main(v)
  BY <1>1, Contexts DEF Children, BranchesOf
<1>4. DOMAIN base' = Context
  BY DEF Fork
<1>5. \A d \in Context : /\ groups'[d] = IF d \in kids THEN groups[Main(v)] ELSE groups[d]
                         /\ base'[d] = IF d \in kids THEN groups[Main(v)] ELSE base[d]
  BY <1>1 DEF Fork
<1>6. at' = [c \in Context |-> CASE c = Main(v) -> "join" [] c \in kids -> "step" [] OTHER -> at[c]]
  BY <1>1 DEF Fork
<1>7. stack' = [c \in Context |-> CASE c = Main(v) -> Advanced(c)
                                    [] c \in kids -> <<Frame([op |-> "branch"], blocks[c[2]], 1)>>
                                    [] OTHER -> stack[c]]
  BY <1>1 DEF Fork
<1>8. \A c \in Context : /\ NestFine(at[c], stack[c], groups[c], base[c]) /\ Stacked(stack[c])
                         /\ IsSeq(groups[c]) /\ IsSeq(base[c])
  BY DEF GroupsInv, NestFine
<1>9. ASSUME NEW d \in Context PROVE NestFine(at'[d], stack'[d], groups'[d], base'[d])
  <2>1. CASE d = Main(v)
    <3>1. d \notin kids
      BY <1>3, <2>1
    <3>2. at'[d] = "join"
      BY <1>6, <2>1, <3>1
    <3>3. stack'[d] = Advanced(d)
      BY <1>7, <2>1, <3>1
    <3>4. groups'[d] = groups[d] /\ base'[d] = base[d]
      BY <1>5, <3>1
    <3>5. Advanced(d) = <<[Head(stack[d]) EXCEPT !.rest = Tail(Head(stack[d]).rest)]>> \o Tail(stack[d])
      BY DEF Advanced, Top
    <3>6. Stacked(Advanced(d)) /\ Names(Advanced(d)) = Names(stack[d])
      BY <1>2, <1>8, <2>1, <3>5, NestAdvances
    <3>7. at[d] \in Active
      BY <1>2, <2>1 DEF Active
    <3> QED BY <1>8, <3>2, <3>3, <3>4, <3>6, <3>7 DEF NestFine
  <2>2. CASE d \in kids
    <3>1. d # Main(v)
      BY <1>3, <2>2
    <3>2. at'[d] = "step"
      BY <1>6, <2>2, <3>1
    <3>3. stack'[d] = <<Frame([op |-> "branch"], blocks[d[2]], 1)>>
      BY <1>7, <2>2, <3>1
    <3>4. groups'[d] = groups[Main(v)] /\ base'[d] = groups[Main(v)]
      BY <1>5, <2>2
    <3>5. PICK step, block : step = [op |-> "branch"] /\ step.op \notin Tagging /\ block = blocks[d[2]]
      <4>1. [op |-> "branch"].op \notin Tagging
        BY DEF Tagging
      <4> QED BY <4>1
    <3>6. PICK w : w = <<Frame(step, block, 1)>> /\ Stacked(w) /\ Names(w) = <<>>
      BY <3>5, StackSingle
    <3>7. stack'[d] = w
      BY <3>3, <3>5, <3>6
    <3>8. PICK q : q = groups[Main(v)] /\ IsSeq(q)
      BY <1>2, <1>8
    <3>9. q = q \o Names(w)
      BY <3>6, <3>8, BaseAlone
    <3> QED BY <3>2, <3>4, <3>6, <3>7, <3>8, <3>9 DEF NestFine
  <2>3. CASE d # Main(v) /\ d \notin kids
    <3>1. at'[d] = at[d] /\ stack'[d] = stack[d]
      BY <1>6, <1>7, <2>3
    <3>2. groups'[d] = groups[d] /\ base'[d] = base[d]
      BY <1>5, <2>3
    <3> QED BY <1>8, <3>1, <3>2
  <2> QED BY <2>1, <2>2, <2>3
<1> QED BY <1>4, <1>9 DEF GroupsInv

\* The branches are joined.
LEMMA NestJoins ==
  ASSUME FlowInv, GroupsInv, NEW v \in Vu, Join(v)
  PROVE  GroupsInv'
<1>1. base' = base /\ DOMAIN base = Context /\ at[Main(v)] = "join" /\ \A c \in BranchesOf(v) : at[c] = "ended"
  BY DEF Join, GroupsInv, history
<1>2. Main(v) \in Context /\ Main(v) \notin BranchesOf(v)
  BY Contexts DEF BranchesOf
<1>3. PICK o : /\ at' = [at EXCEPT ![Main(v)] = IF o = "completed" THEN "step" ELSE "retired"]
               /\ stack' = [stack EXCEPT ![Main(v)] = IF o = "completed" THEN @ ELSE <<>>]
               /\ groups' = [c \in Context |->
                    CASE c = Main(v) -> IF o = "completed" THEN groups[c] ELSE Unwound(c)
                      [] c \in BranchesOf(v) -> <<>>
                      [] OTHER -> groups[c]]
  BY DEF Join
<1>4. \A c \in Context : /\ NestFine(at[c], stack[c], groups[c], base[c]) /\ Stacked(stack[c])
                         /\ IsSeq(groups[c]) /\ IsSeq(base[c])
  BY DEF GroupsInv, NestFine
<1>5. ASSUME NEW d \in Context PROVE NestFine(at'[d], stack'[d], groups'[d], base[d])
  <2>1. CASE d = Main(v)
    <3>1. groups'[d] = IF o = "completed" THEN groups[d] ELSE Unwound(d)
      BY <1>2, <1>3, <2>1
    <3>2. at[d] \in Active
      BY <1>1, <2>1 DEF Active, Awaits
    <3>3. CASE o = "completed"
      <4>1. at'[d] = "step" /\ stack'[d] = stack[d] /\ groups'[d] = groups[d]
        BY <1>2, <1>3, <2>1, <3>1, <3>3 DEF FlowInv, TypeOK
      <4> QED BY <1>4, <3>2, <4>1 DEF NestFine
    <3>4. CASE o # "completed"
      <4>1. at'[d] = "retired" /\ stack'[d] = <<>> /\ groups'[d] = Unwound(d)
        BY <1>2, <1>3, <2>1, <3>1, <3>4 DEF FlowInv, TypeOK
      <4>2. at'[d] \notin Active
        BY <4>1 DEF Active, Awaits
      <4> QED BY <1>4, <4>1, <4>2, StackNone, UnwoundSeq, NestEnds
    <3> QED BY <3>3, <3>4
  <2>2. CASE d \in BranchesOf(v)
    <3>1. d # Main(v)
      BY <1>2, <2>2
    <3>2. groups'[d] = <<>>
      BY <1>3, <2>2, <3>1
    <3>3. at'[d] = at[d] /\ stack'[d] = stack[d]
      BY <1>3, <3>1 DEF FlowInv, TypeOK
    <3>4. at'[d] \notin Active
      BY <1>1, <2>2, <3>3 DEF Active, Awaits
    <3>5. IsSeq(<<>>)
      BY DEF IsSeq
    <3> QED BY <1>4, <3>2, <3>3, <3>4, <3>5, NestEnds
  <2>3. CASE d # Main(v) /\ d \notin BranchesOf(v)
    <3>1. at'[d] = at[d] /\ stack'[d] = stack[d]
      BY <1>3, <2>3 DEF FlowInv, TypeOK
    <3>2. groups'[d] = groups[d]
      BY <1>3, <2>3
    <3> QED BY <1>4, <3>1, <3>2
  <2> QED BY <2>1, <2>2, <2>3
<1> QED BY <1>1, <1>5 DEF GroupsInv

\* Nothing runs at first.
LEMMA InitGroups ==
  ASSUME Init
  PROVE  GroupsInv
<1>1. DOMAIN base = Context
  BY DEF Init
<1>2. ASSUME NEW c \in Context PROVE NestFine(at[c], stack[c], groups[c], base[c])
  <2>1. stack[c] = <<>> /\ groups[c] = <<>> /\ base[c] = <<>> /\ at[c] \in {"idle", "ended"}
    BY <1>2 DEF Init
  <2>2. at[c] \notin Active
    BY <2>1 DEF Active, Awaits
  <2>3. IsSeq(<<>>)
    BY DEF IsSeq
  <2> QED BY <2>1, <2>2, <2>3, StackNone, NestEnds
<1> QED BY <1>1, <1>2 DEF GroupsInv

\* Every step of a context keeps the invariant.
LEMMA ProgressGroups ==
  ASSUME FlowInv, GroupsInv, NEW c \in Context, Progress(c)
  PROVE  GroupsInv'
<1>1. CASE StartRequest(c) \/ Prepared(c) \/ Wake(c) \/ GiveUp(c)
  BY <1>1, NestRequests, NestPreserves
<1>2. CASE PrepareFails(c) \/ SkipLoop(c) \/ Arrive(c)
  BY <1>2, NestPasses, NestPreserves
<1>3. CASE DataExhausted(c)
  BY <1>3, NestExhausted, NestPreserves
<1>4. ASSUME NEW bad \in BOOLEAN, NEW flow, Respond(c, bad, flow) PROVE GroupsInv'
  BY <1>4, NestResponds, NestPreserves
<1>5. ASSUME NEW b, Enter(c, b) PROVE GroupsInv'
  BY <1>5, NestEnters, NestPreserves
<1>6. CASE LeaveBlock(c)
  BY <1>6, NestLeaves, NestPreserves
<1>7. CASE NextRound(c)
  BY <1>7, NestRounds, NestPreserves
<1>8. ASSUME NEW ok \in BOOLEAN, AttemptEnds(c, ok) PROVE GroupsInv'
  BY <1>8, NestAttempts, NestPreserves
<1>9. CASE NextAttempt(c)
  BY <1>9, NestRetries, NestPreserves
<1>10. CASE BranchEnds(c)
  BY <1>10, NestBranch, NestPreserves
<1> QED
  BY <1>1, <1>2, <1>3, <1>4, <1>5, <1>6, <1>7, <1>8, <1>9, <1>10 DEF Progress

\* And so does every step of the specification.
LEMMA StepGroups ==
  ASSUME FlowInv, GroupsInv, [Next]_vars
  PROVE  GroupsInv'
<1>1. ASSUME NEW v \in Vu, VuProgress(v) PROVE GroupsInv'
  <2>1. CASE CompleteIteration(v)
    <3>1. Main(v) \in Context
      BY Contexts
    <3> QED BY <2>1, <3>1, NestCompletes, NestPreserves
  <2>2. CASE Fork(v)
    BY <2>2, NestForks
  <2>3. CASE Join(v)
    BY <2>3, NestJoins
  <2>4. ASSUME NEW c \in Family(v), Progress(c) PROVE GroupsInv'
    <3>1. c \in Context
      BY Contexts
    <3> QED BY <2>4, <3>1, ProgressGroups
  <2> QED BY <1>1, <2>1, <2>2, <2>3, <2>4 DEF VuProgress
<1>2. ASSUME NEW v \in Vu, BeginIteration(v) \/ Retire(v) PROVE GroupsInv'
  <2>1. Main(v) \in Context
    BY Contexts
  <2>2. NestStep(Main(v))
    BY <1>2, NestBegins, NestRetires
  <2> QED BY <2>1, <2>2, NestPreserves
<1>3. ASSUME NEW v \in Vu, NEW place \in {"idle", "retired"}, Cancel(v, place) PROVE GroupsInv'
  BY <1>3, NestCancels
<1>4. CASE Ended \/ UNCHANGED vars
  <2>1. at' = at /\ stack' = stack /\ groups' = groups /\ base' = base
    BY <1>4 DEF Ended, vars, history
  <2> QED BY <2>1 DEF GroupsInv
<1> QED BY <1>1, <1>2, <1>3, <1>4 DEF Next

\* The group tag of a sample names the group and random blocks around it, on top
\* of what the iteration or branch began with, however blocks were left: at their
\* end, by abort_iteration, by an abort that unwinds them all, by a join that
\* passes one on, or with the iteration dropped at an await.
THEOREM GroupsTheorem == Spec => []GroupsNest
<1>1. Init => GroupsInv
  BY InitGroups
<1>2. FlowInv /\ GroupsInv /\ [Next]_vars => GroupsInv'
  BY StepGroups
<1>3. GroupsInv => GroupsNest
  BY DEF GroupsInv, GroupsNest, NestFine, Active, Labels
<1> QED
  BY <1>1, <1>2, <1>3, FlowInvariance, PTL DEF Spec
=============================================================================
