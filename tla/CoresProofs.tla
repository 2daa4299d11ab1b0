---------------------------- MODULE CoresProofs -----------------------------
(***************************************************************************)
(* What Cores guarantees for every number of cores, sockets, connections   *)
(* and failures.                                                           *)
(*                                                                         *)
(* A core that has ended stays as it ended, so what Engine::run keeps of   *)
(* the outcomes it has joined stays the worst of them; and the sender goes *)
(* only when the last core is joined, so the result covers them all.       *)
(***************************************************************************)
EXTENDS Cores, TLAPS

Outcomes == {"running", "draining"} \cup Ended

TypeInv ==
    /\ core \in [Cores -> Outcomes]
    /\ joined \in 0 .. NCores
    /\ first_error \in {"none", "timedout", "failed"}
    /\ sender \in BOOLEAN /\ quit \in BOOLEAN

Joined == {c \in Cores : c < joined}

\* What has been joined has ended, and the worst of it is kept.
KeptInv ==
    /\ \A c \in Joined : core[c] \in Ended
    /\ first_error = "failed" <=> \E c \in Joined : core[c] = "failed"
    /\ first_error = "timedout" <=> /\ \E c \in Joined : core[c] = "timedout"
                                    /\ \A c \in Joined : core[c] # "failed"

\* The sender is given up when every core has been joined, the last wake byte is
\* written after that, and run returns after both.
ReturnInv ==
    /\ ~sender => joined = NCores
    /\ quit => ~sender
    /\ result # "none" => quit
    /\ result # "none" => result = IF first_error = "none" THEN "ok" ELSE first_error

IInv ==
    /\ TypeInv
    /\ KeptInv
    /\ ReturnInv
    /\ WakeNotLost

-----------------------------------------------------------------------------
(* The joins.                                                              *)

\* Cores that go on, or end, without being joined.
LEMMA OutcomesKeep ==
    ASSUME TypeInv, KeptInv, UNCHANGED joinVars,
           core' = core \/ \E c \in Cores, o \in Outcomes :
                               core[c] \notin Ended /\ core' = [core EXCEPT ![c] = o]
    PROVE  core' \in [Cores -> Outcomes] /\ KeptInv'
<1>1. joined' = joined /\ first_error' = first_error /\ Joined' = Joined
  BY DEF joinVars, Joined
<1>2. CASE core' = core
  BY <1>1, <1>2 DEF TypeInv, KeptInv
<1>3. CASE core' # core
  <2>1. PICK c \in Cores, o \in Outcomes : core[c] \notin Ended /\ core' = [core EXCEPT ![c] = o]
    BY <1>3
  <2>2. c \notin Joined
    BY <2>1 DEF KeptInv
  <2>3. core' \in [Cores -> Outcomes]
    BY <2>1 DEF TypeInv
  <2>4. \A d \in Joined : core'[d] = core[d]
    BY <2>1, <2>2 DEF TypeInv, Joined
  <2>5. QED BY <1>1, <2>3, <2>4 DEF KeptInv
<1>4. QED BY <1>2, <1>3

\* A step of the helper, the network, the acceptor or a core keeps the
\* invariant, if no job is left behind without a wake.
LEMMA RunKeeps ==
    ASSUME IInv, UNCHANGED joinVars, sender' = sender, WakeNotLost',
           core' = core \/ \E c \in Cores, o \in Outcomes :
                               core[c] \notin Ended /\ core' = [core EXCEPT ![c] = o]
    PROVE  IInv'
<1>1. core' \in [Cores -> Outcomes] /\ KeptInv'
  BY OutcomesKeep DEF IInv
<1>2. joined' = joined /\ first_error' = first_error /\ result' = result /\ quit' = quit
  BY DEF joinVars
<1>3. TypeInv'
  BY <1>1, <1>2 DEF IInv, TypeInv
<1>4. ReturnInv'
  BY <1>2 DEF IInv, ReturnInv
<1>5. QED BY <1>1, <1>3, <1>4 DEF IInv

\* A thread is joined, and the worst outcome so far is kept.
LEMMA JoinKeeps ==
    ASSUME IInv, Join
    PROVE  IInv'
<1> USE HelperAssumption
<1>1. /\ joined \in Cores /\ joined' = joined + 1 /\ core[joined] \in Ended
      /\ first_error' = Keep(first_error, core[joined])
      /\ UNCHANGED <<core, result, quit, sender, hpc, jobs, wake, waking>>
  BY DEF Join, IInv, TypeInv, Cores, coreVars, helperVars
<1>2. Joined' = Joined \cup {joined}
  BY <1>1 DEF Joined, Cores, IInv, TypeInv
<1>3. TypeInv'
  BY <1>1 DEF IInv, TypeInv, Keep, Ended, Cores
<1>4. KeptInv'
  <2>1. first_error \in {"none", "timedout", "failed"}
    BY DEF IInv, TypeInv
  <2>2. core' = core /\ KeptInv
    BY <1>1 DEF IInv
  <2>3. CASE core[joined] = "ok"
    BY <1>1, <1>2, <2>1, <2>2, <2>3 DEF KeptInv, Keep
  <2>4. CASE core[joined] = "timedout"
    BY <1>1, <1>2, <2>1, <2>2, <2>4 DEF KeptInv, Keep
  <2>5. CASE core[joined] = "failed"
    BY <1>1, <1>2, <2>1, <2>2, <2>5 DEF KeptInv, Keep
  <2>6. QED BY <1>1, <2>3, <2>4, <2>5 DEF Ended
<1>5. ReturnInv'
  BY <1>1 DEF IInv, ReturnInv, TypeInv, Cores
<1>6. WakeNotLost'
  BY <1>1 DEF IInv, WakeNotLost, joinVars
<1>7. QED BY <1>3, <1>4, <1>5, <1>6 DEF IInv

\* The sender is dropped after the last join.
LEMMA DropSenderKeeps ==
    ASSUME IInv, DropSender
    PROVE  IInv'
<1>1. /\ joined = NCores /\ sender' = FALSE /\ sender
      /\ UNCHANGED <<core, joined, first_error, result, quit, hpc, jobs, wake, waking>>
  BY DEF DropSender, coreVars, joinVars
<1>2. TypeInv'
  BY <1>1 DEF IInv, TypeInv
<1>3. KeptInv'
  BY <1>1 DEF IInv, KeptInv, Joined
<1>4. ReturnInv'
  BY <1>1 DEF IInv, ReturnInv
<1>5. WakeNotLost'
  BY <1>1 DEF IInv, WakeNotLost, joinVars
<1>6. QED BY <1>2, <1>3, <1>4, <1>5 DEF IInv

\* The thread is woken after that.
LEMMA DropWakesKeeps ==
    ASSUME IInv, DropWakes
    PROVE  IInv'
<1>1. /\ ~sender /\ ~quit /\ quit' = TRUE /\ wake' = TRUE
      /\ UNCHANGED <<core, joined, first_error, result, sender>>
  BY DEF DropWakes, SendWake, coreVars
<1>2. TypeInv'
  BY <1>1 DEF IInv, TypeInv
<1>3. KeptInv'
  BY <1>1 DEF IInv, KeptInv, Joined
<1>4. ReturnInv'
  BY <1>1 DEF IInv, ReturnInv
<1>5. WakeNotLost'
  BY <1>1 DEF WakeNotLost
<1>6. QED BY <1>2, <1>3, <1>4, <1>5 DEF IInv

\* run returns what was kept.
LEMMA ReturnKeeps ==
    ASSUME IInv, Return
    PROVE  IInv'
<1>1. /\ quit /\ result' = IF first_error = "none" THEN "ok" ELSE first_error
      /\ UNCHANGED <<core, joined, first_error, quit, sender, hpc, jobs, wake, waking>>
  BY DEF Return, coreVars, helperVars
<1>2. TypeInv' /\ KeptInv'
  BY <1>1 DEF IInv, TypeInv, KeptInv, Joined
<1>3. ReturnInv'
  BY <1>1 DEF IInv, ReturnInv
<1>4. WakeNotLost'
  BY <1>1 DEF IInv, WakeNotLost, joinVars
<1>5. QED BY <1>2, <1>3, <1>4 DEF IInv

-----------------------------------------------------------------------------
(* The other threads.                                                      *)

\* A turn of the helper leaves no job behind, and the thread goes back to poll
\* only from a turn that found the sender alive.
LEMMA HelperKeeps ==
    ASSUME IInv, HelperStep
    PROVE  IInv'
<1>1. /\ UNCHANGED joinVars /\ core' = core /\ waking' = waking /\ sender' = sender
      /\ (hpc' = "poll" => jobs' = <<>> /\ sender)
  BY DEF HelperStep, HelperNext, Rest, coreVars, Poll, DrainWake, Stop, Answer, Receive
<1>2. quit' = quit /\ (quit => ~sender)
  BY <1>1 DEF joinVars, IInv, ReturnInv
<1>3. WakeNotLost'
  BY <1>1, <1>2 DEF WakeNotLost
<1>4. QED BY <1>1, <1>3, RunKeeps

\* Connects end, clients come, the acceptor deals, and the operator stops.
LEMMA OutsideKeeps ==
    ASSUME IInv,
           Network \/ AcceptorStep \/ AcceptorFails \/ StopAll \/ \E k \in Conns : Arrive(k)
    PROVE  IInv'
<1>1. UNCHANGED <<joinVars, core, waking, sender, hpc, jobs, wake>>
  <2>1. CASE Network
    BY <2>1 DEF Network, Expire, ConnectEnds, Rest, coreVars
  <2>2. CASE AcceptorStep
    BY <2>2 DEF AcceptorStep, AcceptorPolls, LeaveAccepts, Deal, coreVars, helperVars
  <2>3. CASE AcceptorFails \/ StopAll
    BY <2>3 DEF AcceptorFails, StopAll, coreVars, helperVars
  <2>4. CASE \E k \in Conns : Arrive(k)
    BY <2>4 DEF Arrive, coreVars, helperVars
  <2>5. QED BY <2>1, <2>2, <2>3, <2>4
<1>2. WakeNotLost'
  BY <1>1 DEF IInv, WakeNotLost, joinVars
<1>3. QED BY <1>1, <1>2, RunKeeps

\* A core serves: it takes connections, reads notes and goes round its loop.
LEMMA ServeKeeps ==
    ASSUME IInv, NEW c \in Cores,
           \/ OnIntake(c) \/ OnIntakeGone(c) \/ OnNotify(c) \/ GoRound(c)
           \/ \E k \in Conns : Accept(c, k) \/ ConnEnds(c, k)
    PROVE  IInv'
<1>1. UNCHANGED <<joinVars, core, waking, sender, hpc, jobs, wake>>
  BY DEF OnIntake, OnIntakeGone, OnNotify, ReadNotes, GoRound, Accept, ConnEnds, coreVars, helperVars
<1>2. WakeNotLost'
  BY <1>1 DEF IInv, WakeNotLost, joinVars
<1>3. QED BY <1>1, <1>2, RunKeeps

\* A core drains, ends or fails.
LEMMA EndKeeps ==
    ASSUME IInv, NEW c \in Cores,
           \/ BeginDrain(c) \/ CoreFails(c) \/ CoreQuits(c)
           \/ \E how \in Ended : CoreEnds(c, how)
    PROVE  IInv'
<1>1. UNCHANGED <<joinVars, waking, sender, hpc, jobs, wake>>
  BY DEF BeginDrain, CoreFails, CoreQuits, CoreEnds, Teardown, coreVars, helperVars
<1>2. \E o \in Outcomes : core[c] \notin Ended /\ core' = [core EXCEPT ![c] = o]
  BY DEF BeginDrain, CoreFails, CoreQuits, CoreEnds, Teardown, Live, Outcomes, Ended
<1>3. WakeNotLost'
  BY <1>1 DEF IInv, WakeNotLost, joinVars
<1>4. QED BY <1>1, <1>2, <1>3, RunKeeps

\* The two halves of watch_connect: a core is waking the helper from the moment
\* its job is in the channel until the byte is in the pipe.
LEMMA DialKeeps ==
    ASSUME IInv, NEW c \in Cores, DialWakes(c) \/ \E s \in Socks : Dial(c, s)
    PROVE  IInv'
<1>1. UNCHANGED <<joinVars, core, sender>>
  BY DEF Dial, SendJob, DialWakes, SendWake
<1>2. /\ wake' = TRUE \/ c \in waking'
      /\ wake' = TRUE \/ UNCHANGED <<hpc, wake>>
  BY DEF Dial, SendJob, DialWakes, SendWake
<1>3. WakeNotLost'
  BY <1>1, <1>2 DEF IInv, WakeNotLost, joinVars
<1>4. QED BY <1>1, <1>3, RunKeeps

-----------------------------------------------------------------------------
(* The specification.                                                      *)

\* The engine starts in the invariant.
LEMMA InitIInv ==
    ASSUME Init
    PROVE  IInv
<1> USE HelperAssumption
<1>1. TypeInv
  <2>1. core \in [Cores -> Outcomes] /\ joined \in 0 .. NCores /\ first_error = "none"
    BY DEF Init, Outcomes
  <2>2. sender = TRUE /\ quit = FALSE
    BY DEF Init, HelperInit
  <2>3. QED BY <2>1, <2>2 DEF TypeInv
<1>2. Joined = {}
  BY DEF Init, Joined, Cores
<1>3. KeptInv /\ ReturnInv
  BY <1>2 DEF Init, HelperInit, KeptInv, ReturnInv
<1>4. WakeNotLost
  BY DEF Init, HelperInit, WakeNotLost
<1>5. QED BY <1>1, <1>3, <1>4 DEF IInv

\* Every step keeps it.
LEMMA NextKeeps ==
    ASSUME IInv, [Next]_vars
    PROVE  IInv'
<1>1. CASE HelperStep \/ Network \/ AcceptorStep \/ StopAll \/ AcceptorFails
           \/ \E k \in Conns : Arrive(k)
  BY <1>1, HelperKeeps, OutsideKeeps
<1>2. CASE Ending
  BY <1>2, JoinKeeps, DropSenderKeeps, DropWakesKeeps, ReturnKeeps DEF Ending
<1>3. CASE \E c \in Cores : CoreStep(c) \/ CoreFails(c) \/ CoreQuits(c)
  BY <1>3, ServeKeeps, EndKeeps, DialKeeps DEF CoreStep
<1>4. CASE \/ \E c \in Cores, s \in Socks : Dial(c, s)
           \/ \E c \in Cores, k \in Conns : ConnEnds(c, k)
  BY <1>4, DialKeeps, ServeKeeps
<1>5. CASE UNCHANGED vars
  <2>1. UNCHANGED <<joinVars, core, waking, sender, hpc, jobs, wake>>
    BY <1>5 DEF vars, coreVars, helperVars
  <2>2. WakeNotLost'
    BY <2>1 DEF IInv, WakeNotLost, joinVars
  <2>3. QED BY <2>1, <2>2, RunKeeps
<1>6. QED BY <1>1, <1>2, <1>3, <1>4, <1>5 DEF Next

\* The invariant holds from the start of Engine::run to its return.
THEOREM Inductive == Spec => []IInv
<1>1. Init => IInv
  BY InitIInv
<1>2. IInv /\ [Next]_vars => IInv'
  BY NextKeeps
<1>3. QED BY <1>1, <1>2, PTL DEF Spec

\* watch_connect sends the job before the wake byte, and the helper drains the
\* byte before it receives: in no order of the cores' steps and the helper's
\* does a job wait in the channel while the helper sleeps, and Helper::drop,
\* which gives up the sender before its byte, never waits for a thread that has
\* slept through it.
THEOREM Woken == Spec => []WakeNotLost
<1>1. IInv => WakeNotLost
  BY DEF IInv
<1>2. QED BY <1>1, Inductive, PTL

\* What Engine::run returns is the worst of what its cores did, in whatever
\* order they ended and were joined.
THEOREM Reported == Spec => []ResultHonest
<1>1. IInv => ResultHonest
  <2> SUFFICES ASSUME IInv, result # "none" PROVE ResultHonest
    BY DEF ResultHonest
  <2> USE HelperAssumption
  <2>1. Joined = Cores
    BY DEF IInv, ReturnInv, Joined, Cores
  <2>2. first_error \in {"none", "timedout", "failed"}
    BY DEF IInv, TypeInv
  <2>3. /\ first_error = "failed" <=> "failed" \in {core[c] : c \in Cores}
        /\ first_error = "timedout" <=> /\ "timedout" \in {core[c] : c \in Cores}
                                        /\ "failed" \notin {core[c] : c \in Cores}
    BY <2>1 DEF IInv, KeptInv
  <2>4. result = IF first_error = "none" THEN "ok" ELSE first_error
    BY DEF IInv, ReturnInv
  <2>5. QED BY <2>2, <2>3, <2>4 DEF ResultHonest
<1>2. QED BY <1>1, Inductive, PTL
=============================================================================
