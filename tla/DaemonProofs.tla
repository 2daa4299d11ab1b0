---------------------------- MODULE DaemonProofs ----------------------------
(***************************************************************************)
(* What Daemon guarantees for every command line and environment.          *)
(*                                                                         *)
(* The invariant reads the state off the step the main task is at: what    *)
(* has been bound and started before it, what has ended, and how far the   *)
(* two engines have been told to stop.                                     *)
(***************************************************************************)
EXTENDS Daemon, SequenceTheorems, TLAPS

\* The list of steps the arguments and the host choose.
Mode ==
    IF args.static THEN IF Uring THEN UringMode ELSE DevMode
    ELSE IF Uring THEN KubernetesUring ELSE Kubernetes

Step == Head(todo)

\* The steps up to the listeners, then up to the data plane, and after it.
PreBind ==
    {"select", "config", "listener", "webhook", "client", "lane", "bind"}
        \cup {s \in {"token"} : ~Uring}
PreServe ==
    {"record", "admin", "open", "ready", "controller", "applier", "mirror", "serve"}
        \cup {s \in {"token"} : Uring}
PostJoin == {"look", "abort", "stop_lane", "join_lane", "close_admin", "finish"}

\* The main task walks its list, which the arguments allow.
WalkInv ==
    \/ todo = <<"select">>
    \/ /\ ~args.error /\ ~args.help
       /\ \E k \in 1..Len(Mode) : todo = SubSeq(Mode, k, Len(Mode))

EngineState == {"off", "bound", "running", "draining", "panicked"} \cup Over

TypeInv ==
    /\ plane \in EngineState /\ lane \in EngineState
    /\ told \subseteq {"plane", "lane"}
    /\ elapsed \in Nat /\ since \in [{"plane", "lane", "stop"} -> Nat]
    /\ sent \in Nat /\ seen \in Nat /\ seen <= sent /\ wire \in Nat
    /\ ready \in BOOLEAN /\ engine_ready \in BOOLEAN
    /\ stopped \in BOOLEAN /\ frozen \in BOOLEAN
    /\ code \in {"none", "zero", "nonzero"}

\* A setting that conflicts with another never gets past Args::parse.
ArgsInv == ~args.error /\ ~args.help => ~Conflict(args)

\* How far the data plane is.
PlaneInv ==
    /\ Step \in PreBind => plane = "off" /\ admin = "off"
    /\ Step \in PreServe => plane = "bound"
    /\ Step = "join" => plane \notin {"off", "bound"}
    /\ Step \in PostJoin => plane \in Over
    /\ Step \notin PreBind => Listeners \subseteq bound

\* The second engine.
LaneInv ==
    /\ lane # "off" => Uring
    /\ Uring /\ Step \in {"close_admin", "finish"} => lane \in Over \cup {"off"}

\* Who has been told to stop, and for how long they have drained.
ToldInv ==
    /\ told # {} => plane \notin {"off", "bound"}
    /\ "plane" \in told => "lane" \in told
    /\ lane = "draining" => "lane" \in told
    /\ since["stop"] <= elapsed
    /\ plane = "draining" => since["plane"] <= elapsed
    /\ lane = "draining" => since["lane"] <= elapsed
    /\ "plane" \in told =>
          /\ elapsed <= since["stop"] + 1
          /\ elapsed = since["stop"] + 1 =>
                /\ plane # "running" /\ lane # "running"
                /\ plane = "draining" => since["plane"] <= since["stop"]
                /\ lane = "draining" => since["lane"] <= since["stop"]

\* The control plane, and what the main task has seen of it.
ControlInv ==
    /\ controller # "off" => ~args.static
    /\ Step \in PreBind \cup {"controller"} => controller = "off"
    /\ frozen => controller = "finished"
    /\ stopped => controller = "finished"
    /\ frozen /\ Step \in PostJoin \ {"look"} => stopped

\* A process that says it is ready has a configuration on the wire.
ReadyInv ==
    /\ ready => wire > 0
    /\ args.static /\ Step \notin PreBind \cup {"record"} => wire > 0
    /\ engine_ready => ready

IInv ==
    /\ WalkInv
    /\ TypeInv
    /\ ArgsInv
    /\ PlaneInv
    /\ LaneInv
    /\ ToldInv
    /\ ControlInv
    /\ ReadyInv
    /\ ExitTruthful
    /\ DrainsTogether

-----------------------------------------------------------------------------
(* The lists.                                                              *)

\* What follows what.
Succession(M) ==
    \A k \in 1..Len(M) :
        /\ M[k] # "select"
        /\ k = Len(M) <=> M[k] = "finish"
        /\ k < Len(M) =>
            /\ M[k] \in PreBind /\ M[k] # "bind" => M[k + 1] \in PreBind
            /\ M[k] = "bind" => M[k + 1] \in PreServe /\ (args.static => M[k + 1] = "record")
            /\ M[k] \in PreServe /\ M[k] # "serve" => M[k + 1] \in PreServe \ {"record"}
            /\ M[k] = "serve" => M[k + 1] = "join"
            /\ M[k] = "join" => M[k + 1] \in PostJoin /\ (~args.static => M[k + 1] = "look")
            /\ M[k] \in PostJoin => M[k + 1] \in PostJoin \ {"look"}
            /\ Uring /\ M[k + 1] \in {"close_admin", "finish"} =>
                  M[k] \in {"join_lane", "close_admin"}
            /\ M[k + 1] = "controller" => M[k] = "bind"

Labels == PreBind \cup PreServe \cup {"join"} \cup PostJoin

\* What only some lists have.
Reserved(M) ==
    \A k \in 1..Len(M) :
        /\ M[k] \in {"listener", "lane", "admin", "open", "mirror", "stop_lane", "join_lane", "close_admin"} => Uring
        /\ M[k] \in {"record", "ready"} => args.static
        /\ M[k] \in {"controller", "applier", "look"} => ~args.static

Ordered(M) == Succession(M) /\ Reserved(M) /\ M \in Seq(Labels) /\ M[1] \in PreBind /\ Len(M) >= 1

\* The order of dev_mode's steps.
LEMMA DevModeOrder ==
    ASSUME args.static, ~Uring
    PROVE  Ordered(DevMode)
<1>1. /\ DevMode[1] = "config" /\ DevMode[2] = "token" /\ DevMode[3] = "bind"
      /\ DevMode[4] = "record" /\ DevMode[5] = "ready" /\ DevMode[6] = "serve"
      /\ DevMode[7] = "join" /\ DevMode[8] = "finish"
      /\ Len(DevMode) = 8
  BY DEF DevMode
<1>2. DevMode \in Seq(Labels)
  BY DEF DevMode, Labels, PreBind, PreServe, PostJoin
<1>3. Reserved(DevMode)
  BY <1>1 DEF Reserved
<1>4. Succession(DevMode)
  BY <1>1 DEF Succession, PreBind, PreServe, PostJoin
<1>5. QED BY <1>1, <1>2, <1>3, <1>4 DEF Ordered, PreBind

\* The order of uring_mode's steps.
LEMMA UringModeOrder ==
    ASSUME args.static, Uring
    PROVE  Ordered(UringMode)
<1>1. /\ UringMode[1] = "config" /\ UringMode[2] = "listener" /\ UringMode[3] = "lane"
      /\ UringMode[4] = "bind" /\ UringMode[5] = "record" /\ UringMode[6] = "admin"
      /\ UringMode[7] = "token" /\ UringMode[8] = "open" /\ UringMode[9] = "ready"
      /\ UringMode[10] = "serve" /\ UringMode[11] = "join" /\ UringMode[12] = "stop_lane"
      /\ UringMode[13] = "join_lane" /\ UringMode[14] = "finish"
      /\ Len(UringMode) = 14
  BY DEF UringMode
<1>2. UringMode \in Seq(Labels)
  BY DEF UringMode, Labels, PreBind, PreServe, PostJoin
<1>3. Reserved(UringMode)
  BY <1>1 DEF Reserved
<1>4. Succession(UringMode)
  BY <1>1 DEF Succession, PreBind, PreServe, PostJoin
<1>5. QED BY <1>1, <1>2, <1>3, <1>4 DEF Ordered, PreBind

\* The order of kubernetes::run's steps.
LEMMA KubernetesOrder ==
    ASSUME ~args.static, ~Uring
    PROVE  Ordered(Kubernetes)
<1>1. /\ Kubernetes[1] = "webhook" /\ Kubernetes[2] = "client" /\ Kubernetes[3] = "token"
      /\ Kubernetes[4] = "bind" /\ Kubernetes[5] = "controller" /\ Kubernetes[6] = "applier"
      /\ Kubernetes[7] = "serve" /\ Kubernetes[8] = "join" /\ Kubernetes[9] = "look"
      /\ Kubernetes[10] = "abort" /\ Kubernetes[11] = "finish"
      /\ Len(Kubernetes) = 11
  BY DEF Kubernetes
<1>2. Kubernetes \in Seq(Labels)
  BY DEF Kubernetes, Labels, PreBind, PreServe, PostJoin
<1>3. Reserved(Kubernetes)
  BY <1>1 DEF Reserved
<1>4. Succession(Kubernetes)
  BY <1>1 DEF Succession, PreBind, PreServe, PostJoin
<1>5. QED BY <1>1, <1>2, <1>3, <1>4 DEF Ordered, PreBind

\* The order of kubernetes::run_uring's steps.
LEMMA KubernetesUringOrder ==
    ASSUME ~args.static, Uring
    PROVE  Ordered(KubernetesUring)
<1>1. /\ KubernetesUring[1] = "webhook" /\ KubernetesUring[2] = "client" /\ KubernetesUring[3] = "lane"
      /\ KubernetesUring[4] = "bind" /\ KubernetesUring[5] = "controller" /\ KubernetesUring[6] = "applier"
      /\ KubernetesUring[7] = "mirror" /\ KubernetesUring[8] = "admin" /\ KubernetesUring[9] = "token"
      /\ KubernetesUring[10] = "open" /\ KubernetesUring[11] = "serve" /\ KubernetesUring[12] = "join"
      /\ KubernetesUring[13] = "look" /\ KubernetesUring[14] = "abort" /\ KubernetesUring[15] = "stop_lane"
      /\ KubernetesUring[16] = "join_lane" /\ KubernetesUring[17] = "close_admin" /\ KubernetesUring[18] = "finish"
      /\ Len(KubernetesUring) = 18
  BY DEF KubernetesUring
<1>2. KubernetesUring \in Seq(Labels)
  BY DEF KubernetesUring, Labels, PreBind, PreServe, PostJoin
<1>3. Reserved(KubernetesUring)
  BY <1>1 DEF Reserved
<1>4. Succession(KubernetesUring)
  BY <1>1 DEF Succession, PreBind, PreServe, PostJoin
<1>5. QED BY <1>1, <1>2, <1>3, <1>4 DEF Ordered, PreBind

\* The list the arguments choose is in order.
LEMMA ModeOrder == Ordered(Mode)
BY DevModeOrder, UringModeOrder, KubernetesOrder, KubernetesUringOrder DEF Mode

\* The phases of the walk are apart.
LEMMA Apart ==
    /\ \A s \in PreBind : s \notin PreServe /\ s # "join" /\ s \notin PostJoin
    /\ \A s \in PreServe : s # "join" /\ s \notin PostJoin
    /\ "join" \notin PostJoin
BY DEF PreBind, PreServe, PostJoin

\* What the arguments and the host settle stays settled.
LEMMA Settled ==
    ASSUME UNCHANGED startVars
    PROVE  /\ args' = args /\ host' = host /\ Mode' = Mode /\ Listeners' = Listeners
           /\ PreBind' = PreBind /\ PreServe' = PreServe /\ Uring' = Uring /\ Https' = Https
<1>1. args' = args /\ host' = host
  BY DEF startVars
<1>2. Uring' = Uring /\ Https' = Https
  BY <1>1 DEF Uring, Selected, Https
<1>3. QED BY <1>1, <1>2 DEF Mode, Listeners, PreBind, PreServe

\* Where the main task is.
LEMMA Located ==
    ASSUME WalkInv
    PROVE  /\ Step \in PreBind \cup PreServe \cup {"join"} \cup PostJoin
           /\ Step = "select" => todo = <<"select">>
           /\ Step # "select" => ~args.error /\ ~args.help
           /\ Step \in {"listener", "lane", "admin", "open", "mirror", "stop_lane", "join_lane", "close_admin"} => Uring
           /\ Step \in {"record", "ready"} => args.static
           /\ Step \in {"controller", "applier", "look"} => ~args.static
<1>1. CASE todo = <<"select">>
  BY <1>1 DEF Step, PreBind
<1>2. CASE todo # <<"select">>
  <2>1. ~args.error /\ ~args.help
    BY <1>2 DEF WalkInv
  <2>2. PICK k \in 1..Len(Mode) : todo = SubSeq(Mode, k, Len(Mode))
    BY <1>2 DEF WalkInv
  <2> DEFINE M == Mode
  <2>3. M \in Seq(Labels) /\ Succession(M) /\ Reserved(M)
    BY ModeOrder DEF Ordered
  <2> HIDE DEF M
  <2>4. Len(M) \in Nat /\ k \in 1..Len(M) /\ todo = SubSeq(M, k, Len(M))
    BY <2>2, <2>3, LenProperties DEF M
  <2>5. Step = M[k] /\ M[k] \in Labels
    BY <2>3, <2>4, HeadTailOfSubSeq, ElementOfSeq DEF Step
  <2>6. QED BY <2>1, <2>3, <2>4, <2>5 DEF Labels, Succession, Reserved
<1>3. QED BY <1>1, <1>2

\* How the phases follow each other.
Walked ==
    /\ Step \in PreBind /\ Step # "bind" => Step' \in PreBind
    /\ Step = "bind" => Step' \in PreServe /\ (args.static => Step' = "record")
    /\ Step \in PreServe /\ Step # "serve" => Step' \in PreServe \ {"record"}
    /\ Step = "serve" => Step' = "join"
    /\ Step = "join" => Step' \in PostJoin /\ (~args.static => Step' = "look")
    /\ Step \in PostJoin => Step' \in PostJoin \ {"look"}
    /\ Uring /\ Step' \in {"close_admin", "finish"} => Step \in {"join_lane", "close_admin"}
    /\ Step' = "controller" => Step = "bind"

\* The main task goes on to the next step of its list.
LEMMA Walks ==
    ASSUME WalkInv, Done, Step \notin {"select", "finish"}, UNCHANGED startVars
    PROVE  WalkInv' /\ Walked
<1>1. ~args.error /\ ~args.help
  BY Located
<1>2. PICK k \in 1..Len(Mode) : todo = SubSeq(Mode, k, Len(Mode))
  BY DEF WalkInv, Step
<1> DEFINE M == Mode
<1>3. M \in Seq(Labels) /\ Succession(M) /\ Mode' = M
  BY ModeOrder, Settled DEF Ordered
<1> HIDE DEF M
<1>4. Len(M) \in Nat /\ k \in 1..Len(M) /\ todo = SubSeq(M, k, Len(M))
  BY <1>2, <1>3, LenProperties DEF M
<1>5. Step = M[k] /\ Tail(todo) = SubSeq(M, k + 1, Len(M))
  BY <1>3, <1>4, HeadTailOfSubSeq DEF Step
<1>6. k < Len(M) /\ k + 1 \in 1..Len(M)
  BY <1>3, <1>4, <1>5 DEF Succession
<1>7. Step' = M[k + 1] /\ todo' = SubSeq(M, k + 1, Len(M))
  <2>1. todo' = SubSeq(M, k + 1, Len(M))
    BY <1>5 DEF Done
  <2>2. QED BY <1>3, <1>4, <1>6, <2>1, HeadTailOfSubSeq DEF Step
<1>8. WalkInv'
  BY <1>1, <1>3, <1>6, <1>7, Settled DEF WalkInv
<1>9. Walked
  BY <1>3, <1>4, <1>5, <1>6, <1>7 DEF Walked, Succession
<1>10. QED BY <1>8, <1>9

-----------------------------------------------------------------------------
(* The steps of the main task.                                             *)

\* A step that is done keeps the invariant if its parts are kept.
LEMMA GoesOn ==
    ASSUME IInv, code = "none", Done, Step \notin {"select", "finish"}, UNCHANGED <<startVars, code>>,
           TypeInv', PlaneInv', LaneInv', ToldInv', ControlInv', ReadyInv'
    PROVE  IInv'
<1>1. WalkInv'
  BY Walks DEF IInv
<1>2. ArgsInv'
  BY Settled DEF IInv, ArgsInv
<1>3. ExitTruthful' /\ DrainsTogether'
  BY DEF ExitTruthful, DrainsTogether, ToldInv
<1>4. QED BY <1>1, <1>2, <1>3 DEF IInv

\* A step that only reads, or starts something nothing here depends on.
LEMMA QuietKeeps ==
    ASSUME IInv, code = "none", Done,
           Step \in (PreBind \cup PreServe) \ {"select", "bind", "record", "serve"},
           UNCHANGED <<startVars, planeVars, signal, down, stopped, code>>,
           UNCHANGED <<sent, seen, wire, frozen, engine_ready>>,
           ready' = ready,
           controller' = controller \/ (Step = "controller" /\ controller' = "running"),
           admin' = admin \/ Step \in PreServe
    PROVE  IInv'
<1>1. Walked
  BY Walks, Apart DEF IInv, PostJoin
<1>2. TypeInv'
  BY DEF IInv, TypeInv, planeVars
<1>3. PlaneInv'
  BY <1>1, Apart, Settled DEF IInv, PlaneInv, planeVars, Walked
<1>4. LaneInv'
  BY <1>1, Apart, Settled DEF IInv, LaneInv, planeVars, Walked, PostJoin
<1>5. ToldInv'
  BY DEF IInv, ToldInv, planeVars
<1>6. ControlInv'
  <2>1. args' = args /\ PreBind' = PreBind /\ "controller" \notin PreBind
    BY Settled DEF PreBind
  <2>2. Step' \notin PostJoin /\ Step' # "controller" /\ (Step' \in PreBind => Step \in PreBind)
    BY <1>1, Apart DEF Walked
  <2>3. Step = "controller" => ~args.static /\ controller = "off"
    BY Located DEF IInv, ControlInv
  <2>4. QED BY <2>1, <2>2, <2>3 DEF IInv, ControlInv
<1>7. ReadyInv'
  BY <1>1, Apart, Settled DEF IInv, ReadyInv, Walked
<1>8. QED
  BY <1>2, <1>3, <1>4, <1>5, <1>6, <1>7, GoesOn, Apart DEF PostJoin

\* Reading the configuration, the webhook, the client and the token.
LEMMA CheckKeeps ==
    ASSUME IInv, Check
    PROVE  IInv'
<1>1. /\ Done /\ code = "none"
      /\ Step \in {"config", "webhook", "client", "token", "listener"}
  BY DEF Check, Starts, At, Step
<1>2. Step \in (PreBind \cup PreServe) \ {"select", "bind", "record", "serve"}
  BY <1>1 DEF PreBind, PreServe
<1>3. QED BY <1>1, <1>2, QuietKeeps DEF Check, controlVars, taskVars

\* The controller, the applier and the copy of the readiness flag.
LEMMA SpawnKeeps ==
    ASSUME IInv, StartController \/ StartApplier \/ StartMirror
    PROVE  IInv'
<1>1. /\ Done /\ code = "none" /\ Step \in {"controller", "applier", "mirror"}
      /\ controller' = controller \/ (Step = "controller" /\ controller' = "running")
      /\ UNCHANGED <<startVars, planeVars, sent, seen, wire, ready, frozen, engine_ready,
                     admin, signal, down, stopped, code>>
  BY DEF StartController, StartApplier, StartMirror, Starts, At, Step, controlVars, taskVars
<1>2. Step \in (PreBind \cup PreServe) \ {"select", "bind", "record", "serve"}
  BY <1>1 DEF PreServe
<1>3. QED BY <1>1, <1>2, QuietKeeps

\* The admin listener beside the uring engine.
LEMMA AdminKeeps ==
    ASSUME IInv, BindAdmin \/ OpenAdmin
    PROVE  IInv'
<1>1. /\ Done /\ code = "none" /\ Step \in {"admin", "open"}
      /\ UNCHANGED <<startVars, planeVars, controller, sent, seen, wire, ready, frozen,
                     engine_ready, signal, down, stopped, code>>
  BY DEF BindAdmin, OpenAdmin, Starts, At, Step, controlVars
<1>2. Step \in PreServe \ {"select", "bind", "record", "serve"}
  BY <1>1 DEF PreServe
<1>3. QED BY <1>1, <1>2, QuietKeeps

\* The second engine is started.
LEMMA StartLaneKeeps ==
    ASSUME IInv, StartLane
    PROVE  IInv'
<1>1. /\ Done /\ code = "none" /\ Step = "lane" /\ Step \in PreBind
      /\ UNCHANGED <<startVars, bound, plane, told, elapsed, since, controller, sent, seen, wire,
                     ready, frozen, engine_ready, admin, stopped, code>>
      /\ lane' \in {"running", "off"}
  BY DEF StartLane, Starts, At, Step, PreBind, controlVars, taskVars
<1>2. Walked /\ Uring
  BY <1>1, Walks, Located DEF IInv
<1>3. TypeInv'
  BY <1>1 DEF IInv, TypeInv, EngineState
<1>4. PlaneInv'
  BY <1>1, <1>2, Apart, Settled DEF IInv, PlaneInv, Walked
<1>5. LaneInv'
  BY <1>1, <1>2, Settled DEF IInv, LaneInv, Walked
<1>6. ToldInv'
  BY <1>1 DEF IInv, ToldInv, PlaneInv, Over
<1>7. ControlInv'
  BY <1>1, <1>2, Apart, Settled DEF IInv, ControlInv, Walked
<1>8. ReadyInv'
  BY <1>1, <1>2, Settled DEF IInv, ReadyInv, Walked
<1>9. QED BY <1>1, <1>3, <1>4, <1>5, <1>6, <1>7, <1>8, GoesOn

\* The listeners are bound.
LEMMA BindKeeps ==
    ASSUME IInv, BindServer \/ BindEngine
    PROVE  IInv'
<1>1. /\ Done /\ code = "none" /\ Step = "bind" /\ Step \in PreBind
      /\ plane' = "bound" /\ Listeners \subseteq bound'
      /\ UNCHANGED <<startVars, lane, told, elapsed, since, controller, sent, seen, wire,
                     ready, frozen, engine_ready, admin, stopped, code>>
  BY DEF BindServer, BindEngine, Starts, At, Step, PreBind, controlVars, taskVars
<1>2. Walked
  BY <1>1, Walks DEF IInv
<1>3. plane = "off" /\ told = {}
  BY <1>1 DEF IInv, PlaneInv, ToldInv, TypeInv, Over
<1>4. TypeInv'
  BY <1>1 DEF IInv, TypeInv, EngineState
<1>5. PlaneInv'
  BY <1>1, <1>2, Apart, Settled DEF IInv, PlaneInv, Walked
<1>6. LaneInv'
  BY <1>1, <1>2, Settled DEF IInv, LaneInv, Walked
<1>7. ToldInv'
  BY <1>1, <1>3 DEF IInv, ToldInv
<1>8. ControlInv'
  BY <1>1, <1>2, Apart, Settled DEF IInv, ControlInv, Walked
<1>9. ReadyInv'
  BY <1>1, <1>2, Apart, Settled DEF IInv, ReadyInv, Walked
<1>10. QED BY <1>1, <1>4, <1>5, <1>6, <1>7, <1>8, <1>9, GoesOn

\* The generation of a file, and readiness once it is on the wire.
LEMMA RecordKeeps ==
    ASSUME IInv, Record \/ SetReady
    PROVE  IInv'
<1>1. /\ Done /\ code = "none" /\ Step \in {"record", "ready"} /\ Step \in PreServe
      /\ Step = "record" => wire' = 1 /\ UNCHANGED <<ready, engine_ready>>
      /\ Step = "ready" => ready' = TRUE /\ engine_ready' \in BOOLEAN /\ wire' = wire
      /\ UNCHANGED <<startVars, bound, plane, lane, told, elapsed, since, controller, sent, seen,
                     frozen, admin, stopped, code>>
  <2>1. Uring \in BOOLEAN
    BY DEF Uring, IsUring
  <2>2. "record" \in PreServe /\ "ready" \in PreServe
    BY DEF PreServe
  <2>3. CASE Record
    BY <2>2, <2>3 DEF Record, Starts, At, Step, planeVars, taskVars
  <2>4. CASE SetReady
    BY <2>1, <2>2, <2>4 DEF SetReady, Starts, At, Step, planeVars
  <2>5. QED BY <2>3, <2>4
<1>2. Walked
  BY <1>1, Walks DEF IInv
<1>3. args.static
  BY <1>1, Located DEF IInv
<1>4. TypeInv'
  <2>1. wire \in Nat /\ ready \in BOOLEAN /\ engine_ready \in BOOLEAN
    BY DEF IInv, TypeInv
  <2>2. CASE Step = "record"
    <3>1. wire' = 1 /\ ready' = ready /\ engine_ready' = engine_ready
      BY <1>1, <2>2
    <3>2. QED BY <1>1, <3>1 DEF IInv, TypeInv
  <2>3. CASE Step = "ready"
    <3>1. wire' = wire /\ ready' \in BOOLEAN /\ engine_ready' \in BOOLEAN
      BY <1>1, <2>3
    <3>2. QED BY <1>1, <3>1 DEF IInv, TypeInv
  <2>4. QED BY <1>1, <2>2, <2>3
<1>5. PlaneInv'
  BY <1>1, <1>2, Apart, Settled DEF IInv, PlaneInv, Walked
<1>6. LaneInv'
  BY <1>1, <1>2, Settled DEF IInv, LaneInv, Walked
<1>7. ToldInv'
  BY <1>1 DEF IInv, ToldInv
<1>8. ControlInv'
  BY <1>1, <1>2, Apart, Settled DEF IInv, ControlInv, Walked
<1>9. ReadyInv'
  <2>1. Step = "ready" => wire > 0
    BY <1>1, <1>3, Apart DEF IInv, ReadyInv
  <2>2. wire' > 0
    BY <1>1, <2>1 DEF IInv, ReadyInv
  <2>3. engine_ready' => ready'
    <3>1. engine_ready => ready
      BY DEF IInv, ReadyInv
    <3>2. CASE Step = "record"
      <4>1. ready' = ready /\ engine_ready' = engine_ready
        BY <1>1, <3>2
      <4>2. QED BY <3>1, <4>1, Zenon
    <3>3. CASE Step = "ready"
      BY <1>1, <3>3
    <3>4. QED BY <1>1, <3>2, <3>3
  <2>4. QED BY <2>2, <2>3 DEF ReadyInv
<1>10. QED BY <1>1, <1>4, <1>5, <1>6, <1>7, <1>8, <1>9, GoesOn

\* The data plane runs.
LEMMA ServeKeeps ==
    ASSUME IInv, Serve
    PROVE  IInv'
<1>1. /\ Done /\ code = "none" /\ Step = "serve" /\ Step \in PreServe /\ plane' = "running"
      /\ UNCHANGED <<startVars, bound, lane, told, elapsed, since, controller, sent, seen, wire,
                     ready, frozen, engine_ready, admin, stopped, code>>
  BY DEF Serve, Starts, At, Step, PreServe, controlVars, taskVars
<1>2. Walked
  BY <1>1, Walks DEF IInv
<1>3. plane = "bound" /\ told = {}
  BY <1>1 DEF IInv, PlaneInv, ToldInv, TypeInv, Over
<1>4. TypeInv'
  BY <1>1 DEF IInv, TypeInv, EngineState
<1>5. PlaneInv'
  BY <1>1, <1>2, Apart, Settled DEF IInv, PlaneInv, Walked
<1>6. LaneInv'
  BY <1>1, <1>2, Settled DEF IInv, LaneInv, Walked
<1>7. ToldInv'
  BY <1>1, <1>3 DEF IInv, ToldInv
<1>8. ControlInv'
  BY <1>1, <1>2, Apart, Settled DEF IInv, ControlInv, Walked
<1>9. ReadyInv'
  BY <1>1, <1>2, Apart, Settled DEF IInv, ReadyInv, Walked
<1>10. QED BY <1>1, <1>4, <1>5, <1>6, <1>7, <1>8, <1>9, GoesOn

\* From the end of the data plane on: nothing starts, and the control plane is
\* looked at before it is aborted.
LEMMA StopKeeps ==
    ASSUME IInv, code = "none", Done,
           Step \in {"join"} \cup (PostJoin \ {"finish"}), plane \in Over,
           Step = "join_lane" => lane \in Over \cup {"off"},
           UNCHANGED <<startVars, bound, plane, lane, elapsed, since, sent, seen, wire,
                       ready, frozen, engine_ready, code>>,
           told' = told \/ told' = told \cup {"lane"},
           controller' = controller \/ (controller' = Aborted(controller) /\ Step # "look"),
           stopped' \in BOOLEAN,
           Step # "look" => stopped' = stopped,
           Step = "look" => (stopped' <=> controller = "finished")
    PROVE  IInv'
<1>1. Walked /\ args' = args /\ Uring' = Uring /\ PreBind' = PreBind /\ PreServe' = PreServe
  BY Walks, Settled, Apart DEF IInv, PreBind, PostJoin
<1>2. /\ Step' \in PostJoin /\ Step' \notin PreBind /\ Step' \notin PreServe
      /\ Step \notin PreBind /\ Step \notin PreServe
  BY <1>1, Apart DEF Walked
<1>3. TypeInv'
  BY DEF IInv, TypeInv
<1>4. PlaneInv'
  BY <1>1, <1>2, Apart, Settled DEF IInv, PlaneInv
<1>5. LaneInv'
  <2>1. Uring /\ Step' \in {"close_admin", "finish"} => Step \in {"join_lane", "close_admin"}
    BY <1>1 DEF Walked
  <2>2. QED BY <1>1, <2>1 DEF IInv, LaneInv
<1>6. ToldInv'
  BY DEF IInv, ToldInv, Over
<1>7. ControlInv'
  <2>1. /\ controller' = "finished" <=> controller = "finished"
        /\ controller' # "off" => controller # "off"
    BY DEF Aborted
  <2>2. Step' # "controller"
    BY <1>2 DEF PostJoin
  <2>3. stopped' => controller = "finished"
    <3>1. stopped => controller = "finished"
      BY DEF IInv, ControlInv
    <3>2. QED BY <3>1, Zenon
  <2>4. frozen => controller = "finished" /\ ~args.static
    BY DEF IInv, ControlInv
  <2>5. frozen /\ Step' \in PostJoin \ {"look"} => stopped'
    <3>1. CASE Step = "look"
      BY <2>4, <3>1
    <3>2. CASE Step = "join"
      BY <1>1, <2>4, <3>2 DEF Walked
    <3>3. CASE Step \in PostJoin \ {"look"}
      <4>1. frozen => stopped
        BY <3>3 DEF IInv, ControlInv
      <4>2. stopped' = stopped
        BY <3>3
      <4>3. QED BY <4>1, <4>2, Zenon
    <3>4. QED BY <3>1, <3>2, <3>3
  <2>6. frozen' = frozen
    OBVIOUS
  <2>7. frozen' => controller' = "finished"
    BY <2>1, <2>4, <2>6
  <2>8. frozen' /\ Step' \in PostJoin \ {"look"} => stopped'
    BY <2>5, <2>6
  <2>9. controller' # "off" => ~args'.static
    BY <1>1, <2>1 DEF IInv, ControlInv
  <2>10. QED BY <1>1, <1>2, <2>1, <2>2, <2>3, <2>7, <2>8, <2>9 DEF ControlInv
<1>8. ReadyInv'
  <2>1. "record" \notin PostJoin /\ Step # "record"
    BY DEF PostJoin
  <2>2. ready' = ready /\ wire' = wire /\ engine_ready' = engine_ready
    OBVIOUS
  <2>3. ready => wire > 0
    BY DEF IInv, ReadyInv
  <2>4. engine_ready => ready
    BY DEF IInv, ReadyInv
  <2>5. args.static => wire > 0
    BY <1>2, <2>1 DEF IInv, ReadyInv
  <2>6. engine_ready' => ready'
    BY <2>2, <2>4
  <2>7. ready' => wire' > 0
    BY <2>2, <2>3
  <2>8. QED BY <1>1, <2>2, <2>5, <2>6, <2>7 DEF ReadyInv
<1>9. QED
  BY <1>3, <1>4, <1>5, <1>6, <1>7, <1>8, GoesOn DEF PostJoin

\* The data plane and the second engine are waited for, the second engine is
\* told, the tasks are aborted and the admin listener is closed.
LEMMA JoinsKeep ==
    ASSUME IInv, code' = code, JoinPlane \/ Abort \/ StopLane \/ JoinLane \/ CloseAdmin
    PROVE  IInv'
<1>1. /\ Done /\ code = "none"
      /\ Step \in {"join", "abort", "stop_lane", "join_lane", "close_admin"}
      /\ Step = "join" => plane \in Over
      /\ Step = "join_lane" => lane \in Over \cup {"off"}
      /\ UNCHANGED <<startVars, bound, plane, lane, elapsed, since, sent, seen, wire,
                     ready, frozen, engine_ready, stopped, code>>
      /\ told' = told \/ told' = told \cup {"lane"}
      /\ controller' = controller \/ controller' = Aborted(controller)
  <2>1. CASE JoinPlane
    <3>1. Done
      BY <2>1 DEF JoinPlane, At, Exit
    <3>2. plane \in Over
      BY <2>1 DEF JoinPlane, At, Exit
    <3>3. QED BY <2>1, <3>1, <3>2 DEF JoinPlane, At, Step, planeVars, controlVars, taskVars
  <2>2. CASE Abort
    BY <2>2 DEF Abort, At, Step, planeVars
  <2>3. CASE StopLane
    BY <2>3 DEF StopLane, At, Step, controlVars, taskVars
  <2>4. CASE JoinLane
    BY <2>4 DEF JoinLane, At, Step, planeVars, controlVars, taskVars
  <2>5. CASE CloseAdmin
    BY <2>5 DEF CloseAdmin, At, Step, planeVars, controlVars
  <2>6. QED BY <2>1, <2>2, <2>3, <2>4, <2>5
<1>2. Step \in {"join"} \cup (PostJoin \ {"finish"}) /\ plane \in Over
  BY <1>1 DEF IInv, PlaneInv, PostJoin
<1>3. stopped' \in BOOLEAN /\ stopped' = stopped
  BY <1>1 DEF IInv, TypeInv
<1>4. QED BY <1>1, <1>2, <1>3, StopKeeps

\* The main task looks whether the controller has ended.
LEMMA LookKeeps ==
    ASSUME IInv, Look
    PROVE  IInv'
<1>1. /\ Done /\ code = "none" /\ Step = "look"
      /\ UNCHANGED <<startVars, bound, plane, lane, elapsed, since, told, controller, sent, seen, wire,
                     ready, frozen, engine_ready, code>>
  BY DEF Look, At, Step, planeVars, controlVars, taskVars
<1>2. Step \in PostJoin \ {"finish"} /\ plane \in Over
  BY <1>1 DEF IInv, PlaneInv, PostJoin
<1>3. stopped' \in BOOLEAN /\ (stopped' <=> controller = "finished")
  BY DEF Look
<1>4. QED BY <1>1, <1>2, <1>3, StopKeeps

\* The process exits, and the code says why.
LEMMA ExitKeeps ==
    ASSUME IInv, todo' = todo, code' \in {"zero", "nonzero"},
           UNCHANGED <<startVars, planeVars, controlVars, taskVars, stopped>>,
           code' = "zero" => args.help \/ (plane \in {"ok", "timedout"} /\ ~frozen),
           code' = "nonzero" => plane \in {"off", "bound", "failed", "panicked"} \/ controller = "finished",
           plane \in Over => lane \in Over \cup {"off"}
    PROVE  IInv'
<1>1. /\ UNCHANGED <<bound, plane, lane, told, elapsed, since, controller, sent, seen, wire, ready,
                     frozen, engine_ready, admin, stopped>>
      /\ Step' = Step
  BY DEF planeVars, controlVars, taskVars, Step
<1>2. args' = args /\ Mode' = Mode /\ Listeners' = Listeners /\ Uring' = Uring
      /\ PreBind' = PreBind /\ PreServe' = PreServe
  BY Settled
<1>3. WalkInv' /\ ArgsInv'
  BY <1>2 DEF IInv, WalkInv, ArgsInv
<1>4. TypeInv'
  BY <1>1 DEF IInv, TypeInv
<1>5. PlaneInv' /\ LaneInv'
  BY <1>1, <1>2 DEF IInv, PlaneInv, LaneInv
<1>6. ToldInv'
  BY <1>1 DEF IInv, ToldInv
<1>7. ControlInv'
  BY <1>1, <1>2 DEF IInv, ControlInv
<1>8. ReadyInv'
  BY <1>1, <1>2 DEF IInv, ReadyInv
<1>9. ExitTruthful'
  BY <1>1, <1>2 DEF ExitTruthful
<1>10. DrainsTogether'
  BY <1>1 DEF IInv, DrainsTogether
<1>11. QED
  BY <1>3, <1>4, <1>5, <1>6, <1>7, <1>8, <1>9, <1>10 DEF IInv

\* The exit code of a process that has served.
LEMMA FinishKeeps ==
    ASSUME IInv, Finish
    PROVE  IInv'
<1>1. /\ Step = "finish" /\ todo' = todo
      /\ code' = IF plane = "failed" \/ stopped THEN "nonzero" ELSE "zero"
      /\ UNCHANGED <<startVars, planeVars, controlVars, taskVars, stopped>>
  BY DEF Finish, At, Exit, Step
<1>2. Step \in PostJoin \ {"look"} /\ plane \in Over
  BY <1>1 DEF IInv, PlaneInv, PostJoin
<1>3. /\ stopped => controller = "finished"
      /\ frozen => stopped
  BY <1>2 DEF IInv, ControlInv
<1>4. lane \in Over \cup {"off"}
  BY <1>1 DEF IInv, LaneInv
<1>5. CASE plane = "failed" \/ stopped
  BY <1>1, <1>3, <1>4, <1>5, ExitKeeps
<1>6. CASE ~(plane = "failed" \/ stopped)
  <2>1. plane \in {"ok", "timedout"} /\ ~frozen /\ code' = "zero"
    BY <1>1, <1>2, <1>3, <1>6 DEF Over
  <2>2. QED BY <1>1, <1>4, <2>1, ExitKeeps
<1>7. QED BY <1>5, <1>6

\* Engine::run panicked, and its JoinError is returned.
LEMMA PanickedKeeps ==
    ASSUME IInv, JoinPlane, code' # code
    PROVE  IInv'
<1>1. /\ plane = "panicked" /\ todo' = todo /\ code' = "nonzero"
      /\ UNCHANGED <<startVars, planeVars, controlVars, taskVars, stopped>>
  BY DEF JoinPlane, Exit
<1>2. plane \notin Over
  BY <1>1 DEF Over
<1>3. QED BY <1>1, <1>2, ExitKeeps

\* A step of the start-up returns an error.
LEMMA RefuseKeeps ==
    ASSUME IInv, Refuse
    PROVE  IInv'
<1>1. /\ todo' = todo /\ code' = "nonzero"
      /\ UNCHANGED <<startVars, planeVars, controlVars, taskVars, stopped>>
      /\ Step \in {"config", "webhook", "client", "token", "bind", "admin", "listener",
                    "lane", "controller"}
  BY DEF Refuse, Exit, MayRefuse, MustRefuse, Step
<1>2. Step \in PreBind \cup PreServe
  BY <1>1 DEF PreBind, PreServe
<1>3. plane \in {"off", "bound"}
  BY <1>2 DEF IInv, PlaneInv
<1>4. plane \notin Over
  BY <1>3 DEF Over
<1>5. QED BY <1>1, <1>3, <1>4, ExitKeeps

\* The arguments are refused, answered, or choose a list of steps.
LEMMA SelectKeeps ==
    ASSUME IInv, Select
    PROVE  IInv'
<1>1. /\ code = "none" /\ Step = "select" /\ Step \in PreBind
      /\ UNCHANGED <<startVars, planeVars, controlVars, taskVars, stopped>>
  BY DEF Select, At, Step, PreBind
<1>2. plane = "off" /\ plane \notin Over
  BY <1>1 DEF IInv, PlaneInv, Over
<1>3. CASE Exit("nonzero")
  BY <1>1, <1>2, <1>3, ExitKeeps DEF Exit
<1>4. CASE args.help /\ Exit("zero")
  BY <1>1, <1>2, <1>4, ExitKeeps DEF Exit
<1>5. CASE ~args.error /\ ~args.help /\ todo' = Mode /\ code' = code
  <2>1. /\ UNCHANGED <<bound, plane, lane, told, elapsed, since, controller, sent, seen, wire, ready,
                       frozen, engine_ready, admin, stopped, code>>
    BY <1>1, <1>5 DEF planeVars, controlVars, taskVars
  <2>2. args' = args /\ Mode' = Mode /\ Listeners' = Listeners /\ Uring' = Uring
        /\ PreBind' = PreBind /\ PreServe' = PreServe
    BY <1>1, Settled
  <2> DEFINE M == Mode
  <2>3. M \in Seq(Labels) /\ M[1] \in PreBind /\ Len(M) >= 1
    BY ModeOrder DEF Ordered
  <2>4. Step' = M[1]
    BY <1>5 DEF Step
  <2>5. 1 \in 1..Len(M) /\ SubSeq(M, 1, Len(M)) = M
    <3> HIDE DEF M
    <3>1. QED BY <2>3, LenProperties, SubSeqFull
  <2>6. WalkInv' /\ ArgsInv'
    BY <1>5, <2>2, <2>5 DEF WalkInv, IInv, ArgsInv
  <2>7. Step' \in PreBind /\ Step' \notin PreServe /\ Step' # "join" /\ Step' \notin PostJoin
    BY <2>3, <2>4, Apart
  <2> HIDE DEF M
  <2>8. TypeInv'
    BY <2>1 DEF IInv, TypeInv
  <2>9. PlaneInv'
    BY <1>1, <2>1, <2>2, <2>7 DEF IInv, PlaneInv
  <2>10. LaneInv'
    BY <2>1, <2>2, <2>7 DEF IInv, LaneInv, PostJoin
  <2>11. ToldInv'
    BY <2>1 DEF IInv, ToldInv
  <2>12. ControlInv'
    BY <1>1, <2>1, <2>2, <2>7 DEF IInv, ControlInv
  <2>13. ReadyInv'
    BY <2>1, <2>2, <2>7 DEF IInv, ReadyInv
  <2>14. ExitTruthful' /\ DrainsTogether'
    BY <1>1, <2>1 DEF IInv, ExitTruthful, DrainsTogether
  <2>15. QED
    BY <2>6, <2>8, <2>9, <2>10, <2>11, <2>12, <2>13, <2>14 DEF IInv
<1>6. QED BY <1>3, <1>4, <1>5 DEF Select, Mode

-----------------------------------------------------------------------------
(* The tasks beside it.                                                    *)

\* A step of another task leaves the main task where it is.
LEMMA BesideKeeps ==
    ASSUME IInv, code = "none", UNCHANGED <<startVars, todo, code>>,
           TypeInv', PlaneInv', LaneInv', ToldInv', ControlInv', ReadyInv'
    PROVE  IInv'
<1>1. args' = args /\ Mode' = Mode
  BY Settled
<1>2. WalkInv' /\ ArgsInv'
  BY <1>1 DEF IInv, WalkInv, ArgsInv
<1>3. ExitTruthful' /\ DrainsTogether'
  BY DEF ExitTruthful, DrainsTogether, ToldInv
<1>4. QED BY <1>2, <1>3 DEF IInv

\* The control plane's steps leave the engines alone.
LEMMA ControlKeeps ==
    ASSUME IInv, code = "none", UNCHANGED <<startVars, todo, planeVars, stopped, code>>,
           admin' = admin \/ admin # "off",
           TypeInv', ControlInv', ReadyInv'
    PROVE  IInv'
<1>1. /\ UNCHANGED <<bound, plane, lane, told, elapsed, since>>
      /\ Step' = Step
  BY DEF planeVars, Step
<1>2. args' = args /\ Listeners' = Listeners /\ Uring' = Uring
      /\ PreBind' = PreBind /\ PreServe' = PreServe
  BY Settled
<1>3. PlaneInv' /\ LaneInv'
  BY <1>1, <1>2 DEF IInv, PlaneInv, LaneInv
<1>4. ToldInv'
  BY <1>1 DEF IInv, ToldInv
<1>5. QED BY <1>3, <1>4, BesideKeeps

\* A generation is compiled.
LEMMA CompileKeeps ==
    ASSUME IInv, Compile
    PROVE  IInv'
<1>1. /\ code = "none" /\ sent' = sent + 1 /\ Step' = Step
      /\ UNCHANGED <<startVars, todo, planeVars, controller, seen, wire, ready,
                     frozen, engine_ready, admin, stopped, code>>
  BY DEF Compile, Up, taskVars, Step
<1>2. TypeInv'
  BY <1>1 DEF IInv, TypeInv, planeVars
<1>3. ControlInv' /\ ReadyInv'
  BY <1>1, Settled DEF IInv, ControlInv, ReadyInv
<1>4. QED BY <1>1, <1>2, <1>3, ControlKeeps

\* The controller's task ends.
LEMMA ControllerEndsKeeps ==
    ASSUME IInv, ControllerEnds
    PROVE  IInv'
<1>1. /\ code = "none" /\ controller = "running" /\ controller' = "finished" /\ Step' = Step
      /\ UNCHANGED <<startVars, todo, planeVars, sent, seen, wire, ready,
                     engine_ready, admin, stopped, code>>
      /\ frozen' \in BOOLEAN /\ (frozen' <=> plane \notin Over)
  BY DEF ControllerEnds, Up, taskVars, Step
<1>2. TypeInv'
  BY <1>1 DEF IInv, TypeInv, planeVars
<1>3. ControlInv'
  <2>1. frozen' => Step \notin PostJoin
    BY <1>1 DEF IInv, PlaneInv
  <2>2. QED BY <1>1, <2>1, Settled DEF IInv, ControlInv
<1>4. ReadyInv'
  BY <1>1, Settled DEF IInv, ReadyInv
<1>5. QED BY <1>1, <1>2, <1>3, <1>4, ControlKeeps

\* A generation is put on the wire.
LEMMA ApplyKeeps ==
    ASSUME IInv, Apply
    PROVE  IInv'
<1>1. /\ code = "none" /\ seen # sent /\ seen' = sent /\ wire' = sent /\ Step' = Step
      /\ UNCHANGED <<startVars, todo, planeVars, controller, sent, frozen, engine_ready,
                     admin, stopped, code>>
      /\ ready' \in BOOLEAN /\ (ready => ready')
  BY DEF Apply, Up, taskVars, Step
<1>2. sent \in Nat /\ sent > 0
  BY <1>1 DEF IInv, TypeInv
<1>3. TypeInv'
  BY <1>1, <1>2 DEF IInv, TypeInv, planeVars
<1>4. ControlInv'
  BY <1>1, Settled DEF IInv, ControlInv
<1>5. ReadyInv'
  BY <1>1, <1>2 DEF IInv, ReadyInv
<1>6. QED BY <1>1, <1>3, <1>4, ControlKeeps, <1>5

\* The readiness flag is copied for the engine.
LEMMA MirrorReadyKeeps ==
    ASSUME IInv, MirrorReady
    PROVE  IInv'
<1>1. /\ code = "none" /\ Step' = Step
      /\ UNCHANGED <<startVars, todo, planeVars, controlVars, admin, stopped, code>>
      /\ (engine_ready' = TRUE /\ ready) \/ engine_ready' = engine_ready
  BY DEF MirrorReady, Up, Step
<1>2. TypeInv'
  BY <1>1 DEF IInv, TypeInv, planeVars, controlVars
<1>3. ControlInv'
  BY <1>1, Settled DEF IInv, ControlInv, controlVars
<1>4. ReadyInv'
  <2>1. ready' = ready /\ wire' = wire
    BY <1>1 DEF controlVars
  <2>2. engine_ready' => ready'
    BY <1>1, <2>1 DEF IInv, ReadyInv
  <2>3. QED BY <1>1, <2>1, <2>2, Settled DEF IInv, ReadyInv
<1>5. QED BY <1>1, <1>2, <1>3, <1>4, ControlKeeps

\* The channels that carry the stop, and the admin listener that hears it.
LEMMA ChannelKeeps ==
    ASSUME IInv, ApplierEnds \/ Signal \/ RelaySignal \/ AdminEnds
    PROVE  IInv'
<1>1. /\ code = "none" /\ Step' = Step
      /\ UNCHANGED <<startVars, todo, planeVars, controller, sent, seen, wire, ready, frozen,
                     engine_ready, stopped, code>>
      /\ admin' = admin \/ admin # "off"
  BY DEF ApplierEnds, Signal, RelaySignal, AdminEnds, Up, controlVars, taskVars, Step
<1>2. TypeInv'
  BY <1>1 DEF IInv, TypeInv, planeVars
<1>3. ControlInv' /\ ReadyInv'
  BY <1>1, Settled DEF IInv, ControlInv, ReadyInv
<1>4. QED BY <1>1, <1>2, <1>3, ControlKeeps

\* The engines' steps leave the control plane alone.
LEMMA EngineKeeps ==
    ASSUME IInv, code = "none",
           UNCHANGED <<startVars, todo, bound, controlVars, taskVars, stopped, code>>,
           plane' \in EngineState, lane' \in EngineState, told' \subseteq {"plane", "lane"},
           elapsed' \in Nat, since' \in [{"plane", "lane", "stop"} -> Nat],
           PlaneInv', LaneInv', ToldInv'
    PROVE  IInv'
<1>1. /\ UNCHANGED <<controller, sent, seen, wire, ready, frozen, engine_ready>>
      /\ Step' = Step
  BY DEF controlVars, taskVars, Step
<1>2. TypeInv'
  BY <1>1 DEF IInv, TypeInv, EngineState
<1>3. ControlInv' /\ ReadyInv'
  BY <1>1, Settled DEF IInv, ControlInv, ReadyInv
<1>4. QED BY <1>2, <1>3, BesideKeeps

\* The stop reaches both engines.
LEMMA RelayStopKeeps ==
    ASSUME IInv, RelayStop
    PROVE  IInv'
<1>1. /\ code = "none" /\ Step' = Step /\ plane \notin {"off", "bound"}
      /\ told' = told \cup {"plane", "lane"} /\ since' = [since EXCEPT !["stop"] = elapsed]
      /\ UNCHANGED <<startVars, todo, bound, plane, lane, elapsed, controlVars, taskVars,
                     stopped, code, admin>>
  BY DEF RelayStop, Up, Step, taskVars
<1>2. PlaneInv' /\ LaneInv'
  BY <1>1, Settled DEF IInv, PlaneInv, LaneInv
<1>3. elapsed \in Nat /\ since \in [{"plane", "lane", "stop"} -> Nat]
  BY DEF IInv, TypeInv
<1>4. /\ since' \in [{"plane", "lane", "stop"} -> Nat]
      /\ since'["stop"] = elapsed /\ since'["plane"] = since["plane"] /\ since'["lane"] = since["lane"]
  BY <1>1, <1>3
<1>5. ToldInv'
  BY <1>1, <1>3, <1>4 DEF IInv, ToldInv
<1>6. QED BY <1>1, <1>2, <1>4, <1>5, EngineKeeps DEF IInv, TypeInv, EngineState

\* An engine starts to drain, is done, fails or panics.
LEMMA DrainKeeps ==
    ASSUME IInv, NEW l \in {"plane", "lane"},
           \/ Drain(l) \/ DrainEnds(l, "ok") \/ DrainEnds(l, "timedout") \/ Fails(l)
           \/ l = "plane" /\ (DrainUntold \/ Panics)
    PROVE  IInv'
<1>1. /\ code = "none" /\ Step' = Step
      /\ UNCHANGED <<startVars, todo, bound, told, elapsed, controlVars, taskVars,
                     stopped, code, admin>>
  BY DEF Drain, DrainUntold, BeginsDrain, DrainEnds, Fails, Panics, Up, Step, taskVars
<1>2. PICK s : /\ l = "plane" => plane \in {"running", "draining"} /\ plane' = s /\ lane' = lane
               /\ l = "lane" => lane \in {"running", "draining"} /\ lane' = s /\ plane' = plane
               /\ s \in {"draining", "panicked"} \cup Over
               /\ s = "panicked" => l = "plane"
               /\ s # "draining" => since' = since
               /\ s = "draining" => /\ l = "lane" => l \in told
                                    /\ since' = [since EXCEPT ![l] = elapsed]
                                    /\ l = "plane" => plane = "running"
                                    /\ l = "lane" => lane = "running"
  BY DEF Drain, DrainUntold, BeginsDrain, DrainEnds, Fails, Panics, State, Becomes, Over
<1>3. /\ plane' \in EngineState /\ lane' \in EngineState /\ told' \subseteq {"plane", "lane"}
      /\ elapsed' \in Nat /\ since' \in [{"plane", "lane", "stop"} -> Nat]
  BY <1>1, <1>2 DEF IInv, TypeInv, EngineState
<1>4. PlaneInv'
  BY <1>1, <1>2, Settled DEF IInv, PlaneInv, Over
<1>5. LaneInv'
  BY <1>1, <1>2, Settled DEF IInv, LaneInv, Over
<1>6. ToldInv'
  <2>1. elapsed \in Nat /\ since \in [{"plane", "lane", "stop"} -> Nat]
    BY DEF IInv, TypeInv
  <2>2. CASE s = "draining"
    <3>1. /\ since'[l] = elapsed /\ since'["stop"] = since["stop"]
          /\ \A m \in {"plane", "lane"} \ {l} : since'[m] = since[m]
      BY <1>2, <2>1, <2>2
    <3>2. "plane" \in told => elapsed # since["stop"] + 1
      BY <1>2, <2>2 DEF IInv, ToldInv
    <3>3. CASE l = "plane"
      BY <1>1, <1>2, <2>1, <2>2, <3>1, <3>2, <3>3 DEF IInv, ToldInv
    <3>4. CASE l = "lane"
      BY <1>1, <1>2, <2>1, <2>2, <3>1, <3>2, <3>4 DEF IInv, ToldInv
    <3>5. QED BY <3>3, <3>4
  <2>3. CASE s # "draining"
    BY <1>1, <1>2, <2>3 DEF IInv, ToldInv, Over
  <2>4. QED BY <2>2, <2>3
<1>7. QED BY <1>1, <1>3, <1>4, <1>5, <1>6, EngineKeeps

\* A grace period goes by: it is the first since the stop, and both engines drain
\* or are done.
LEMMA GraceKeeps ==
    ASSUME IInv, Grace
    PROVE  IInv'
<1>1. /\ code = "none" /\ Step' = Step /\ elapsed' = elapsed + 1
      /\ UNCHANGED <<startVars, todo, bound, plane, lane, told, since, controlVars, taskVars,
                     stopped, code, admin>>
      /\ plane = "draining" \/ lane = "draining"
      /\ plane = "draining" => since["plane"] = elapsed
      /\ lane = "draining" => since["lane"] = elapsed
      /\ "plane" \in told => plane # "running"
      /\ "lane" \in told => lane # "running"
  BY DEF Grace, Up, Step, taskVars, Draining, State
<1>2. /\ elapsed \in Nat /\ since["stop"] \in Nat /\ since["plane"] \in Nat /\ since["lane"] \in Nat
      /\ elapsed' \in Nat
  BY <1>1 DEF IInv, TypeInv
<1>3. PlaneInv' /\ LaneInv'
  BY <1>1, Settled DEF IInv, PlaneInv, LaneInv
<1>4. "plane" \in told => /\ "lane" \in told /\ elapsed <= since["stop"]
  BY <1>1, <1>2 DEF IInv, ToldInv
<1>5. ToldInv'
  BY <1>1, <1>2, <1>4 DEF IInv, ToldInv
<1>6. QED BY <1>1, <1>2, <1>3, <1>5, EngineKeeps DEF IInv, TypeInv, EngineState

-----------------------------------------------------------------------------
(* The specification.                                                      *)

\* Args::parse refuses settings that conflict, so the first state has none.
LEMMA ParseSettles ==
    ASSUME NEW env, NEW line
    PROVE  LET a == Parse(env, line) IN ~a.error /\ ~a.help => ~Conflict(a)
<1> DEFINE b == FoldLeft(Set, FromEnvironment(env), line)
<1>1. Rejected.error = TRUE
  BY DEF Rejected, Defaults
<1>2. Parse(env, line) = IF ~b.help /\ Conflict(b) THEN Rejected ELSE b
  BY DEF Parse
<1> HIDE DEF b
<1>3. QED BY <1>1, <1>2

\* The process starts in the invariant.
LEMMA InitIInv ==
    ASSUME Init
    PROVE  IInv
<1>1. Step = "select" /\ Step \in PreBind
  BY DEF Init, Step, PreBind
<1>2. WalkInv
  BY DEF Init, WalkInv
<1>3. TypeInv
  <2>1. [plane |-> 0, lane |-> 0, stop |-> 0] \in [{"plane", "lane", "stop"} -> Nat]
    OBVIOUS
  <2>2. since \in [{"plane", "lane", "stop"} -> Nat]
    BY <2>1 DEF Init
  <2>3. /\ ready \in BOOLEAN /\ engine_ready \in BOOLEAN
        /\ stopped \in BOOLEAN /\ frozen \in BOOLEAN
    BY DEF Init
  <2>4. /\ plane \in EngineState /\ lane \in EngineState
        /\ told \subseteq {"plane", "lane"} /\ code \in {"none", "zero", "nonzero"}
    BY DEF Init, EngineState
  <2>5. /\ elapsed \in Nat /\ sent \in Nat /\ seen \in Nat /\ seen <= sent /\ wire \in Nat
    BY DEF Init
  <2>6. QED BY <2>2, <2>3, <2>4, <2>5 DEF TypeInv
<1>4. ArgsInv
  BY ParseSettles DEF Init, ArgsInv
<1>5. PlaneInv
  BY <1>1, Apart DEF Init, PlaneInv
<1>6. LaneInv /\ ToldInv
  BY <1>1 DEF Init, LaneInv, ToldInv
<1>7. ControlInv /\ ReadyInv
  BY <1>1 DEF Init, ControlInv, ReadyInv
<1>8. ExitTruthful /\ DrainsTogether
  BY DEF Init, ExitTruthful, DrainsTogether
<1>9. QED BY <1>2, <1>3, <1>4, <1>5, <1>6, <1>7, <1>8 DEF IInv

\* A step that changes nothing.
LEMMA StutterKeeps ==
    ASSUME IInv, UNCHANGED vars
    PROVE  IInv'
<1>1. /\ UNCHANGED <<startVars, bound, plane, lane, told, elapsed, since, controller, sent, seen,
                     wire, ready, frozen, engine_ready, admin, stopped, code, todo>>
      /\ Step' = Step
  BY DEF vars, planeVars, controlVars, taskVars, Step
<1>2. /\ args' = args /\ Mode' = Mode /\ Listeners' = Listeners /\ Uring' = Uring
      /\ PreBind' = PreBind /\ PreServe' = PreServe
  BY <1>1, Settled
<1>3. WalkInv' /\ ArgsInv'
  BY <1>1, <1>2 DEF IInv, WalkInv, ArgsInv
<1>4. TypeInv' /\ ToldInv'
  BY <1>1 DEF IInv, TypeInv, ToldInv
<1>5. PlaneInv' /\ LaneInv' /\ ControlInv'
  BY <1>1, <1>2 DEF IInv, PlaneInv, LaneInv, ControlInv
<1>6. ReadyInv'
  BY <1>1, <1>2 DEF IInv, ReadyInv
<1>7. ExitTruthful' /\ DrainsTogether'
  BY <1>1, <1>2 DEF IInv, ExitTruthful, DrainsTogether
<1>8. QED BY <1>3, <1>4, <1>5, <1>6, <1>7 DEF IInv

\* Every step of the process keeps the invariant.
LEMMA NextKeeps ==
    ASSUME IInv, [Next]_vars
    PROVE  IInv'
<1>1. CASE MainStep
  <2>1. CASE JoinPlane
    BY <2>1, JoinsKeep, PanickedKeeps
  <2>2. CASE Abort \/ StopLane \/ JoinLane \/ CloseAdmin
    <3>1. code' = code
      BY <2>2 DEF Abort, StopLane, JoinLane, CloseAdmin
    <3>2. QED BY <2>2, <3>1, JoinsKeep
  <2>3. QED
    BY <1>1, <2>1, <2>2, SelectKeeps, RefuseKeeps, CheckKeeps, StartLaneKeeps, BindKeeps, RecordKeeps,
       SpawnKeeps, AdminKeeps, ServeKeeps, LookKeeps, FinishKeeps DEF MainStep
<1>2. CASE TaskStep
  BY <1>2, ApplyKeeps, ChannelKeeps, MirrorReadyKeeps, RelayStopKeeps, DrainKeeps DEF TaskStep
<1>3. CASE Compile \/ ControllerEnds \/ Signal \/ Grace \/ DrainUntold \/ Panics
  BY <1>3, CompileKeeps, ControllerEndsKeeps, ChannelKeeps, GraceKeeps, DrainKeeps
<1>4. CASE \E l \in {"plane", "lane"} : DrainEnds(l, "ok") \/ Fails(l)
  BY <1>4, DrainKeeps
<1>5. CASE UNCHANGED vars
  BY <1>5, StutterKeeps
<1>6. QED BY <1>1, <1>2, <1>3, <1>4, <1>5 DEF Next

\* The invariant holds from the first step of the process to its exit.
THEOREM Inductive == Spec => []IInv
<1>1. Init => IInv
  BY InitIInv
<1>2. IInv /\ [Next]_vars => IInv'
  BY NextKeeps
<1>3. QED BY <1>1, <1>2, PTL DEF Spec

\* The exit code of run and finish tells what happened, whichever way the
\* process was started and whatever refused, failed or ended on the way.
THEOREM Truthful == Spec => []ExitTruthful
<1>1. IInv => ExitTruthful
  BY DEF IInv
<1>2. QED BY <1>1, Inductive, PTL

\* From the stop on, the two engines of the uring modes drain within one grace
\* period, and unless Engine::run panicked the exit waits for both.
THEOREM Together == Spec => []DrainsTogether
<1>1. IInv => DrainsTogether
  BY DEF IInv
<1>2. QED BY <1>1, Inductive, PTL

\* The readiness probe does not say yes before the listeners have been bound and
\* a configuration is on the wire.
THEOREM Ready == Spec => []ReadyServes
<1>1. IInv => ReadyServes
  <2> SUFFICES ASSUME IInv PROVE ReadyServes
    OBVIOUS
  <2>1. engine_ready => ready
    BY DEF IInv, ReadyInv
  <2>2. ASSUME ready, IF Uring THEN admin = "open" ELSE plane = "running"
        PROVE  /\ wire > 0
               /\ (args.http => "http" \in bound) /\ (Https => "https" \in bound)
               /\ (args.http3 /\ Https => "udp" \in bound)
    <3>1. wire > 0
      BY <2>2 DEF IInv, ReadyInv
    <3>2. Step \notin PreBind
      BY <2>2 DEF IInv, PlaneInv
    <3>3. Listeners \subseteq bound /\ Step # "select"
      BY <3>2 DEF IInv, PlaneInv, PreBind
    <3>4. ~args.error /\ ~args.help
      BY <3>3, Located DEF IInv
    <3>5. args.http3 => ~Uring
      BY <3>4 DEF IInv, ArgsInv, Conflict, Uring, Selected, IsUring
    <3>6. QED BY <3>1, <3>3, <3>5 DEF Listeners
  <2>3. QED BY <2>1, <2>2 DEF ReadyServes
<1>2. QED BY <1>1, Inductive, PTL
=============================================================================
