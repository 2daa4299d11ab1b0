------------------------------- MODULE Daemon --------------------------------
(***************************************************************************)
(* ramjet-ingressd: the process around the data plane.  It reads its       *)
(* arguments, chooses an engine, starts the parts one after another, any   *)
(* of which may refuse, serves until a signal or the end of the control    *)
(* plane, stops the parts and picks an exit code.                          *)
(*                                                                         *)
(* There are four ways to run: routes from a file or from Kubernetes, on   *)
(* hyper or on the io_uring engine; each is a list of steps that the main  *)
(* task walks.  The tasks it has spawned run beside it.  The data plane    *)
(* (Serving or Cores), the controller (Reconcile) and the publication of a *)
(* generation (Publication) are here what the process sees of them.        *)
(* elapsed counts the grace periods that have gone by while an engine      *)
(* drained, to the bound MaxGraces.                                        *)
(***************************************************************************)
EXTENDS Naturals, Sequences, FiniteSets, SequencesExt

CONSTANTS
    Environments,  \* settings from the environment
    CommandLines,  \* settings from the command line
    MaxGen,        \* bound on the generations the controller compiles
    MaxGraces      \* bound on elapsed

ASSUME DaemonAssumption == MaxGen \in Nat \ {0} /\ MaxGraces \in Nat \ {0, 1, 2}

VARIABLES
    args,          \* Args
    host,          \* what the machine and the cluster make of them
    todo,          \* the steps the main task has before it
    bound,         \* listeners that are bound
    plane,         \* the data plane: Server::run or Engine::run
    lane,          \* HyperLane: the second engine, which takes HTTP/2
    told,          \* those of "plane" and "lane" told to stop
    controller,    \* the controller's task
    sent,          \* the generation in the watch channel
    applier,       \* the applier's task
    seen,          \* the generation it has seen
    wire,          \* the generation on the wire
    ready,         \* ReadinessFlag
    mirror_ready,  \* the task that copies it for the engine
    engine_ready,  \* the copy
    admin,         \* serve_admin_only
    signal,        \* a SIGTERM has come
    down,          \* the shutdown channel of the Kubernetes modes
    stopped,       \* control_plane_stopped
    elapsed,       \* grace periods gone by
    since,         \* elapsed when each of the two began to drain, and at the stop
    frozen,        \* history: the control plane ended before the data plane
    code           \* the exit code

startVars == <<args, host>>
planeVars == <<bound, plane, lane, told, elapsed, since>>
controlVars == <<controller, sent, applier, seen, wire, ready, frozen>>
taskVars == <<mirror_ready, engine_ready, admin>>
vars == <<startVars, todo, planeVars, controlVars, taskVars, signal, down, stopped, code>>

-----------------------------------------------------------------------------
(* Arguments *)

Defaults ==
    [help |-> FALSE, static |-> FALSE, engine |-> "hyper", http |-> TRUE,
     https |-> TRUE, https_explicit |-> FALSE, admin |-> TRUE, token |-> FALSE,
     h2_dispatch |-> TRUE, http3 |-> FALSE, error |-> FALSE]

\* One setting.  After an error nothing more is read.
Set(a, s) ==
    CASE a.error -> a
      [] s = "help" -> [a EXCEPT !.help = TRUE]
      [] s = "static-routes" -> [a EXCEPT !.static = TRUE]
      [] s \in {"hyper", "uring", "uring-strict"} -> [a EXCEPT !.engine = s]
      [] s = "no-http" -> [a EXCEPT !.http = FALSE]
      [] s = "http" -> [a EXCEPT !.http = TRUE]
      [] s \in {"https", "no-https"} ->
             [a EXCEPT !.https = (s = "https"), !.https_explicit = TRUE]
      [] s = "admin" -> [a EXCEPT !.admin = TRUE]
      [] s = "no-admin" -> [a EXCEPT !.admin = FALSE]
      [] s = "admin-token-file" -> [a EXCEPT !.token = TRUE]
      [] s = "no-h2-dispatch" -> [a EXCEPT !.h2_dispatch = FALSE]
      [] s = "http3" -> [a EXCEPT !.http3 = TRUE]
      [] OTHER -> [a EXCEPT !.error = TRUE]

IsUring(engine) == engine \in {"uring", "uring-strict"}

\* Mutant: HTTP/3 is not held against the uring engine.
MutConflict(a) == a.http3 /\ ~a.https

\* check_conflicts: settings that are each valid and cannot both be honoured.
Conflict(a) == a.http3 /\ (IsUring(a.engine) \/ ~a.https)

\* from_environment: each variable is read into the defaults, and a bad one is
\* an error whatever the command line says.
FromEnvironment(env) == FoldLeft(Set, Defaults, env)

\* Err, with no Args to go with it.
Rejected == [Defaults EXCEPT !.error = TRUE]

\* Args::parse: the command line over the environment.
Parse(env, line) ==
    LET a == FoldLeft(Set, FromEnvironment(env), line)
    IN  IF ~a.help /\ Conflict(a) THEN Rejected ELSE a

-----------------------------------------------------------------------------
(* The four ways to run *)

\* dev_mode.
DevMode ==
    <<"config", "token", "bind", "record", "ready", "serve", "join", "finish">>

\* uring_mode.
UringMode ==
    <<"config", "listener", "lane", "bind", "record", "admin", "token", "open",
      "ready", "serve", "join", "stop_lane", "join_lane", "finish">>

\* kubernetes::run.
Kubernetes ==
    <<"webhook", "client", "token", "bind", "controller", "applier", "serve",
      "join", "look", "abort", "finish">>

\* kubernetes::run_uring.
KubernetesUring ==
    <<"webhook", "client", "lane", "bind", "controller", "applier", "mirror",
      "admin", "token", "open", "serve", "join", "look", "abort", "stop_lane",
      "join_lane", "close_admin", "finish">>

Over == {"ok", "timedout", "failed"}

\* select_engine, with the host's answer to the probe.
Selected == IF IsUring(args.engine) /\ ~host.reactor THEN "hyper" ELSE args.engine

Uring == IsUring(Selected)

\* A TLS listener over an empty store is bound only where it was asked for, or
\* where the certificates are still to come.
Https == args.https /\ (args.static => args.https_explicit \/ host.certs)

\* proxy_config and the engine's Config: what is bound besides the admin port.
Listeners ==
    {l \in {"http", "https", "udp"} :
        CASE l = "http" -> args.http
          [] l = "https" -> Https
          [] l = "udp" -> args.http3 /\ Https /\ ~Uring}

\* The host is probed for a reactor where one is asked for, and only a file of
\* routes may have certificates from the start.
Init ==
    /\ \E env \in Environments, line \in CommandLines : args = Parse(env, line)
    /\ host \in [reactor : BOOLEAN, certs : BOOLEAN]
    /\ host.reactor => IsUring(args.engine)
    /\ host.certs => args.static
    /\ todo = <<"select">> /\ bound = {} /\ plane = "off" /\ lane = "off"
    /\ told = {} /\ elapsed = 0 /\ since = [plane |-> 0, lane |-> 0, stop |-> 0]
    /\ controller = "off" /\ sent = 0 /\ applier = "off" /\ seen = 0 /\ wire = 0
    /\ ready = FALSE /\ frozen = FALSE
    /\ mirror_ready = "off" /\ engine_ready = FALSE /\ admin = "off"
    /\ signal = FALSE /\ down = FALSE /\ stopped = FALSE /\ code = "none"

-----------------------------------------------------------------------------
(* The main task *)

At(step) == code = "none" /\ Head(todo) = step
Done == todo' = Tail(todo)
Exit(c) == code' = c /\ UNCHANGED todo

\* run: a bad command line, a request for text, an engine that must not be
\* replaced; or one of the four.
Select ==
    /\ At("select")
    /\ IF args.error THEN Exit("nonzero")
       ELSE IF args.help THEN Exit("zero")
       ELSE IF args.engine = "uring-strict" /\ ~host.reactor THEN Exit("nonzero")
       ELSE /\ todo' = CASE args.static /\ Uring -> UringMode
                         [] args.static /\ ~Uring -> DevMode
                         [] ~args.static /\ Uring -> KubernetesUring
                         [] ~args.static /\ ~Uring -> Kubernetes
            /\ UNCHANGED code
    /\ UNCHANGED <<startVars, planeVars, controlVars, taskVars, signal, down, stopped>>

\* A step with a `?` that may return an error: a file, the cluster, a port or the
\* second engine's TLS configuration is not what it should be.  The token is read
\* for the uring engine only where there is an admin listener.
MayRefuse(step) ==
    \/ step \in {"config", "webhook", "client", "controller"}
    \/ step = "lane" /\ args.h2_dispatch
    \/ step = "token" /\ args.token /\ (Uring => args.admin)
    \/ step = "bind" /\ (Listeners # {} \/ (~Uring /\ args.admin))
    \/ step = "admin" /\ args.admin

\* A step that is bound to: the uring engine has nothing to serve.
MustRefuse(step) ==
    \/ step = "listener" /\ ~args.http /\ ~args.https
    \/ step = "bind" /\ Uring /\ Listeners = {}

\* The error goes up to main, which prints it.
Refuse ==
    /\ code = "none" /\ (MayRefuse(Head(todo)) \/ MustRefuse(Head(todo)))
    /\ Exit("nonzero")
    /\ UNCHANGED <<startVars, planeVars, controlVars, taskVars, signal, down, stopped>>

Starts(step) == At(step) /\ ~MustRefuse(step) /\ Done

\* Steps that only read something.
Check ==
    /\ \E step \in {"config", "webhook", "client", "token", "listener"} : Starts(step)
    /\ UNCHANGED <<startVars, planeVars, controlVars, taskVars, signal, down, stopped, code>>

\* start_hyper_lane: it binds nothing, and runs from here on.
StartLane ==
    /\ Starts("lane")
    /\ lane' = IF args.h2_dispatch THEN "running" ELSE "off"
    /\ UNCHANGED <<startVars, bound, plane, told, elapsed, since, controlVars,
                   taskVars, signal, down, stopped, code>>

\* Server::bind_with: the listeners, the admin port among them.
BindServer ==
    /\ ~Uring /\ Starts("bind") /\ plane' = "bound"
    /\ bound' = Listeners \cup IF args.admin THEN {"admin"} ELSE {}
    /\ UNCHANGED <<startVars, lane, told, elapsed, since, controlVars, taskVars,
                   signal, down, stopped, code>>

\* Engine::bind.
BindEngine ==
    /\ Uring /\ Starts("bind") /\ plane' = "bound" /\ bound' = Listeners
    /\ UNCHANGED <<startVars, lane, told, elapsed, since, controlVars, taskVars,
                   signal, down, stopped, code>>

\* The one generation a file has is put on the wire.
Record ==
    /\ Starts("record") /\ wire' = 1
    /\ UNCHANGED <<startVars, planeVars, controller, sent, applier, seen, ready, frozen,
                   taskVars, signal, down, stopped, code>>

\* readiness.set_ready(true), and the engine's flag in uring_mode.
SetReady ==
    /\ Starts("ready") /\ ready' = TRUE /\ engine_ready' = Uring
    /\ UNCHANGED <<startVars, planeVars, controller, sent, applier, seen, wire, frozen,
                   mirror_ready, admin, signal, down, stopped, code>>

\* ramjet_controller::spawn.
StartController ==
    /\ Starts("controller") /\ controller' = "running"
    /\ UNCHANGED <<startVars, planeVars, sent, applier, seen, wire, ready, frozen,
                   taskVars, signal, down, stopped, code>>

\* The signal's relay and the applier are spawned.
StartApplier ==
    /\ Starts("applier") /\ applier' = "running"
    /\ UNCHANGED <<startVars, planeVars, controller, sent, seen, wire, ready, frozen,
                   taskVars, signal, down, stopped, code>>

StartMirror ==
    /\ Starts("mirror") /\ mirror_ready' = "running"
    /\ UNCHANGED <<startVars, planeVars, controlVars, engine_ready, admin, signal,
                   down, stopped, code>>

\* The admin listener beside the uring engine is bound, then served.
BindAdmin ==
    /\ Starts("admin")
    /\ admin' = IF args.admin THEN "bound" ELSE "off"
    /\ UNCHANGED <<startVars, planeVars, controlVars, mirror_ready, engine_ready,
                   signal, down, stopped, code>>

OpenAdmin ==
    /\ Starts("open")
    /\ admin' = IF args.admin THEN "open" ELSE "off"
    /\ UNCHANGED <<startVars, planeVars, controlVars, mirror_ready, engine_ready,
                   signal, down, stopped, code>>

Serve ==
    /\ Starts("serve") /\ plane' = "running"
    /\ UNCHANGED <<startVars, bound, lane, told, elapsed, since, controlVars,
                   taskVars, signal, down, stopped, code>>

\* server.run(..).await, or the blocking task of engine.run, has returned.  If the
\* task panicked the `?` on its JoinError leaves at once: nothing is looked at,
\* aborted or drained.
JoinPlane ==
    /\ At("join")
    /\ \/ plane \in Over /\ Done /\ UNCHANGED code
       \/ plane = "panicked" /\ Exit("nonzero")
    /\ UNCHANGED <<startVars, planeVars, controlVars, taskVars, signal, down, stopped>>

\* Mutant: the controller is looked at after the abort.
MutLook ==
    /\ At("look") /\ Done /\ stopped' = TRUE
    /\ UNCHANGED <<startVars, planeVars, controlVars, taskVars, signal, down, code>>

\* control_plane_stopped = controller.is_finished().
Look ==
    /\ At("look") /\ Done /\ stopped' = (controller = "finished")
    /\ UNCHANGED <<startVars, planeVars, controlVars, taskVars, signal, down, code>>

Aborted(task) == IF task = "running" THEN "aborted" ELSE task

\* The tasks are aborted; each ends at its next await.
Abort ==
    /\ At("abort") /\ Done
    /\ applier' = Aborted(applier) /\ controller' = Aborted(controller)
    /\ mirror_ready' = Aborted(mirror_ready)
    /\ UNCHANGED <<startVars, planeVars, sent, seen, wire, ready, frozen,
                   engine_ready, admin, signal, down, stopped, code>>

\* lane.shutdown.shutdown(), which a stop has normally done already.
StopLane ==
    /\ At("stop_lane") /\ Done
    /\ told' = told \cup {"lane"}
    /\ UNCHANGED <<startVars, bound, plane, lane, elapsed, since, controlVars,
                   taskVars, signal, down, stopped, code>>

\* lane.task.await, whatever it returned.
JoinLane ==
    /\ At("join_lane") /\ lane \in Over \cup {"off"} /\ Done
    /\ UNCHANGED <<startVars, planeVars, controlVars, taskVars, signal, down, stopped, code>>

CloseAdmin ==
    /\ At("close_admin") /\ Done
    /\ admin' = IF admin = "open" THEN "closed" ELSE admin
    /\ UNCHANGED <<startVars, planeVars, controlVars, mirror_ready, engine_ready,
                   signal, down, stopped, code>>

\* finish, and what the Kubernetes modes make of a control plane that stopped.
Finish ==
    /\ At("finish")
    /\ Exit(IF plane = "failed" \/ stopped THEN "nonzero" ELSE "zero")
    /\ UNCHANGED <<startVars, planeVars, controlVars, taskVars, signal, down, stopped>>

MainStep ==
    \/ Select \/ Refuse \/ Check \/ StartLane \/ BindServer \/ BindEngine
    \/ Record \/ SetReady
    \/ StartController \/ StartApplier \/ StartMirror \/ BindAdmin \/ OpenAdmin
    \/ Serve \/ JoinPlane \/ Look \/ Abort \/ StopLane \/ JoinLane
    \/ CloseAdmin \/ Finish

-----------------------------------------------------------------------------
(* The control plane.  The controller and the applier share the one worker *)
(* thread of the runtime: when the controller's task ends, its end of the  *)
(* channel goes with it.                                                   *)

Up == code = "none"

Compile ==
    /\ Up /\ controller = "running" /\ sent < MaxGen /\ sent' = sent + 1
    /\ UNCHANGED <<startVars, todo, planeVars, controller, applier, seen, wire, ready,
                   frozen, taskVars, signal, down, stopped, code>>

ControllerEnds ==
    /\ Up /\ controller = "running" /\ controller' = "finished"
    /\ frozen' = (plane \notin Over)
    /\ UNCHANGED <<startVars, todo, planeVars, sent, applier, seen, wire, ready,
                   taskVars, signal, down, stopped, code>>

\* apply: a generation that has not been seen is recorded and published; the
\* seed has been.
Apply ==
    /\ Up /\ applier = "running" /\ seen # sent
    /\ seen' = sent /\ wire' = sent /\ ready' = (ready \/ sent > 0)
    /\ UNCHANGED <<startVars, todo, planeVars, controller, sent, applier, frozen,
                   taskVars, signal, down, stopped, code>>

\* Mutant: the applier ends and stops nothing.
MutApplierEnds ==
    /\ Up /\ applier = "running" /\ seen = sent /\ controller = "finished"
    /\ applier' = "ended"
    /\ UNCHANGED <<startVars, todo, planeVars, controller, sent, seen, wire, ready,
                   frozen, taskVars, signal, down, stopped, code>>

\* apply at the end of the channel: the process is taken down.
ApplierEnds ==
    /\ Up /\ applier = "running" /\ seen = sent /\ controller = "finished"
    /\ applier' = "ended" /\ down' = TRUE
    /\ UNCHANGED <<startVars, todo, planeVars, controller, sent, seen, wire, ready,
                   frozen, taskVars, signal, stopped, code>>

\* The readiness flag is copied once it is set, or the task ends with the stop.
MirrorReady ==
    /\ Up /\ mirror_ready = "running" /\ mirror_ready' = "done"
    /\ \/ ready /\ engine_ready' = TRUE
       \/ down /\ UNCHANGED engine_ready
    /\ UNCHANGED <<startVars, todo, planeVars, controlVars, admin, signal, down,
                   stopped, code>>

-----------------------------------------------------------------------------
(* The stop *)

\* SIGTERM, once Shutdown::on_signal has a handler in place.
Signal ==
    /\ Up /\ ~signal /\ signal' = TRUE
    /\ applier # "off" \/ plane \notin {"off", "bound"}
    /\ UNCHANGED <<startVars, todo, planeVars, controlVars, taskVars, down, stopped, code>>

\* The Kubernetes modes pass a signal on to a channel that the applier can fire
\* as well.
RelaySignal ==
    /\ Up /\ ~args.static /\ applier # "off" /\ signal /\ ~down /\ down' = TRUE
    /\ UNCHANGED <<startVars, todo, planeVars, controlVars, taskVars, signal, stopped, code>>

StopAsked == IF args.static THEN signal ELSE down

\* serve_admin_only leaves its loop.
AdminEnds ==
    /\ Up /\ admin = "open" /\ StopAsked /\ admin' = "closed"
    /\ UNCHANGED <<startVars, todo, planeVars, controlVars, mirror_ready, engine_ready,
                   signal, down, stopped, code>>

\* Mutant: the second engine is told only when the first is done.
MutRelayStop ==
    /\ Up /\ StopAsked /\ plane \notin {"off", "bound"} /\ "plane" \notin told
    /\ told' = told \cup {"plane"} /\ since' = [since EXCEPT !["stop"] = elapsed]
    /\ UNCHANGED <<startVars, todo, bound, plane, lane, elapsed, controlVars,
                   taskVars, signal, down, stopped, code>>

\* Server::run sees the stop for itself; for the uring engine a task relays it,
\* to both engines at once.
RelayStop ==
    /\ Up /\ StopAsked /\ plane \notin {"off", "bound"} /\ "plane" \notin told
    /\ told' = told \cup {"plane", "lane"} /\ since' = [since EXCEPT !["stop"] = elapsed]
    /\ UNCHANGED <<startVars, todo, bound, plane, lane, elapsed, controlVars,
                   taskVars, signal, down, stopped, code>>

State(l) == IF l = "plane" THEN plane ELSE lane
Becomes(l, s) == /\ plane' = IF l = "plane" THEN s ELSE plane
                 /\ lane' = IF l = "lane" THEN s ELSE lane

BeginsDrain(l) ==
    /\ Up /\ State(l) = "running" /\ Becomes(l, "draining")
    /\ since' = [since EXCEPT ![l] = elapsed]
    /\ UNCHANGED <<startVars, todo, bound, told, elapsed, controlVars, taskVars,
                   signal, down, stopped, code>>

\* Server::run leaves its loop, and every core of Engine::run begins to drain.
Drain(l) == l \in told /\ BeginsDrain(l)

\* The cores of the uring engine lose their acceptor, or end for want of
\* anything in flight, and nobody has told them to: the second engine goes on
\* until the main task stops it.
DrainUntold == Uring /\ BeginsDrain("plane")

\* A drain ends, or its grace period has.
DrainEnds(l, how) ==
    /\ Up /\ State(l) = "draining" /\ Becomes(l, how)
    /\ how = "ok" \/ (how = "timedout" /\ since[l] < elapsed)
    /\ UNCHANGED <<startVars, todo, bound, told, elapsed, since, controlVars,
                   taskVars, signal, down, stopped, code>>

\* An engine stops for a reason of its own.
Fails(l) ==
    /\ Up /\ State(l) \in {"running", "draining"} /\ Becomes(l, "failed")
    /\ UNCHANGED <<startVars, todo, bound, told, elapsed, since, controlVars,
                   taskVars, signal, down, stopped, code>>

\* The blocking task of Engine::run, or Server::run on the main task, panics.
Panics ==
    /\ Up /\ plane \in {"running", "draining"} /\ plane' = "panicked"
    /\ UNCHANGED <<startVars, todo, bound, lane, told, elapsed, since, controlVars,
                   taskVars, signal, down, stopped, code>>

Draining == {l \in {"plane", "lane"} : State(l) = "draining"}

\* A grace period goes by.  An engine notices a stop, and its deadline, well
\* within one.
Grace ==
    /\ Up /\ Draining # {} /\ \A l \in Draining : since[l] = elapsed
    /\ signal \/ down => "plane" \in told
    /\ \A l \in told : State(l) # "running"
    /\ elapsed < MaxGraces /\ elapsed' = elapsed + 1
    /\ UNCHANGED <<startVars, todo, bound, plane, lane, told, since, controlVars,
                   taskVars, signal, down, stopped, code>>

TaskStep ==
    \/ Apply \/ ApplierEnds \/ MirrorReady \/ RelaySignal \/ AdminEnds \/ RelayStop
    \/ \E l \in {"plane", "lane"} : Drain(l) \/ DrainEnds(l, "timedout")

Next ==
    \/ MainStep \/ TaskStep \/ Compile \/ ControllerEnds \/ Signal \/ Grace
    \/ DrainUntold \/ Panics
    \/ \E l \in {"plane", "lane"} : DrainEnds(l, "ok") \/ Fails(l)

\* Every thread and task is scheduled, and time passes.
Fairness ==
    /\ WF_vars(MainStep) /\ WF_vars(Grace)
    /\ WF_vars(Apply) /\ WF_vars(ApplierEnds) /\ WF_vars(RelaySignal) /\ WF_vars(RelayStop)
    /\ \A l \in {"plane", "lane"} : WF_vars(Drain(l)) /\ WF_vars(DrainEnds(l, "timedout"))

Spec == Init /\ [][Next]_vars /\ Fairness

-----------------------------------------------------------------------------
(* Properties *)

\* The exit code tells what happened: zero only for a request for text or for a
\* data plane that drained, in time or not, under a control plane that lasted as
\* long as it did; nonzero only if something refused, failed, panicked or stopped,
\* so that a rolling update never looks like a crash.
ExitTruthful ==
    /\ code = "zero" => args.help \/ (plane \in {"ok", "timedout"} /\ ~frozen)
    /\ code = "nonzero" => \/ plane \in {"off", "bound", "failed", "panicked"}
                           \/ controller = "finished"

\* Two engines that drain one after the other would outlive the termination
\* period that one grace was chosen to fit: from the stop to the exit there is at
\* most one, even if the uring engine had begun to drain by itself; and unless
\* Engine::run panicked the second engine is not cut off while it serves or
\* drains.
DrainsTogether ==
    /\ "plane" \in told => elapsed <= since["stop"] + 1
    /\ code # "none" /\ plane \in Over => lane \in Over \cup {"off"}

\* However the process was started, the readiness probe cannot be answered "yes"
\* before every listener that was asked for has been bound and a configuration is
\* on the wire; the engine's own flag says no more than the process's.  It is
\* about the start: nothing clears the flag, and bound keeps what a drain closes.
ReadyServes ==
    /\ ready /\ (IF Uring THEN admin = "open" ELSE plane = "running") =>
         /\ wire > 0
         /\ (args.http => "http" \in bound) /\ (Https => "https" \in bound)
         /\ (args.http3 /\ Https => "udp" \in bound)
    /\ engine_ready => ready

\* A signal, or a control plane that ends, ends the process, whatever was being
\* started, served or drained when it came.
StopsWhenTold == (signal \/ controller = "finished") ~> code # "none"
=============================================================================
