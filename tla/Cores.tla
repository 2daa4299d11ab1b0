-------------------------------- MODULE Cores --------------------------------
(***************************************************************************)
(* Engine::run: the helper thread, the serving cores, the thread that      *)
(* accepts for them where the kernel does not spread connections, the stop *)
(* button, and the joins at the end.                                       *)
(*                                                                         *)
(* What a core does with a connection is the Worker module's.  Here a core *)
(* takes connections, starts connects, reads its notes, looks at the stop  *)
(* flag when it comes round its loop, drains, and ends.  The listeners are *)
(* one: each has its own channels and its own cursor, so two do not meet.  *)
(***************************************************************************)
EXTENDS Helper

CONSTANTS
    Conns,        \* connections clients make
    Platforms,    \* subset of {"reuseport", "acceptor"}
    MaxFailures,  \* bound on cores and acceptors that fail
    MaxLoad       \* bound on connections, by the set of cores still there

ASSUME CoresAssumption ==
    /\ MaxFailures \in Nat /\ IsFiniteSet(Conns)
    /\ MaxLoad \in [SUBSET Cores -> Nat]
    /\ Platforms \subseteq {"reuseport", "acceptor"}

VARIABLES
    platform,     \* which intake this build uses
    stop,         \* the shutdown flag
    core,         \* where each core's thread is
    waking,       \* cores between the halves of watch_connect
    turn,         \* cores about to look at the flag, now that it is up
    conn,         \* where each connection is
    chan,         \* descriptors dealt to each core and not read
    intake,       \* cores whose intake is open
    cursor,       \* accept_loop: next
    apc,          \* where the accepting thread is
    joined,       \* threads Engine::run has joined
    first_error,  \* what it has kept of their errors
    result,       \* what it returned
    quit,         \* Helper::drop has written its wake byte
    failures      \* failures there have been, of at most MaxFailures

intakeVars == <<conn, chan, intake, cursor, apc>>
joinVars == <<joined, first_error, result, quit>>
coreVars == <<core, waking, turn>>
vars == <<helperVars, platform, stop, coreVars, intakeVars, joinVars, failures>>

Nowhere == [at |-> "nowhere", core |-> 0]
Queued(c) == [at |-> "queued", core |-> c]   \* in the kernel's accept queue
Served(c) == [at |-> "served", core |-> c]
Dealt(c) == [at |-> "dealt", core |-> c]
Finished(c) == [at |-> "finished", core |-> c]
Closed == [at |-> "closed", core |-> 0]      \* and never served
Stranded == [at |-> "stranded", core |-> 0]  \* open, and nobody knows it

Ended == {"ok", "timedout", "failed"}

\* sockets.len() == cores: each core has a listener of its own.
Direct == platform = "reuseport" \/ NCores = 1

\* Engine::run up to the joins: the threads are started.
Init ==
    /\ HelperInit
    /\ platform \in Platforms
    /\ stop = FALSE /\ core = [c \in Cores |-> "running"]
    /\ waking = {} /\ turn = {}
    /\ conn = [k \in Conns |-> Nowhere] /\ chan = [c \in Cores |-> <<>>]
    /\ intake = Cores /\ cursor = 0
    /\ apc = IF Direct THEN "none" ELSE "polling"
    /\ joined = 0 /\ first_error = "none" /\ result = "none" /\ quit = FALSE
    /\ failures = 0

-----------------------------------------------------------------------------
(* Clients and the operator *)

\* A client connects: the kernel picks a core's listener, or there is one.
Arrive(k) ==
    /\ conn[k] = Nowhere
    /\ Cardinality({j \in Conns : conn[j] # Nowhere}) < MaxLoad[reader]
    /\ IF Direct
       THEN \E c \in intake : conn' = [conn EXCEPT ![k] = Queued(c)]
       ELSE apc # "done" /\ conn' = [conn EXCEPT ![k] = Queued(0)]
    /\ UNCHANGED <<helperVars, platform, stop, coreVars, chan, intake, cursor, apc,
                   joinVars, failures>>

\* Shutdown::stop.
StopAll ==
    /\ ~stop /\ stop' = TRUE
    /\ UNCHANGED <<helperVars, platform, coreVars, intakeVars, joinVars, failures>>

-----------------------------------------------------------------------------
(* A core *)

\* Every completion takes the core round its loop, to the flag.  A look that
\* finds the flag down changes nothing, so only the others are steps.
Round(c) == turn' = IF stop THEN turn \cup {c} ELSE turn

Awake(c) == core[c] = "running" /\ c \notin turn /\ c \notin waking

\* A core that is serving or draining still handles completions.
Live(c) == core[c] \in {"running", "draining"} /\ c \notin turn /\ c \notin waking

\* The reactor cannot be created, or a submission that is not a connection's
\* fails: the thread ends with the error and tears nothing down.
CoreFails(c) ==
    /\ Live(c)
    /\ failures < MaxFailures /\ failures' = failures + 1
    /\ core' = [core EXCEPT ![c] = "failed"]
    /\ UNCHANGED <<helperVars, platform, stop, waking, turn, intakeVars, joinVars>>

\* A connection is taken off the core's own listener.
Accept(c, k) ==
    /\ Awake(c) /\ Direct /\ conn[k] = Queued(c)
    /\ conn' = [conn EXCEPT ![k] = Served(c)] /\ Round(c)
    /\ UNCHANGED <<helperVars, platform, stop, core, waking, chan, intake, cursor,
                   apc, joinVars, failures>>

\* on_intake: the descriptors that were dealt to the core.
OnIntake(c) ==
    /\ Awake(c) /\ ~Direct /\ chan[c] # <<>>
    /\ conn' = [k \in Conns |-> IF k \in Range(chan[c]) THEN Served(c)
                                ELSE conn[k]]
    /\ chan' = [chan EXCEPT ![c] = <<>>] /\ Round(c)
    /\ UNCHANGED <<helperVars, platform, stop, core, waking, intake, cursor, apc,
                   joinVars, failures>>

\* on_intake at the end of the stream: the acceptor is gone.
OnIntakeGone(c) ==
    /\ Awake(c) /\ apc = "done" /\ chan[c] = <<>> /\ ~stop
    /\ stop' = TRUE /\ turn' = turn \cup {c}
    /\ UNCHANGED <<helperVars, platform, core, waking, intakeVars, joinVars,
                   failures>>

Count(seq, Test(_)) == Len(SelectSeq(seq, Test))

\* The notes about s on their way to core c or with it.  The units in the pipe
\* and the ones kept from an unfinished read are one stream.
Copies(s, c) ==
    Count(jobs, LAMBDA j : j = [sock |-> s, core |-> c])
    + Count(pending, LAMBDA j : j = [sock |-> s, core |-> c])
    + Count(backlog[c], LAMBDA n : n.kind = "connect" /\ n.sock = s)
    + Count(partial[c] \o pipe[c], LAMBDA u : /\ u.of.kind = "connect"
                                              /\ u.of.sock = s
                                              /\ u.part = NoteLen)

\* The sockets core c has dialled and not been told about.
Dialled(c) == {s \in Socks : Copies(s, c) > 0}

Carried(c) == {k \in Conns : conn[k] = Served(c)}
Busy(c) == Carried(c) # {}

\* The core starts a connect for one of its connections.  A connection has one
\* at a time; one that ended may leave its connect behind.
Dial(c, s) ==
    /\ Live(c) /\ Busy(c)
    /\ Cardinality(Dialled(c))
         < Cardinality({k \in Conns : conn[k] \in {Served(c), Finished(c)}})
    /\ SendJob(c, s) /\ waking' = waking \cup {c}
    /\ UNCHANGED <<platform, stop, core, turn, intakeVars, joinVars, failures>>

DialWakes(c) ==
    /\ c \in waking /\ SendWake /\ waking' = waking \ {c}
    /\ UNCHANGED <<platform, stop, core, turn, intakeVars, joinVars, failures>>

\* on_notify.
OnNotify(c) ==
    /\ Live(c) /\ \E n \in 1 .. Len(pipe[c]) : ReadNotes(c, n)
    /\ Round(c)
    /\ UNCHANGED <<platform, stop, core, waking, intakeVars, joinVars, failures>>

\* An exchange ends and its connection is closed.
ConnEnds(c, k) ==
    /\ Live(c) /\ conn[k] = Served(c)
    /\ conn' = [conn EXCEPT ![k] = Finished(c)] /\ Round(c)
    /\ UNCHANGED <<helperVars, platform, stop, core, waking, chan, intake, cursor,
                   apc, joinVars, failures>>

\* What becomes of a connection when core c closes its intake: the listener's
\* queue is reset, a descriptor in the channel is read by nobody.
AtIntakeClose(c, k) ==
    IF Direct /\ conn[k] = Queued(c) THEN Closed
    ELSE IF conn[k] = Dealt(c) THEN Stranded ELSE conn[k]

\* The top of the loop with a drain that still waits.
GoRound(c) ==
    /\ c \in turn /\ turn' = turn \ {c}
    /\ core[c] = "draining" /\ Busy(c)
    /\ UNCHANGED <<helperVars, platform, stop, core, waking, intakeVars, joinVars,
                   failures>>

\* The top of the loop with the flag up: begin_drain closes the intake first,
\* then the connections that carry nothing.
BeginDrain(c) ==
    /\ c \in turn /\ core[c] = "running" /\ stop
    /\ core' = [core EXCEPT ![c] = "draining"]
    /\ \E idle \in SUBSET Carried(c) :
         conn' = [k \in Conns |-> IF k \in idle THEN Finished(c)
                                  ELSE AtIntakeClose(c, k)]
    /\ intake' = intake \ {c} /\ chan' = [chan EXCEPT ![c] = <<>>]
    /\ UNCHANGED <<helperVars, platform, stop, waking, turn, cursor, apc, joinVars,
                   failures>>

\* The core's thread ends as how.  teardown closes what is left, the intake if
\* the drain has not, the notify pipe last.
Teardown(c, how) ==
    /\ core' = [core EXCEPT ![c] = how]
    /\ conn' = [k \in Conns |-> IF k \in Carried(c) THEN Finished(c)
                               ELSE AtIntakeClose(c, k)]
    /\ intake' = intake \ {c} /\ chan' = [chan EXCEPT ![c] = <<>>]
    /\ sock' = [s \in Socks |-> IF s \in Dialled(c) THEN "closed" ELSE sock[s]]
    /\ reader' = reader \ {c}
    /\ pipe' = [pipe EXCEPT ![c] = <<>>] /\ partial' = [partial EXCEPT ![c] = <<>>]
    /\ UNCHANGED <<late, jobs, sender, wake, pending, backlog, told, hpc, polled,
                   platform, stop, waking, turn, cursor, apc, joinVars>>

\* The top of the loop with the drain over: nothing is carried, or the grace has
\* run out.
CoreEnds(c, how) ==
    /\ c \in turn /\ core[c] = "draining"
    /\ how = (IF Busy(c) THEN "timedout" ELSE "ok")
    /\ Teardown(c, how) /\ UNCHANGED failures

\* The read of the notify pipe fails and nothing is in flight: the accept was
\* not armed again either, for want of descriptors, or the intake is closed, and
\* every connection waits for the helper.  The thread leaves its loop and returns
\* Ok, stopped or not.
CoreQuits(c) ==
    /\ Live(c) /\ failures < MaxFailures /\ failures' = failures + 1
    /\ core[c] = "running" => Direct /\ ~stop
    /\ Cardinality(Carried(c)) <= Cardinality(Dialled(c))
    /\ Teardown(c, "ok")

-----------------------------------------------------------------------------
(* accept_loop *)

Acceptor(from, to) == apc = from /\ apc' = to

\* What the accepting thread leaves in the kernel's queue is reset when it
\* drops its listener.
AcceptorGone ==
    conn' = [k \in Conns |-> IF conn[k] = Queued(0) THEN Closed ELSE conn[k]]

\* The loop up to the accepts: the flag, poll for a connection or a hundred
\* milliseconds, and the flag again.
AcceptorPolls ==
    /\ \/ stop /\ Acceptor("polling", "done") /\ AcceptorGone
       \/ /\ ~stop /\ \E k \in Conns : conn[k] = Queued(0)
          /\ Acceptor("polling", "accepting") /\ UNCHANGED conn
    /\ UNCHANGED <<helperVars, platform, stop, coreVars, chan, intake, cursor,
                   joinVars, failures>>

\* poll fails and the thread returns.
AcceptorFails ==
    /\ failures < MaxFailures /\ failures' = failures + 1
    /\ Acceptor("polling", "done") /\ AcceptorGone
    /\ UNCHANGED <<helperVars, platform, stop, coreVars, chan, intake, cursor,
                   joinVars>>

\* One descriptor is accepted and dealt to the next core, or closed if that
\* core's end of the channel is.
Deal(k) ==
    LET target == cursor % NCores IN
    /\ apc = "accepting" /\ conn[k] = Queued(0) /\ cursor' = (cursor + 1) % NCores
    /\ IF target \in intake
       THEN /\ chan' = [chan EXCEPT ![target] = Append(@, k)]
            /\ conn' = [conn EXCEPT ![k] = Dealt(target)]
       ELSE /\ conn' = [conn EXCEPT ![k] = Closed] /\ UNCHANGED chan
    /\ UNCHANGED <<helperVars, platform, stop, coreVars, intake, apc, joinVars,
                   failures>>

\* accept says that nothing is waiting, that it was interrupted, that it failed,
\* or that the next connection died before it was taken: the thread goes back to
\* poll, whatever else is waiting.
LeaveAccepts ==
    /\ Acceptor("accepting", "polling")
    /\ \/ UNCHANGED conn
       \/ \E k \in Conns : /\ conn[k] = Queued(0)
                           /\ conn' = [conn EXCEPT ![k] = Closed]
    /\ UNCHANGED <<helperVars, platform, stop, coreVars, chan, intake, cursor,
                   joinVars, failures>>

-----------------------------------------------------------------------------
(* The end of Engine::run *)

\* Mutant: the first error is the one that counts.
MutKeep(held, outcome) ==
    IF outcome # "ok" /\ held = "none" THEN outcome ELSE held

\* What is kept of a core's outcome: a failure outranks a drain that ran out of
\* time.
Keep(held, outcome) ==
    IF outcome # "ok" /\ (held = "none" \/ (held = "timedout"
                                            /\ outcome # "timedout"))
    THEN outcome ELSE held

\* The threads are joined in order.
Join ==
    /\ joined < NCores /\ core[joined] \in Ended
    /\ first_error' = Keep(first_error, core[joined])
    /\ joined' = joined + 1
    /\ UNCHANGED <<helperVars, platform, stop, coreVars, intakeVars, result, quit,
                   failures>>

\* The accepting thread is joined, then the last Arc goes: Helper::drop gives up
\* the sender.
DropSender ==
    /\ joined = NCores /\ apc \in {"none", "done"} /\ sender
    /\ sender' = FALSE
    /\ UNCHANGED <<sock, late, jobs, wake, pending, backlog, pipe, reader, partial,
                   told, hpc, polled, platform, stop, coreVars, intakeVars, joinVars,
                   failures>>

\* And only then wakes the thread.
DropWakes ==
    /\ ~sender /\ ~quit /\ quit' = TRUE /\ SendWake
    /\ UNCHANGED <<platform, stop, coreVars, intakeVars, joined, first_error, result,
                   failures>>

\* Helper::drop has joined the thread and run returns.
Return ==
    /\ quit /\ hpc = "done" /\ result = "none"
    /\ result' = IF first_error = "none" THEN "ok" ELSE first_error
    /\ UNCHANGED <<helperVars, platform, stop, coreVars, intakeVars, joined,
                   first_error, quit, failures>>

Rest == UNCHANGED <<platform, stop, coreVars, intakeVars, joinVars, failures>>

HelperStep == HelperNext /\ Rest

Network == \E s \in Socks : /\ Expire(s) \/ \E how \in {"connected", "refused"} :
                                                ConnectEnds(s, how)
                            /\ Rest

CoreStep(c) ==
    \/ OnIntake(c) \/ OnIntakeGone(c) \/ DialWakes(c)
    \/ OnNotify(c) \/ GoRound(c) \/ BeginDrain(c)
    \/ \E k \in Conns : Accept(c, k)
    \/ \E how \in Ended : CoreEnds(c, how)

AcceptorStep ==
    \/ AcceptorPolls \/ LeaveAccepts
    \/ \E k \in Conns : Deal(k)

Ending == Join \/ DropSender \/ DropWakes \/ Return

Next ==
    \/ HelperStep \/ Network \/ AcceptorStep \/ Ending \/ StopAll
    \/ AcceptorFails
    \/ \E c \in Cores : CoreStep(c) \/ CoreFails(c) \/ CoreQuits(c)
    \/ \E c \in Cores, s \in Socks : Dial(c, s)
    \/ \E c \in Cores, k \in Conns : ConnEnds(c, k)
    \/ \E k \in Conns : Arrive(k)

Spec == Init /\ [][Next]_vars

-----------------------------------------------------------------------------
(* Properties *)

\* The helper borrows a connecting descriptor until it sends exactly one note
\* about it: through the channel, the watch list, the backlog, the pipe and the
\* reassembly there is one trace of each connect, never two, and none is lost
\* while its core is there to be told; and what a core decodes is what was
\* written.
OneNotePerJob ==
    /\ told["none"] = 0
    /\ \A s \in Socks :
         LET all == told[s] + FoldFunctionOnSet(+, 0,
                        [c \in Cores |-> Copies(s, c)], Cores) IN
         /\ all <= 1
         /\ sock[s] \notin {"unused", "closed"} /\ reader = Cores => all = 1

\* Nothing sent to the helper waits for a tick.  While the thread is in poll, or
\* on its way there, a job in the channel has a wake byte behind it, or one about
\* to be written; and once Helper::drop has written its byte, the thread has that
\* byte before it or has seen the sender go.
WakeNotLost ==
    hpc = "poll" => /\ jobs # <<>> => wake \/ waking # {}
                    /\ quit => wake

\* A core that failed is what run reports, whichever core was slow to drain and
\* in whatever order they ended; a drain that ran out of time is reported where
\* nothing failed; and success means neither happened.
ResultHonest ==
    result # "none" =>
      LET ends == {core[c] : c \in Cores} IN
      result = IF "failed" \in ends THEN "failed"
               ELSE IF "timedout" \in ends THEN "timedout" ELSE "ok"

\* Whether core c is being told that the connect of s succeeded.
SaysOk(s, owed, stream) ==
    Connected(s, "ok") \in Range(owed) \cup {u.of : u \in Range(stream)}

\* The sockets whose job stands, in the helper's vector, where poll's list has
\* the pipe of a core that is owed notes: received after poll, and read by
\* position all the same.
Misread ==
    LET all == pending \o jobs IN
    {all[i].sock : i \in DOMAIN all \cap (Len(pending) + 1 .. Len(polled))}

\* The sockets, still connecting, that this step of the helper tells a core are
\* connected.
ToldTooSoon ==
    {s \in Socks : /\ sock[s] = "connecting"
                   /\ \E c \in Cores : /\ SaysOk(s, backlog'[c], pipe'[c])
                                       /\ ~SaysOk(s, backlog[c], pipe[c])}

\* Results are matched to jobs by position in two vectors that grow apart: the
\* jobs received after poll are appended to the one, and pipes follow the jobs in
\* the other.  Whatever is removed, appended or late, a job that was polled gets
\* its own result, and success of a socket that is still connecting is reported
\* only for a job that stands at a pipe's entry.
PolledIsTruthful == [][hpc = "receive" => ToldTooSoon \subseteq Misread]_vars
=============================================================================
