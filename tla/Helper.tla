------------------------------- MODULE Helper -------------------------------
(***************************************************************************)
(* The helper thread of the io_uring engine.  It waits, for every core, on *)
(* the sockets that are still connecting, and writes the outcome as a      *)
(* twelve byte note into the notify pipe of the core, with a tick now and  *)
(* then.                                                                   *)
(*                                                                         *)
(* The thread runs beside the cores, so its loop is cut where another      *)
(* thread's step can matter: at poll, where it drains the wake pipe, and   *)
(* where it receives jobs.  A note is NoteLen units of a byte stream, and  *)
(* a core's read may end inside one.  Time is two facts: a job's deadline  *)
(* has passed (late), and a turn of the loop may find the tick due.  poll  *)
(* itself is taken not to fail.                                            *)
(***************************************************************************)
EXTENDS Integers, Sequences, FiniteSets, SequencesExt

CONSTANTS
    NCores,       \* serving cores
    Socks,        \* sockets whose connect does not finish at once
    NoteLen,      \* units in a note; 12 bytes in the code
    PipeNotes,    \* notes that fit in a notify pipe
    MaxTicks      \* bound on the ticks a core has not read

ASSUME HelperAssumption ==
    /\ NCores \in Nat \ {0} /\ NoteLen \in Nat \ {0} /\ PipeNotes \in Nat \ {0}
    /\ MaxTicks \in Nat /\ IsFiniteSet(Socks)

VARIABLES
    sock,     \* how each connect stands
    late,     \* sockets whose connect deadline has passed
    jobs,     \* the channel of jobs
    sender,   \* the sending half of the channel is alive
    wake,     \* a byte is in the wake pipe
    pending,  \* jobs the thread watches, in the order of its vector
    backlog,  \* notes owed to each core
    pipe,     \* the units in each notify pipe
    reader,   \* cores whose end of the notify pipe is open
    partial,  \* NoteReader: the units of an unfinished note
    told,     \* how many notes about each socket the cores have decoded
    hpc,      \* where the thread is
    polled    \* the entries after the wake pipe's that poll returned

helperVars == <<sock, late, jobs, sender, wake, pending, backlog, pipe, reader,
                partial, told, hpc, polled>>

Cores == 0 .. NCores - 1
Tick == [kind |-> "tick", sock |-> "none", err |-> "ok"]
Connected(s, err) == [kind |-> "connect", sock |-> s, err |-> err]
Garbage == [kind |-> "garbage", sock |-> "none", err |-> "ok"]
Subjects == Socks \cup {"none"}

\* Note::encode: the units of one note.
Encode(note) == [i \in 1 .. NoteLen |-> [of |-> note, part |-> i]]

\* Note::decode of NoteLen units.
Decode(units) == IF units = Encode(units[1].of) THEN units[1].of ELSE Garbage

\* Mutant: what is left over after the whole notes is not kept.
MutFeedForgets(left, units) ==
    LET all == left \o units
        n == Len(all) \div NoteLen IN
    [notes |-> [k \in 1 .. n |->
                  Decode(SubSeq(all, (k - 1) * NoteLen + 1, k * NoteLen))],
     rest |-> <<>>]

\* NoteReader::feed: the notes that are complete, and what is kept for later.
Feed(left, units) ==
    LET all == left \o units
        n == Len(all) \div NoteLen IN
    [notes |-> [k \in 1 .. n |->
                  Decode(SubSeq(all, (k - 1) * NoteLen + 1, k * NoteLen))],
     rest |-> SubSeq(all, n * NoteLen + 1, Len(all))]

\* Helper::start.
HelperInit ==
    /\ sock = [s \in Socks |-> "unused"] /\ late = {} /\ told = [s \in Subjects |-> 0]
    /\ jobs = <<>> /\ sender = TRUE /\ wake = FALSE /\ pending = <<>>
    /\ backlog = [c \in Cores |-> <<>>] /\ pipe = [c \in Cores |-> <<>>]
    /\ reader = Cores /\ partial = [c \in Cores |-> <<>>]
    /\ hpc = "poll" /\ polled = <<>>

-----------------------------------------------------------------------------
(* What the cores and the network do *)

\* watch_connect, its first half: the job is sent before the wake byte.
SendJob(c, s) ==
    /\ sender /\ sock[s] = "unused"
    /\ sock' = [sock EXCEPT ![s] = "connecting"]
    /\ jobs' = Append(jobs, [sock |-> s, core |-> c])
    /\ UNCHANGED <<late, sender, wake, pending, backlog, pipe, reader, partial,
                   told, hpc, polled>>

\* Mutant: the byte is not written.
MutSendWake == UNCHANGED helperVars

\* watch_connect, its second half.  A full pipe already holds a byte.
SendWake ==
    /\ wake' = TRUE
    /\ UNCHANGED <<sock, late, jobs, sender, pending, backlog, pipe, reader,
                   partial, told, hpc, polled>>

\* The connect ends, one way or the other.
ConnectEnds(s, how) ==
    /\ sock[s] = "connecting" /\ sock' = [sock EXCEPT ![s] = how]
    /\ UNCHANGED <<late, jobs, sender, wake, pending, backlog, pipe, reader,
                   partial, told, hpc, polled>>

Watched(s) == \E j \in Range(jobs) \cup Range(pending) : j.sock = s

\* Its deadline passes.
Expire(s) ==
    /\ Watched(s) /\ s \notin late /\ late' = late \cup {s}
    /\ UNCHANGED <<sock, jobs, sender, wake, pending, backlog, pipe, reader,
                   partial, told, hpc, polled>>

Mentions(s, notes) ==
    Len(SelectSeq(notes, LAMBDA n : n.kind # "tick" /\ n.sock = s))

\* on_notify: core c reads the first n units of its pipe and takes the notes in
\* them.  A socket it is told of is its own again.
ReadNotes(c, n) ==
    LET fed == Feed(partial[c], SubSeq(pipe[c], 1, n)) IN
    /\ c \in reader /\ n \in 1 .. Len(pipe[c])
    /\ pipe' = [pipe EXCEPT ![c] = SubSeq(@, n + 1, Len(@))]
    /\ partial' = [partial EXCEPT ![c] = fed.rest]
    /\ told' = [s \in Subjects |-> told[s] + Mentions(s, fed.notes)]
    /\ sock' = [s \in Socks |-> IF told'[s] > 0 THEN "back" ELSE sock[s]]
    /\ UNCHANGED <<late, jobs, sender, wake, pending, backlog, reader, hpc,
                   polled>>

-----------------------------------------------------------------------------
(* The thread *)

\* What poll says of a descriptor asked for POLLOUT.
SockEvents(s) ==
    CASE sock[s] = "connecting" -> {}
      [] sock[s] = "connected"  -> {"OUT"}
      [] sock[s] = "refused"    -> {"OUT", "ERR"}
      [] sock[s] = "closed"     -> {"NVAL"}

Fits(units) == Len(units) + NoteLen <= PipeNotes * NoteLen

PipeEvents(c) ==
    IF c \notin reader THEN {"ERR"}
    ELSE IF Fits(pipe[c]) THEN {"OUT"} ELSE {}

\* The list handed to poll, after the wake pipe: the jobs, then the pipes of the
\* cores that are owed something.
PollEvents ==
    [i \in 1 .. Len(pending) |-> SockEvents(pending[i].sock)]
    \o LET owed == SelectSeq([i \in 1 .. NCores |-> i - 1],
                             LAMBDA c : backlog[c] # <<>>)
       IN [i \in 1 .. Len(owed) |-> PipeEvents(owed[i])]

\* poll returns: at the latest when the next tick is due.
Poll ==
    /\ hpc = "poll" /\ hpc' = IF wake THEN "drain" ELSE "receive"
    /\ polled' = PollEvents
    /\ UNCHANGED <<sock, late, jobs, sender, wake, pending, backlog, pipe, reader,
                   partial, told>>

\* The wake pipe had something in it and is drained.
DrainWake ==
    /\ hpc = "drain" /\ hpc' = "receive" /\ wake' = FALSE
    /\ UNCHANGED <<sock, late, jobs, sender, pending, backlog, pipe, reader,
                   partial, told, polled>>

\* Mutant: the wake pipe is counted twice, so a job is read one entry on.
MutReventsOff(i) == IF i + 1 <= Len(polled) THEN polled[i + 1] ELSE {}

\* poll_fds.get(i + 1).revents: the entry that stands where job i stands now.
Revents(i) == IF i <= Len(polled) THEN polled[i] ELSE {}

Over(s, revents) == revents # {} \/ s \in late

\* SO_ERROR of a socket.
SocketError(s) ==
    CASE sock[s] = "refused" -> "refused"
      [] sock[s] = "closed" -> "badf"
      [] OTHER -> "ok"

\* The error in the note about a socket whose wait is over.
Outcome(s, revents) ==
    IF "NVAL" \in revents THEN "badf"
    ELSE IF revents = {} THEN "timedout"
    ELSE IF SocketError(s) = "ok" /\ "ERR" \in revents THEN "reset"
    ELSE SocketError(s)

\* The walk backwards over a vector with swap_remove: what is left of it, and
\* the positions that are taken out, in that order.
SwapRemoved(all, over) ==
    LET walk[i \in 1 .. Len(all) + 1] ==
          IF i = Len(all) + 1 THEN [kept |-> all, gone |-> <<>>]
          ELSE LET was == walk[i + 1]
                   n == Len(was.kept) IN
               IF i \notin over THEN was
               ELSE [kept |-> [k \in 1 .. n - 1 |-> IF k = i THEN was.kept[n]
                                                    ELSE was.kept[k]],
                     gone |-> Append(was.gone, i)]
    IN walk[1]

\* Nothing is skipped, left out or taken twice, whichever entries go.
ASSUME SwapRemoveAssumption ==
    \A n \in 0 .. 4 : \A over \in SUBSET (1 .. n) :
        LET after == SwapRemoved([i \in 1 .. n |-> i], over) IN
        /\ Range(after.gone) = over /\ Range(after.kept) = (1 .. n) \ over
        /\ Len(after.gone) + Len(after.kept) = n

\* The jobs whose wait is over, and the notes about them.
Retire(all) ==
    LET over == {i \in DOMAIN all : Over(all[i].sock, Revents(i))}
        after == SwapRemoved(all, over)
        note(i) == Connected(all[i].sock, Outcome(all[i].sock, Revents(i))) IN
    [kept |-> after.kept,
     notes |-> [k \in DOMAIN after.gone |->
                  [core |-> all[after.gone[k]].core,
                   note |-> note(after.gone[k])]]]

NotesFor(c, notes) ==
    LET mine == SelectSeq(notes, LAMBDA n : n.core = c)
    IN [i \in 1 .. Len(mine) |-> mine[i].note]

\* A tick is queued only for a core that is owed nothing.
WithTick(queue) == IF queue = <<>> THEN <<Tick>> ELSE queue

\* flush_all: write what fits, keep the rest; a core that is gone is owed
\* nothing.  On the way out it spins for a while, which is more room if the core
\* reads and changes nothing if it does not.
Flush(owed) ==
    LET room(c) == (PipeNotes * NoteLen - Len(pipe[c])) \div NoteLen
        sent(c) == IF room(c) < Len(owed[c]) THEN room(c) ELSE Len(owed[c]) IN
    /\ pipe' = [c \in Cores |->
                  IF c \notin reader THEN pipe[c]
                  ELSE pipe[c] \o FlattenSeq([i \in 1 .. sent(c) |->
                                                Encode(owed[c][i])])]
    /\ backlog' = [c \in Cores |->
                     IF c \notin reader THEN <<>>
                     ELSE SubSeq(owed[c], sent(c) + 1, Len(owed[c]))]

\* try_recv until the channel is empty or disconnected.
Receive == jobs' = <<>>

\* The rest of a turn: new jobs are received, finished and late ones answered,
\* the tick queued if it is due, and what fits is written.
Answer(due) ==
    LET retired == Retire(pending \o jobs)
        owed == [c \in Cores |-> backlog[c] \o NotesFor(c, retired.notes)] IN
    /\ hpc = "receive" /\ hpc' = "poll" /\ sender /\ Receive
    /\ pending' = retired.kept
    /\ late' = late \cap {j.sock : j \in Range(retired.kept)}
    /\ Flush([c \in Cores |-> IF due THEN WithTick(owed[c]) ELSE owed[c]])
    /\ polled' = <<>>
    /\ UNCHANGED <<sock, sender, wake, reader, partial, told>>

\* The channel is disconnected: everything pending is answered, and the thread
\* returns.
Stop ==
    LET all == pending \o jobs
        cancelled == [i \in 1 .. Len(all) |->
                        [core |-> all[i].core,
                         note |-> Connected(all[i].sock, "cancelled")]] IN
    /\ hpc = "receive" /\ hpc' = "done" /\ ~sender /\ Receive
    /\ pending' = <<>> /\ late' = {}
    /\ Flush([c \in Cores |-> backlog[c] \o NotesFor(c, cancelled)])
    /\ UNCHANGED <<sock, sender, wake, reader, partial, told, polled>>

\* The ticks on their way to core c, which MaxTicks bounds: the thread queues one
\* whenever its interval is over and the core is owed nothing.
Ticks(c) ==
    Cardinality({i \in DOMAIN pipe[c] : pipe[c][i] = [of |-> Tick, part |-> NoteLen]})
    + Cardinality({i \in DOMAIN backlog[c] : backlog[c][i] = Tick})

MayTick == \A c \in reader : Ticks(c) < MaxTicks

HelperNext ==
    \/ Poll \/ DrainWake \/ Stop
    \/ \E due \in BOOLEAN : (due => MayTick) /\ Answer(due)
=============================================================================
