---------------------------- MODULE PingSession ----------------------------
(***************************************************************************)
(* The ping sessions of python/server_mobile_full_v1.py.  A request to     *)
(* /l2ping stops the session there is and starts one of its own: a task    *)
(* that asks for the device's name, runs l2ping and starts a second task   *)
(* that polls the RSSI.  A request to /l2ping/stop only stops.             *)
(*                                                                         *)
(* All of it runs on one event loop, so a step of the model is the code    *)
(* between two awaits.  The order in which the loop resumes tasks matters  *)
(* (a session may end and another begin before the request that waited for *)
(* the first resumes), and is kept: ready is the loop's queue.             *)
(***************************************************************************)
EXTENDS Naturals, FiniteSets, Sequences, SequencesExt

CONSTANTS
  StartRequests,  \* requests that may be to /l2ping, one session each at most
  StopRequests,   \* requests that may be to /l2ping/stop
  LateAnswers     \* may an answer that is already there beat a cancellation?
                  \* It does in asyncio.wait_for until Python 3.11.

Requests == StartRequests \cup StopRequests
Sessions == 1 .. Cardinality(StartRequests)
None == 0
Nobody == [id |-> None, task |-> None, proc |-> None, rssi_task |-> None]

ASSUME RequestAssumption ==
  /\ IsFiniteSet(StartRequests)
  /\ LateAnswers \in BOOLEAN

\* A task of the event loop.
Request(r) == <<"request", r>>
Session(s) == <<"session", s>>
Poller(s) == <<"poller", s>>
Tasks == {Request(r) : r \in Requests}
           \cup {Session(s) : s \in Sessions} \cup {Poller(s) : s \in Sessions}

VARIABLES
  ready,           \* the tasks the loop will resume, in order
  cancelled,       \* the tasks that will find a CancelledError
  request,         \* where each request is
  waiters,         \* the requests awaiting each session, in order
  session,         \* where each session's task is
  poller,          \* each session's RSSI task
  l2ping,          \* each session's process; "told" to terminate
  current_ping,    \* the session tracker; a process is named by its session
  session_counter, \* the last session created
  late             \* not in the code: sessions that missed a cancellation

vars == <<ready, cancelled, request, waiters, session, poller, l2ping,
          current_ping, session_counter, late>>

Ended == {"done", "cancelled"}

TypeOK ==
  /\ ready \in Seq(Tasks)
  /\ cancelled \subseteq Tasks
  /\ request \in [Requests -> {"none", "called", "awaiting", "returned", "raised",
                               "answered", "aborted"}]
  /\ waiters \in [Sessions -> Seq(Requests)]
  /\ session \in [Sessions -> {"none", "new", "info", "spawn", "running", "report"}
                                \cup Ended]
  /\ poller \in [Sessions -> {"none", "polling", "over"}]
  /\ l2ping \in [Sessions -> {"none", "alive", "told", "gone"}]
  /\ current_ping \in [id : Sessions \cup {None}, task : Sessions \cup {None},
                       proc : Sessions \cup {None}, rssi_task : Sessions \cup {None}]
  /\ session_counter \in Sessions \cup {0}
  /\ late \subseteq Sessions

Init ==
  /\ ready = <<>> /\ cancelled = {} /\ late = {}
  /\ request = [r \in Requests |-> "none"]
  /\ waiters = [s \in Sessions |-> <<>>]
  /\ session = [s \in Sessions |-> "none"]
  /\ poller = [s \in Sessions |-> "none"]
  /\ l2ping = [s \in Sessions |-> "none"]
  /\ current_ping = Nobody
  /\ session_counter = 0

-----------------------------------------------------------------------------
(***************************************************************************)
(* Cancelling and resuming tasks.                                          *)
(***************************************************************************)
\* The loop resumes t.
Resumed(t) == ready # <<>> /\ Head(ready) = t

\* What cancelling the RSSI task that the tracker names adds to cancelled.
RssiTask == IF current_ping.rssi_task = None THEN {} ELSE {Poller(current_ping.rssi_task)}

\* Mutant: the process is left to the session's task.
LeaveProc == UNCHANGED l2ping

\* The l2ping the tracker names is told to terminate, if it still runs.
TerminateProc ==
  l2ping' = [s \in Sessions |->
               IF s = current_ping.proc /\ l2ping[s] = "alive" THEN "told" ELSE l2ping[s]]

\* The task of the session the tracker names is not done.
TaskRuns == current_ping.task # None /\ session[current_ping.task] \notin Ended

-----------------------------------------------------------------------------
(***************************************************************************)
(* Requests.                                                               *)
(***************************************************************************)
\* The server creates a task for a request.
Arrive(r) ==
  /\ request[r] = "none"
  /\ request' = [request EXCEPT ![r] = "called"]
  /\ ready' = Append(ready, Request(r))
  /\ UNCHANGED <<cancelled, waiters, session, poller, l2ping, current_ping,
                 session_counter, late>>

\* A device whose UAP is not known is not pinged.
Refuse(r) ==
  /\ Resumed(Request(r)) /\ request[r] = "called"
  /\ r \in StartRequests
  /\ request' = [request EXCEPT ![r] = "answered"]
  /\ ready' = Tail(ready)
  /\ UNCHANGED <<cancelled, waiters, session, poller, l2ping, current_ping,
                 session_counter, late>>

\* Mutant: the session is awaited, not cancelled.
StopOnlyAwaits(r) ==
  /\ Resumed(Request(r)) /\ request[r] = "called"
  /\ TaskRuns
  /\ cancelled' = cancelled \cup RssiTask
  /\ TerminateProc
  /\ waiters' = [waiters EXCEPT ![current_ping.task] = Append(@, r)]
  /\ request' = [request EXCEPT ![r] = "awaiting"]
  /\ ready' = Tail(ready)
  /\ UNCHANGED <<session, poller, current_ping, session_counter, late>>

\* stop_current_ping until it awaits the cancelled session.
StopAndAwait(r) ==
  /\ Resumed(Request(r)) /\ request[r] = "called"
  /\ TaskRuns
  /\ cancelled' = cancelled \cup RssiTask \cup {Session(current_ping.task)}
  /\ TerminateProc
  /\ waiters' = [waiters EXCEPT ![current_ping.task] = Append(@, r)]
  /\ request' = [request EXCEPT ![r] = "awaiting"]
  /\ ready' = Tail(ready)
  /\ UNCHANGED <<session, poller, current_ping, session_counter, late>>

\* Mutant: the session is created under the last one's number.
StartUncounted(r) ==
  LET s == session_counter IN
  /\ r \in StartRequests
  /\ session_counter' = s + 1
  /\ session' = [session EXCEPT ![s] = "new"]
  /\ ready' = Append(Tail(ready), Session(s))
  /\ current_ping' = [Nobody EXCEPT !.id = s, !.task = s]

\* The tracker is cleared and l2ping_handler creates the next session.
StartNext(r) ==
  LET s == session_counter + 1 IN
  /\ r \in StartRequests
  /\ session_counter' = s
  /\ session' = [session EXCEPT ![s] = "new"]
  /\ ready' = Append(Tail(ready), Session(s))
  /\ current_ping' = [Nobody EXCEPT !.id = s, !.task = s]

\* The tracker is cleared and l2ping_stop_handler answers.
StopOnly(r) ==
  /\ r \in StopRequests
  /\ ready' = Tail(ready)
  /\ current_ping' = Nobody
  /\ UNCHANGED <<session_counter, session>>

\* What follows stop_current_ping in either handler.
Proceed(r) ==
  /\ request' = [request EXCEPT ![r] = "answered"]
  /\ StartNext(r) \/ StopOnly(r)

\* stop_current_ping finds no task to wait for.
StopAtOnce(r) ==
  /\ Resumed(Request(r)) /\ request[r] = "called"
  /\ ~TaskRuns
  /\ cancelled' = cancelled \cup RssiTask
  /\ TerminateProc
  /\ Proceed(r)
  /\ UNCHANGED <<waiters, poller, late>>

\* The awaited session ended by itself: the tracker is cleared, whoever it names.
StopReturns(r) ==
  /\ Resumed(Request(r)) /\ request[r] = "returned"
  /\ Proceed(r)
  /\ UNCHANGED <<cancelled, waiters, poller, l2ping, late>>

\* The awaited session ended cancelled.  Awaiting it raises CancelledError, which
\* is no Exception: it leaves stop_current_ping and then the handler.
StopRaises(r) ==
  /\ Resumed(Request(r)) /\ request[r] = "raised"
  /\ request' = [request EXCEPT ![r] = "aborted"]
  /\ ready' = Tail(ready)
  /\ UNCHANGED <<cancelled, waiters, session, poller, l2ping, current_ping,
                 session_counter, late>>

RequestStep(r) ==
  Refuse(r) \/ StopAndAwait(r) \/ StopAtOnce(r) \/ StopReturns(r) \/ StopRaises(r)

-----------------------------------------------------------------------------
(***************************************************************************)
(* Sessions.                                                               *)
(***************************************************************************)
\* A task's end: the requests that await it are scheduled in their order.
End(s, how) ==
  /\ session' = [session EXCEPT ![s] = how]
  /\ request' = [r \in Requests |->
                   IF r \in Range(waiters[s])
                   THEN IF how = "cancelled" THEN "raised" ELSE "returned"
                   ELSE request[r]]
  /\ ready' = Tail(ready) \o [i \in 1 .. Len(waiters[s]) |-> Request(waiters[s][i])]

\* Mutants: finally clears without looking; finally forgets the RSSI task.
FinallyClearsAll(s) ==
  /\ cancelled' = (cancelled \cup RssiTask) \ {Session(s)}
  /\ current_ping' = Nobody
FinallyKeepsRssi(s) ==
  /\ cancelled' = cancelled \ {Session(s)}
  /\ current_ping' = IF current_ping.id = s THEN Nobody ELSE current_ping

\* The finally clause: the tracker is cleared by the session it names only.
Finally(s) ==
  IF current_ping.id = s
  THEN /\ cancelled' = (cancelled \cup RssiTask) \ {Session(s)}
       /\ current_ping' = Nobody
  ELSE /\ cancelled' = cancelled \ {Session(s)}
       /\ UNCHANGED current_ping

\* A task cancelled before its first step never enters the try statement.
CancelUnstarted(s) ==
  /\ Resumed(Session(s)) /\ Session(s) \in cancelled
  /\ session[s] = "new"
  /\ cancelled' = cancelled \ {Session(s)}
  /\ End(s, "cancelled")
  /\ UNCHANGED <<waiters, poller, l2ping, current_ping, session_counter, late>>

\* Cancelled at an await.  Cancelling the creation of a process kills it.
Cancel(s) ==
  /\ Resumed(Session(s)) /\ Session(s) \in cancelled
  /\ session[s] \in {"info", "spawn", "running", "report"}
  /\ l2ping' = IF session[s] = "spawn" /\ l2ping[s] = "alive"
               THEN [l2ping EXCEPT ![s] = "told"] ELSE l2ping
  /\ Finally(s)
  /\ End(s, "cancelled")
  /\ UNCHANGED <<waiters, poller, session_counter, late>>

\* hcitool has answered before the cancellation got there, and wait_for returns.
AnswerWins(s) ==
  /\ LateAnswers
  /\ Resumed(Session(s)) /\ Session(s) \in cancelled
  /\ session[s] = "info"
  /\ cancelled' = cancelled \ {Session(s)}
  /\ late' = late \cup {s}
  /\ ready' = Tail(ready)
  /\ UNCHANGED <<request, waiters, session, poller, l2ping, current_ping, session_counter>>

\* The task's first step: it asks for the device's information.
Begin(s) ==
  /\ Resumed(Session(s)) /\ Session(s) \notin cancelled
  /\ session[s] = "new"
  /\ session' = [session EXCEPT ![s] = "info"]
  /\ ready' = Tail(ready)
  /\ UNCHANGED <<cancelled, request, waiters, poller, l2ping, current_ping,
                 session_counter, late>>

\* The information is broadcast and l2ping is being created.
Spawn(s) ==
  /\ Resumed(Session(s)) /\ Session(s) \notin cancelled
  /\ session[s] = "info"
  /\ session' = [session EXCEPT ![s] = "spawn"]
  /\ l2ping' = [l2ping EXCEPT ![s] = "alive"]
  /\ ready' = Tail(ready)
  /\ UNCHANGED <<cancelled, request, waiters, poller, current_ping, session_counter, late>>

\* There is no l2ping to run: the exception is reported.
SpawnFails(s) ==
  /\ Resumed(Session(s)) /\ Session(s) \notin cancelled
  /\ session[s] = "spawn"
  /\ session' = [session EXCEPT ![s] = "report"]
  /\ l2ping' = [l2ping EXCEPT ![s] = "none"]
  /\ ready' = Tail(ready)
  /\ UNCHANGED <<cancelled, request, waiters, poller, current_ping, session_counter, late>>

\* Mutant: the test looks for any session.
SupersededByNone(s) == current_ping.id = None

\* The test of the session's id after l2ping was created.
Superseded(s) == current_ping.id # s

\* Superseded while starting: l2ping is terminated, the task returns.
BailOut(s) ==
  /\ Resumed(Session(s)) /\ Session(s) \notin cancelled
  /\ session[s] = "spawn" /\ Superseded(s)
  /\ l2ping' = [l2ping EXCEPT ![s] = IF @ = "alive" THEN "told" ELSE @]
  /\ Finally(s)
  /\ End(s, "done")
  /\ UNCHANGED <<waiters, poller, session_counter, late>>

\* The session runs: its process and its RSSI task are entered in the tracker.
Run(s) ==
  /\ Resumed(Session(s)) /\ Session(s) \notin cancelled
  /\ session[s] = "spawn" /\ ~Superseded(s)
  /\ session' = [session EXCEPT ![s] = "running"]
  /\ poller' = [poller EXCEPT ![s] = "polling"]
  /\ current_ping' = [current_ping EXCEPT !.proc = s, !.rssi_task = s]
  /\ ready' = Append(Tail(ready), Poller(s))
  /\ UNCHANGED <<cancelled, request, waiters, l2ping, session_counter, late>>

\* l2ping's output has ended; the end is broadcast.
Complete(s) ==
  /\ Resumed(Session(s)) /\ Session(s) \notin cancelled
  /\ session[s] = "running"
  /\ session' = [session EXCEPT ![s] = "report"]
  /\ ready' = Tail(ready)
  /\ UNCHANGED <<cancelled, request, waiters, poller, l2ping, current_ping,
                 session_counter, late>>

\* After the last broadcast the task returns.
Return(s) ==
  /\ Resumed(Session(s)) /\ Session(s) \notin cancelled
  /\ session[s] = "report"
  /\ Finally(s)
  /\ End(s, "done")
  /\ UNCHANGED <<waiters, poller, l2ping, session_counter, late>>

SessionStep(s) ==
  \/ CancelUnstarted(s) \/ Cancel(s) \/ AnswerWins(s)
  \/ Begin(s) \/ Spawn(s) \/ SpawnFails(s) \/ BailOut(s)
  \/ Run(s) \/ Complete(s) \/ Return(s)

-----------------------------------------------------------------------------
(***************************************************************************)
(* RSSI tasks, and what the tasks wait for.                                *)
(***************************************************************************)
\* poll_rssi: a cancelled task ends, any other polls again whatever happened.
PollerStep(s) ==
  /\ Resumed(Poller(s))
  /\ poller' = [poller EXCEPT ![s] = IF Poller(s) \in cancelled THEN "over" ELSE @]
  /\ cancelled' = cancelled \ {Poller(s)}
  /\ ready' = Tail(ready)
  /\ UNCHANGED <<request, waiters, session, l2ping, current_ping, session_counter, late>>

\* What a session or an RSSI task awaits is there, or is cancelled.  A line of output
\* and a poll that is not cancelled are only broadcast: they change nothing here.
MayWake(t) ==
  \E s \in Sessions :
    \/ t = Poller(s) /\ poller[s] = "polling" /\ t \in cancelled
    \/ t = Session(s) /\ session[s] \in {"info", "spawn", "report"}
    \/ t = Session(s) /\ session[s] = "running" /\ (l2ping[s] = "gone" \/ t \in cancelled)

Wake(t) ==
  /\ MayWake(t) /\ t \notin Range(ready)
  /\ ready' = Append(ready, t)
  /\ UNCHANGED <<cancelled, request, waiters, session, poller, l2ping, current_ping,
                 session_counter, late>>

\* The process ends, told or by itself.
Exit(s) ==
  /\ l2ping[s] \in {"alive", "told"}
  /\ l2ping' = [l2ping EXCEPT ![s] = "gone"]
  /\ UNCHANGED <<ready, cancelled, request, waiters, session, poller, current_ping,
                 session_counter, late>>

Loop == \/ \E r \in Requests : RequestStep(r)
        \/ \E s \in Sessions : SessionStep(s) \/ PollerStep(s)

Next == \/ Loop
        \/ \E r \in Requests : Arrive(r)
        \/ \E t \in Tasks : Wake(t)
        \/ \E s \in Sessions : Exit(s)

Spec == Init /\ [][Next]_vars

\* The loop runs, what is awaited comes (hcitool has a timeout, clients read), and
\* a terminated l2ping ends.  An l2ping nobody terminates may run for ever.
FairSpec ==
  /\ Spec
  /\ WF_vars(Loop)
  /\ \A t \in Tasks : WF_vars(Wake(t))
  /\ \A s \in Sessions : WF_vars(l2ping[s] = "told" /\ Exit(s))

-----------------------------------------------------------------------------
(***************************************************************************)
(* Properties.                                                             *)
(***************************************************************************)
\* "One at a time" (the comment on the tracker): no two sessions are past the test of
\* their id, even when a request clears the tracker late.
OneAtATime ==
  \A s, t \in Sessions :
    session[s] = "running" /\ session[t] = "running" => s = t

\* What runs can be stopped: a running session is the one the tracker names, with its
\* task, its process and its RSSI task.
Reachable ==
  \A s \in Sessions :
    session[s] = "running" =>
      current_ping = [id |-> s, task |-> s, proc |-> s, rssi_task |-> s]

\* An ended session leaves nothing behind: its l2ping is gone or was told to go, and
\* its RSSI task is over or cancelled.
LeavesNothing ==
  \A s \in Sessions : session[s] \in Ended =>
    /\ l2ping[s] # "alive"
    /\ poller[s] = "polling" => Poller(s) \in cancelled

\* Every request is answered, or aborted by the cancellation it caused, unless it
\* awaits a session that missed the cancellation.
RequestsEnd ==
  \A r \in Requests :
    request[r] = "called" ~>
      \/ request[r] \in {"answered", "aborted"}
      \/ \E s \in late : r \in Range(waiters[s])

\* A cancelled session goes quiet for good, l2ping and RSSI task included, unless it
\* missed the cancellation.
StopSilences ==
  \A s \in Sessions :
    Session(s) \in cancelled ~>
      \/ s \in late
      \/ session[s] \in Ended /\ l2ping[s] \in {"none", "gone"} /\ poller[s] # "polling"

\* "Replace any session already running" (the comment in l2ping_handler): a request to
\* start is refused or starts a session, it is not aborted.
StartReplaces == \A r \in StartRequests : request[r] # "aborted"
=============================================================================
