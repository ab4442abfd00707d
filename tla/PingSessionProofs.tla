-------------------------- MODULE PingSessionProofs --------------------------
(***************************************************************************)
(* Proofs about PingSession, for any number of requests.                   *)
(***************************************************************************)
EXTENDS PingSession, FiniteSetTheorems, TLAPS

-----------------------------------------------------------------------------
(***************************************************************************)
(* Tasks.                                                                  *)
(***************************************************************************)
\* Sessions are numbered from 1.
LEMMA SessionNumbers ==
  /\ Sessions \subseteq Nat /\ None \notin Sessions
  /\ Cardinality(StartRequests) \in Nat
<1>1. Cardinality(StartRequests) \in Nat
  BY RequestAssumption, FS_CardinalityType
<1> QED
  BY <1>1 DEF Sessions, None

\* No two tasks are the same.
LEMMA TasksDiffer ==
  /\ \A r, q : Request(r) = Request(q) => r = q
  /\ \A s, t : (Session(s) = Session(t) => s = t) /\ (Poller(s) = Poller(t) => s = t)
  /\ \A r, s : Request(r) # Session(s) /\ Request(r) # Poller(s)
  /\ \A s, t : Session(s) # Poller(t)
  BY DEF Request, Session, Poller

\* Every task of the model is one the loop knows.
LEMMA TaskTypes ==
  /\ \A r \in Requests : Request(r) \in Tasks
  /\ \A s \in Sessions : Session(s) \in Tasks /\ Poller(s) \in Tasks
  BY DEF Tasks

\* There is no session None.
LEMMA NoSessionNone == Session(None) \notin Tasks
  BY SessionNumbers, TasksDiffer DEF Tasks

-----------------------------------------------------------------------------
(***************************************************************************)
(* Queues.                                                                 *)
(***************************************************************************)
\* What is left when the first task is resumed.
LEMMA TailIs ==
  ASSUME NEW q \in Seq(Tasks), q # <<>>
  PROVE  /\ Tail(q) \in Seq(Tasks) /\ Len(q) \in Nat \ {0} /\ Len(Tail(q)) = Len(q) - 1
         /\ \A k \in 1 .. Len(q) - 1 : Tail(q)[k] = q[k + 1]
         /\ Range(Tail(q)) \subseteq Range(q) /\ Head(q) = q[1]
<1>1. Tail(q) \in Seq(Tasks) /\ Len(q) \in Nat \ {0} /\ Len(Tail(q)) = Len(q) - 1
  OBVIOUS
<1>2. \A k \in 1 .. Len(q) - 1 : Tail(q)[k] = q[k + 1]
  OBVIOUS
<1>3. DOMAIN q = 1 .. Len(q) /\ DOMAIN Tail(q) = 1 .. Len(q) - 1
  OBVIOUS
<1>4. \A k \in 1 .. Len(q) - 1 : k + 1 \in 1 .. Len(q)
  BY <1>1
<1> QED
  BY <1>1, <1>2, <1>3, <1>4 DEF Range

\* What a queue is when tasks are appended.
LEMMA ConcatIs ==
  ASSUME NEW q \in Seq(Tasks), NEW w \in Seq(Tasks)
  PROVE  /\ q \o w \in Seq(Tasks) /\ Len(q \o w) = Len(q) + Len(w)
         /\ Len(q) \in Nat /\ Len(w) \in Nat
         /\ \A k \in 1 .. Len(q) : (q \o w)[k] = q[k]
         /\ \A k \in 1 .. Len(w) : (q \o w)[Len(q) + k] = w[k]
         /\ \A k \in 1 .. Len(q \o w) :
              k \in 1 .. Len(q) \/ k - Len(q) \in 1 .. Len(w)
         /\ Range(q \o w) = Range(q) \cup Range(w)
<1>1. q \o w \in Seq(Tasks) /\ Len(q \o w) = Len(q) + Len(w) /\ Len(q) \in Nat /\ Len(w) \in Nat
  OBVIOUS
<1>2. \A k \in 1 .. Len(q) : (q \o w)[k] = q[k]
  OBVIOUS
<1>3. \A k \in 1 .. Len(w) : (q \o w)[Len(q) + k] = w[k]
  OBVIOUS
<1>4. \A k \in 1 .. Len(q \o w) : k \in 1 .. Len(q) \/ k - Len(q) \in 1 .. Len(w)
  BY <1>1
<1>5. Range(q \o w) = Range(q) \cup Range(w)
  <2>1. /\ DOMAIN q = 1 .. Len(q) /\ DOMAIN w = 1 .. Len(w)
        /\ DOMAIN (q \o w) = 1 .. Len(q) + Len(w)
    OBVIOUS
  <2>2. \A k \in 1 .. Len(q \o w) : k - Len(q) \in 1 .. Len(w) =>
          (q \o w)[k] = w[k - Len(q)]
    BY <1>1, <1>3
  <2>3. \A k \in 1 .. Len(w) : Len(q) + k \in 1 .. Len(q) + Len(w)
    BY <1>1
  <2>4. \A k \in 1 .. Len(q) : k \in 1 .. Len(q) + Len(w)
    BY <1>1
  <2>5. Range(q \o w) \subseteq Range(q) \cup Range(w)
    BY <1>1, <1>2, <1>4, <2>1, <2>2 DEF Range
  <2>6. Range(q) \subseteq Range(q \o w)
    BY <1>2, <2>1, <2>4 DEF Range
  <2>7. Range(w) \subseteq Range(q \o w)
    BY <1>3, <2>1, <2>3 DEF Range
  <2> QED
    BY <2>5, <2>6, <2>7
<1> QED
  BY <1>1, <1>2, <1>3, <1>4, <1>5

\* To append a task is to append a queue of one.
LEMMA AppendIs ==
  ASSUME NEW q \in Seq(Tasks), NEW t \in Tasks
  PROVE  Append(q, t) = q \o <<t>> /\ <<t>> \in Seq(Tasks) /\ Range(<<t>>) = {t}
<1>1. Append(q, t) = q \o <<t>> /\ <<t>> \in Seq(Tasks)
  OBVIOUS
<1>2. Range(<<t>>) = {t}
  BY DEF Range
<1> QED
  BY <1>1, <1>2

\* A session is in the queue once.
Once(q) ==
  \A s \in Sessions : \A i, j \in 1 .. Len(q) :
    q[i] = Session(s) /\ q[j] = Session(s) => i = j

\* Request r will be resumed, and before session s.
Ahead(q, r, s) ==
  \E i \in 1 .. Len(q) : q[i] = Request(r) /\ \A j \in 1 .. i : q[j] # Session(s)

\* The session that is resumed is not left in the queue.
LEMMA TailOnce ==
  ASSUME NEW q \in Seq(Tasks), q # <<>>, Once(q)
  PROVE  /\ Once(Tail(q))
         /\ \A s \in Sessions : Head(q) = Session(s) => Session(s) \notin Range(Tail(q))
<1>1. \A k \in 1 .. Len(Tail(q)) : Tail(q)[k] = q[k + 1] /\ k + 1 \in 1 .. Len(q)
  BY TailIs
<1>2. Once(Tail(q))
  <2> SUFFICES ASSUME NEW s \in Sessions, NEW i \in 1 .. Len(Tail(q)),
                      NEW j \in 1 .. Len(Tail(q)),
                      Tail(q)[i] = Session(s), Tail(q)[j] = Session(s)
               PROVE  i = j
    BY DEF Once
  <2>1. i + 1 = j + 1
    BY <1>1 DEF Once
  <2> QED
    BY <2>1
<1>3. ASSUME NEW s \in Sessions, Head(q) = Session(s), Session(s) \in Range(Tail(q))
      PROVE  FALSE
  <2>1. PICK k \in 1 .. Len(Tail(q)) : Tail(q)[k] = Session(s)
    BY <1>3, TailIs DEF Range
  <2>2. q[1] = Session(s) /\ q[k + 1] = Session(s) /\ 1 \in 1 .. Len(q) /\ k + 1 \in 1 .. Len(q)
    BY <1>1, <1>3, <2>1, TailIs
  <2>3. 1 = k + 1
    BY <2>2 DEF Once
  <2> QED
    BY <2>1, <2>3
<1> QED
  BY <1>2, <1>3

\* Two queues that share no session, one after the other.
LEMMA ConcatOnce ==
  ASSUME NEW q \in Seq(Tasks), NEW w \in Seq(Tasks), Once(q), Once(w),
         \A s \in Sessions : Session(s) \in Range(w) => Session(s) \notin Range(q)
  PROVE  Once(q \o w)
<1> SUFFICES ASSUME NEW s \in Sessions, NEW i \in 1 .. Len(q \o w), NEW j \in 1 .. Len(q \o w),
                    (q \o w)[i] = Session(s), (q \o w)[j] = Session(s)
             PROVE  i = j
  BY DEF Once
<1>1. \A k \in 1 .. Len(q \o w) :
        \/ k \in 1 .. Len(q) /\ (q \o w)[k] = q[k] /\ q[k] \in Range(q)
        \/ k - Len(q) \in 1 .. Len(w) /\ (q \o w)[k] = w[k - Len(q)]
           /\ w[k - Len(q)] \in Range(w)
  <2> TAKE k \in 1 .. Len(q \o w)
  <2>1. CASE k \in 1 .. Len(q)
    BY <2>1, ConcatIs DEF Range
  <2>2. CASE k - Len(q) \in 1 .. Len(w)
    <3>1. Len(q) + (k - Len(q)) = k
      BY ConcatIs
    <3> QED
      BY <2>2, <3>1, ConcatIs DEF Range
  <2> QED
    BY <2>1, <2>2, ConcatIs
<1>2. CASE i \in 1 .. Len(q) /\ j \in 1 .. Len(q)
  BY <1>2, ConcatIs DEF Once
<1>3. CASE i - Len(q) \in 1 .. Len(w) /\ j - Len(q) \in 1 .. Len(w)
  <2>1. w[i - Len(q)] = Session(s) /\ w[j - Len(q)] = Session(s)
    <3>1. Len(q) + (i - Len(q)) = i /\ Len(q) + (j - Len(q)) = j
      BY ConcatIs
    <3> QED
      BY <1>3, <3>1, ConcatIs
  <2>2. i - Len(q) = j - Len(q)
    BY <1>3, <2>1 DEF Once
  <2> QED
    BY <2>2, ConcatIs
<1> QED
  BY <1>1, <1>2, <1>3

\* Who has a request ahead of it is not resumed.
LEMMA AheadHead ==
  ASSUME NEW q \in Seq(Tasks), NEW r, NEW s, Ahead(q, r, s)
  PROVE  q # <<>> /\ Head(q) # Session(s)
<1>1. PICK i \in 1 .. Len(q) : q[i] = Request(r) /\ \A j \in 1 .. i : q[j] # Session(s)
  BY DEF Ahead
<1>2. q # <<>> /\ 1 \in 1 .. i
  BY <1>1
<1> QED
  BY <1>1, <1>2, TailIs

\* A request stays ahead of a session while another task is resumed.
LEMMA AheadTail ==
  ASSUME NEW q \in Seq(Tasks), NEW r, NEW s, Ahead(q, r, s), Head(q) # Request(r)
  PROVE  Ahead(Tail(q), r, s)
<1>1. PICK i \in 1 .. Len(q) : q[i] = Request(r) /\ \A j \in 1 .. i : q[j] # Session(s)
  BY DEF Ahead
<1>2. q # <<>> /\ i # 1
  BY <1>1, TailIs
<1>3. i - 1 \in 1 .. Len(Tail(q)) /\ Tail(q)[i - 1] = Request(r)
  <2>1. i - 1 \in 1 .. Len(q) - 1 /\ (i - 1) + 1 = i
    BY <1>2
  <2> QED
    BY <1>1, <1>2, <2>1, TailIs
<1>4. \A j \in 1 .. i - 1 : Tail(q)[j] # Session(s)
  <2> TAKE j \in 1 .. i - 1
  <2>1. j \in 1 .. Len(q) - 1 /\ j + 1 \in 1 .. i
    BY <1>1
  <2> QED
    BY <1>1, <1>2, <2>1, TailIs
<1> QED
  BY <1>3, <1>4 DEF Ahead

\* What is appended does not overtake.
LEMMA AheadConcat ==
  ASSUME NEW q \in Seq(Tasks), NEW w \in Seq(Tasks), NEW r, NEW s, Ahead(q, r, s)
  PROVE  Ahead(q \o w, r, s)
<1>1. PICK i \in 1 .. Len(q) : q[i] = Request(r) /\ \A j \in 1 .. i : q[j] # Session(s)
  BY DEF Ahead
<1>2. i \in 1 .. Len(q \o w) /\ \A j \in 1 .. i : j \in 1 .. Len(q)
  BY <1>1, ConcatIs
<1> QED
  BY <1>1, <1>2, ConcatIs DEF Ahead

\* A request in the queue is ahead of a session that is not.
LEMMA AheadOfAbsent ==
  ASSUME NEW q \in Seq(Tasks), NEW r, NEW s, Request(r) \in Range(q), Session(s) \notin Range(q)
  PROVE  Ahead(q, r, s)
<1>1. DOMAIN q = 1 .. Len(q) /\ Len(q) \in Nat
  OBVIOUS
<1>2. PICK i \in 1 .. Len(q) : q[i] = Request(r)
  BY <1>1 DEF Range
<1>3. \A j \in 1 .. i : j \in 1 .. Len(q)
  BY <1>1
<1> QED
  BY <1>1, <1>2, <1>3 DEF Ahead, Range

\* A request that is ahead of a session is in the queue.
LEMMA AheadIsIn ==
  ASSUME NEW q \in Seq(Tasks), NEW r, NEW s, Ahead(q, r, s)
  PROVE  Request(r) \in Range(q)
<1>1. DOMAIN q = 1 .. Len(q)
  OBVIOUS
<1> QED
  BY <1>1 DEF Ahead, Range
-----------------------------------------------------------------------------
(***************************************************************************)
(* The invariant.                                                          *)
(***************************************************************************)
\* What has not been created has left no trace.
Fresh ==
  \A s \in Sessions : s > session_counter =>
    /\ session[s] = "none" /\ waiters[s] = <<>>
    /\ Session(s) \notin Range(ready) /\ Session(s) \notin cancelled

\* The tracker names one session; a process and an RSSI task only once it runs.
Tracker ==
  /\ current_ping.task = current_ping.id
  /\ current_ping.id <= session_counter
  /\ current_ping.rssi_task = current_ping.proc
  /\ current_ping.proc # None =>
       current_ping.proc = current_ping.id /\ session[current_ping.id] \in {"running", "report"}

(***************************************************************************)
(* A session that requests wait for is the one the tracker names, or was   *)
(* cancelled before its first step; and each request waits for one.        *)
(***************************************************************************)
Waiting ==
  \A s \in Sessions :
    /\ waiters[s] # <<>> /\ session[s] = "new" => Session(s) \in cancelled
    /\ waiters[s] # <<>> /\ session[s] \notin Ended /\ current_ping.id # s => session[s] = "new"
    /\ \A r \in Range(waiters[s]) :
         /\ request[r] \notin {"none", "called"}
         /\ session[s] \notin Ended => request[r] = "awaiting"
    /\ \A t \in Sessions : t # s => Range(waiters[s]) \cap Range(waiters[t]) = {}

(***************************************************************************)
(* A request whose session has returned is resumed before the session that *)
(* the tracker names by then: that one has not begun when the request      *)
(* clears the tracker.                                                     *)
(***************************************************************************)
Returned ==
  \A r \in Requests : request[r] = "returned" =>
    /\ Ahead(ready, r, current_ping.id)
    /\ current_ping.id # None => session[current_ping.id] \in {"new"} \cup Ended

\* Which processes may run.
Processes ==
  \A s \in Sessions :
    /\ session[s] \in {"none", "new", "info"} => l2ping[s] = "none"
    /\ session[s] \in {"report"} \cup Ended => l2ping[s] # "alive"
    /\ session[s] = "running" /\ Session(s) \in cancelled => l2ping[s] # "alive"
    /\ session[s] = "running" /\ Session(s) \in Range(ready) =>
         l2ping[s] = "gone" \/ Session(s) \in cancelled

\* An RSSI task that polls is cancelled or can be.
Polling ==
  \A s \in Sessions :
    poller[s] = "polling" /\ Poller(s) \notin cancelled => current_ping.rssi_task = s

\* Every session was started by a request that has been answered.
Answered == {r \in StartRequests : request[r] = "answered"}
Counted == session_counter <= Cardinality(Answered)

IInv ==
  /\ TypeOK /\ Fresh /\ Tracker /\ Reachable /\ Waiting /\ Once(ready)
  /\ Returned /\ Processes /\ Polling /\ Counted

-----------------------------------------------------------------------------
(***************************************************************************)
(* What the steps do to the queue.                                         *)
(***************************************************************************)
\* The first task is resumed, w is appended.
LEMMA Consumes ==
  ASSUME ready \in Seq(Tasks), Once(ready), NEW t, Resumed(t), NEW w \in Seq(Tasks), Once(w),
         \A s \in Sessions : Session(s) \in Range(w) => Session(s) \notin Range(ready),
         ready' = Tail(ready) \o w
  PROVE  /\ ready' \in Seq(Tasks) /\ Once(ready')
         /\ Range(w) \subseteq Range(ready') /\ Range(ready') \subseteq Range(ready) \cup Range(w)
         /\ \A r, s : Ahead(ready, r, s) => t # Session(s) /\ (t # Request(r) => Ahead(ready', r, s))
         /\ \A s \in Sessions : t = Session(s) => Session(s) \notin Range(ready')
<1>1. ready # <<>> /\ Head(ready) = t
  BY DEF Resumed
<1>2. Tail(ready) \in Seq(Tasks) /\ Range(Tail(ready)) \subseteq Range(ready)
  BY <1>1, TailIs
<1>3. ready' \in Seq(Tasks) /\ Range(ready') = Range(Tail(ready)) \cup Range(w)
  BY <1>2, ConcatIs
<1>4. Once(ready')
  BY <1>1, <1>2, TailOnce, ConcatOnce
<1>5. ASSUME NEW r, NEW s, Ahead(ready, r, s)
      PROVE  t # Session(s) /\ (t # Request(r) => Ahead(ready', r, s))
  BY <1>1, <1>2, <1>5, AheadHead, AheadTail, AheadConcat
<1>6. ASSUME NEW s \in Sessions, t = Session(s)
      PROVE  Session(s) \notin Range(ready')
  <2>1. Head(ready) = Session(s) /\ Session(s) \notin Range(Tail(ready))
    BY <1>1, <1>6, TailOnce
  <2>2. Session(s) \in Range(ready)
    <3>1. ready[1] = Session(s) /\ 1 \in DOMAIN ready
      BY <1>1, <2>1, TailIs
    <3> QED
      BY <3>1 DEF Range
  <2> QED
    BY <1>3, <2>1, <2>2
<1> QED
  BY <1>2, <1>3, <1>4, <1>5, <1>6

\* The first task is resumed and nothing is appended.
LEMMA ConsumesOnly ==
  ASSUME ready \in Seq(Tasks), Once(ready), NEW t, Resumed(t), ready' = Tail(ready)
  PROVE  /\ ready' \in Seq(Tasks) /\ Once(ready') /\ Range(ready') \subseteq Range(ready)
         /\ \A r, s : Ahead(ready, r, s) => t # Session(s) /\ (t # Request(r) => Ahead(ready', r, s))
         /\ \A s \in Sessions : t = Session(s) => Session(s) \notin Range(ready')
<1>1. ready # <<>>
  BY DEF Resumed
<1>2. Tail(ready) \in Seq(Tasks)
  BY <1>1, TailIs
<1>3. Tail(ready) \o <<>> = Tail(ready) /\ <<>> \in Seq(Tasks)
  BY <1>2
<1>4. Once(<<>>) /\ Range(<<>>) = {}
  BY DEF Once, Range
<1> QED
  BY <1>3, <1>4, Consumes

\* A task is appended.
LEMMA Appends ==
  ASSUME ready \in Seq(Tasks), Once(ready), NEW t \in Tasks, ready' = Append(ready, t),
         \A s \in Sessions : t = Session(s) => t \notin Range(ready)
  PROVE  /\ ready' \in Seq(Tasks) /\ Once(ready') /\ Range(ready') = Range(ready) \cup {t}
         /\ \A r, s : Ahead(ready, r, s) => Ahead(ready', r, s)
<1>1. ready' = ready \o <<t>> /\ <<t>> \in Seq(Tasks) /\ Range(<<t>>) = {t}
  BY AppendIs
<1>2. Once(<<t>>)
  BY DEF Once
<1>3. ready' \in Seq(Tasks) /\ Range(ready') = Range(ready) \cup {t}
  BY <1>1, ConcatIs, ZenonT(60)
<1>4. Once(ready')
  <2>1. \A s \in Sessions : Session(s) \in Range(<<t>>) => Session(s) \notin Range(ready)
    BY <1>1
  <2> QED
    BY <1>1, <1>2, <2>1, ConcatOnce
<1>5. \A r, s : Ahead(ready, r, s) => Ahead(ready', r, s)
  BY <1>1, AheadConcat
<1> QED
  BY <1>3, <1>4, <1>5

\* The queue at the end of a session: the requests that waited are appended.
LEMMA EndQueues ==
  ASSUME TypeOK, NEW s \in Sessions
  PROVE  LET w == [i \in 1 .. Len(waiters[s]) |-> Request(waiters[s][i])]
         IN  /\ w \in Seq(Tasks) /\ Once(w)
             /\ \A t \in Sessions : Session(t) \notin Range(w)
             /\ \A r : Request(r) \in Range(w) <=> r \in Range(waiters[s])
<1> DEFINE w == [i \in 1 .. Len(waiters[s]) |-> Request(waiters[s][i])]
<1>1. waiters[s] \in Seq(Requests)
  BY DEF TypeOK
<1>2. Len(waiters[s]) \in Nat /\ DOMAIN waiters[s] = 1 .. Len(waiters[s])
      /\ \A i \in 1 .. Len(waiters[s]) : waiters[s][i] \in Requests
  BY <1>1
<1>3. \A i \in 1 .. Len(waiters[s]) : Request(waiters[s][i]) \in Tasks
  BY <1>2, TaskTypes
<1>4. w \in Seq(Tasks) /\ Len(w) = Len(waiters[s]) /\ DOMAIN w = 1 .. Len(waiters[s])
  BY <1>2, <1>3
<1>5. \A i \in 1 .. Len(w) : w[i] = Request(waiters[s][i])
  BY <1>4
<1> HIDE DEF w
<1>6. Once(w)
  BY <1>4, <1>5, TasksDiffer DEF Once
<1>7. \A t \in Sessions : Session(t) \notin Range(w)
  BY <1>4, <1>5, TasksDiffer DEF Range
<1>8. \A r : Request(r) \in Range(w) <=> r \in Range(waiters[s])
  BY <1>2, <1>4, <1>5, TasksDiffer DEF Range
<1> QED
  BY <1>4, <1>6, <1>7, <1>8 DEF w

\* A queue holds tasks only.
LEMMA SeqRange == ASSUME NEW q \in Seq(Tasks) PROVE Range(q) \subseteq Tasks
<1>1. DOMAIN q = 1 .. Len(q) /\ \A k \in 1 .. Len(q) : q[k] \in Tasks
  OBVIOUS
<1> QED
  BY <1>1 DEF Range

\* One more request waits.
LEMMA AppendRange ==
  ASSUME NEW q \in Seq(Requests), NEW r \in Requests
  PROVE  Range(Append(q, r)) = Range(q) \cup {r}
<1>1. /\ DOMAIN q = 1 .. Len(q) /\ Len(q) \in Nat
      /\ DOMAIN Append(q, r) = 1 .. Len(q) + 1
  OBVIOUS
<1>2. /\ \A k \in 1 .. Len(q) : Append(q, r)[k] = q[k] /\ k \in 1 .. Len(q) + 1
      /\ Append(q, r)[Len(q) + 1] = r /\ Len(q) + 1 \in 1 .. Len(q) + 1
  BY <1>1
<1>3. \A k \in 1 .. Len(q) + 1 : k \in 1 .. Len(q) \/ k = Len(q) + 1
  BY <1>1
<1>4. Range(Append(q, r)) \subseteq Range(q) \cup {r}
  BY <1>1, <1>2, <1>3 DEF Range
<1>5. Range(q) \cup {r} \subseteq Range(Append(q, r))
  BY <1>1, <1>2 DEF Range
<1> QED
  BY <1>4, <1>5

-----------------------------------------------------------------------------
(***************************************************************************)
(* Every step keeps the invariant.                                         *)
(***************************************************************************)
\* No session has been created at the start.
LEMMA InitInv == Init => IInv
<1> SUFFICES ASSUME Init PROVE IInv
  OBVIOUS
<1>1. TypeOK
  BY SessionNumbers DEF Init, TypeOK, Nobody
<1>2. Range(<<>>) = {}
  BY DEF Range
<1>3. Fresh /\ Tracker /\ Reachable /\ Processes /\ Polling /\ Returned
  BY <1>2, SessionNumbers DEF Init, Fresh, Tracker, Reachable, Processes, Polling, Returned,
     Nobody, None, Ended
<1>4. Waiting
  BY <1>2 DEF Init, Waiting
<1>5. Once(ready)
  BY DEF Init, Once
<1>6. Counted
  <2>1. Answered \in SUBSET StartRequests
    BY DEF Answered
  <2> QED
    BY <2>1, RequestAssumption, FS_Subset, FS_CardinalityType DEF Init, Counted
<1> QED
  BY <1>1, <1>3, <1>4, <1>5, <1>6 DEF IInv

\* Requests that have been answered are not asked again.
LEMMA CountedKept ==
  ASSUME IInv, session_counter' = session_counter,
         \A q \in StartRequests : request[q] = "answered" => request'[q] = "answered"
  PROVE  Counted'
<1>1. Answered' \in SUBSET StartRequests /\ Answered \in SUBSET Answered'
  BY DEF Answered
<1>2. IsFiniteSet(Answered')
  BY <1>1, RequestAssumption, FS_Subset
<1>3. Cardinality(Answered) <= Cardinality(Answered') /\ IsFiniteSet(Answered)
  BY <1>1, <1>2, FS_Subset
<1>4. Cardinality(Answered) \in Nat /\ Cardinality(Answered') \in Nat /\ session_counter \in Nat
  <2>1. session_counter \in Nat
    BY SessionNumbers DEF IInv, TypeOK
  <2> QED
    BY <1>2, <1>3, <2>1, FS_CardinalityType
<1> QED
  BY <1>3, <1>4 DEF IInv, Counted

\* A request is scheduled.
LEMMA ArriveInv ==
  ASSUME IInv, NEW r \in Requests, Arrive(r)
  PROVE  IInv'
<1>1. TypeOK /\ Once(ready) /\ ready \in Seq(Tasks) /\ request \in [Requests -> {"none", "called",
        "awaiting", "returned", "raised", "answered", "aborted"}]
  BY DEF IInv, TypeOK
<1>2. /\ request[r] = "none" /\ request' = [request EXCEPT ![r] = "called"]
      /\ ready' = Append(ready, Request(r))
      /\ UNCHANGED <<cancelled, waiters, session, poller, l2ping, current_ping,
                     session_counter, late>>
  BY DEF Arrive
<1>3. /\ ready' \in Seq(Tasks) /\ Once(ready')
      /\ \A s : Session(s) \in Range(ready') => Session(s) \in Range(ready)
      /\ \A q, s : Ahead(ready, q, s) => Ahead(ready', q, s)
  <2>1. \A s \in Sessions : Request(r) = Session(s) => Request(r) \notin Range(ready)
    BY TasksDiffer
  <2>2. Request(r) \in Tasks
    BY TaskTypes
  <2>3. /\ ready' \in Seq(Tasks) /\ Once(ready') /\ Range(ready') = Range(ready) \cup {Request(r)}
        /\ \A q, s : Ahead(ready, q, s) => Ahead(ready', q, s)
    BY <1>1, <1>2, <2>1, <2>2, Appends
  <2> QED
    BY <2>3, TasksDiffer
<1>4. TypeOK'
  BY <1>1, <1>2, <1>3 DEF TypeOK
<1>5. Fresh' /\ Tracker' /\ Reachable'
  BY <1>2, <1>3 DEF IInv, Fresh, Tracker, Reachable
<1>6. Waiting'
  <2>1. \A s \in Sessions : r \notin Range(waiters[s])
    BY <1>2 DEF IInv, Waiting
  <2>2. \A q : q # r => request'[q] = request[q]
    BY <1>1, <1>2
  <2> QED
    BY <1>1, <1>2, <2>1, <2>2, ZenonT(60) DEF IInv, Waiting
<1>7. Returned'
  BY <1>1, <1>2, <1>3 DEF IInv, Returned
<1>8. Processes' /\ Polling'
  BY <1>2, <1>3 DEF IInv, Processes, Polling
<1>9. Counted'
  <2>1. \A q \in StartRequests : request[q] = "answered" => request'[q] = "answered"
    BY <1>1, <1>2 DEF Requests
  <2> QED
    BY <1>2, <2>1, CountedKept
<1> QED
  BY <1>3, <1>4, <1>5, <1>6, <1>7, <1>8, <1>9 DEF IInv

\* A request ends without having touched a session.
LEMMA RequestEndsInv ==
  ASSUME IInv, NEW r \in Requests, NEW how \in {"answered", "aborted"}, Resumed(Request(r)),
         request[r] \in {"called", "raised"}, request' = [request EXCEPT ![r] = how],
         ready' = Tail(ready),
         UNCHANGED <<cancelled, waiters, session, poller, l2ping, current_ping,
                     session_counter, late>>
  PROVE  IInv'
<1>1. TypeOK /\ Once(ready) /\ ready \in Seq(Tasks) /\ request \in [Requests -> {"none", "called",
        "awaiting", "returned", "raised", "answered", "aborted"}]
  BY DEF IInv, TypeOK
<1>2. /\ ready' \in Seq(Tasks) /\ Once(ready') /\ Range(ready') \subseteq Range(ready)
      /\ \A q, s : Ahead(ready, q, s) => (Request(r) # Request(q) => Ahead(ready', q, s))
  BY <1>1, ConsumesOnly
<1>3. TypeOK'
  BY <1>1, <1>2 DEF TypeOK
<1>4. Fresh' /\ Tracker' /\ Reachable' /\ Processes' /\ Polling'
  BY <1>2 DEF IInv, Fresh, Tracker, Reachable, Processes, Polling
<1>5. \A q : q # r => request'[q] = request[q]
  BY <1>1
<1>6. Waiting'
  <2>1. request[r] # "awaiting" /\ request'[r] = how
    BY <1>1
  <2>2. ASSUME NEW s \in Sessions, NEW q \in Range(waiters[s])
        PROVE  /\ request'[q] \notin {"none", "called"}
               /\ session[s] \notin Ended => request'[q] = "awaiting"
    <3>1. request[q] \notin {"none", "called"} /\ (session[s] \notin Ended => request[q] = "awaiting")
      BY <2>2 DEF IInv, Waiting
    <3> QED
      BY <1>5, <2>1, <3>1
  <2>3. Waiting
    BY DEF IInv
  <2> QED
    BY <2>2, <2>3 DEF Waiting
<1>7. Returned'
  <2>1. \A q \in Requests : request'[q] = "returned" => q # r /\ request[q] = "returned"
    BY <1>1, <1>5
  <2> QED
    BY <1>2, <2>1, TasksDiffer DEF IInv, Returned
<1>8. Counted'
  <2>1. \A q \in StartRequests : request[q] = "answered" => request'[q] = "answered"
    BY <1>1, <1>5 DEF Requests
  <2> QED
    BY <2>1, CountedKept
<1> QED
  BY <1>2, <1>3, <1>4, <1>6, <1>7, <1>8 DEF IInv

\* A request cancels the session the tracker names and waits for it.
LEMMA StopAndAwaitInv ==
  ASSUME IInv, NEW r \in Requests, StopAndAwait(r)
  PROVE  IInv'
<1> DEFINE x == current_ping.task
<1>1. TypeOK /\ Once(ready) /\ ready \in Seq(Tasks) /\ request \in [Requests -> {"none", "called",
        "awaiting", "returned", "raised", "answered", "aborted"}]
  BY DEF IInv, TypeOK
<1>2. /\ Resumed(Request(r)) /\ request[r] = "called" /\ TaskRuns
      /\ cancelled' = cancelled \cup RssiTask \cup {Session(x)}
      /\ TerminateProc
      /\ waiters' = [waiters EXCEPT ![x] = Append(@, r)]
      /\ request' = [request EXCEPT ![r] = "awaiting"]
      /\ ready' = Tail(ready)
      /\ UNCHANGED <<session, poller, current_ping, session_counter, late>>
  BY DEF StopAndAwait
<1>3. /\ ready' \in Seq(Tasks) /\ Once(ready') /\ Range(ready') \subseteq Range(ready)
      /\ \A q, s : Ahead(ready, q, s) => (Request(r) # Request(q) => Ahead(ready', q, s))
  BY <1>1, <1>2, ConsumesOnly
<1>4. x \in Sessions /\ session[x] \notin Ended /\ current_ping.id = x /\ x <= session_counter
  BY <1>1, <1>2 DEF IInv, TypeOK, TaskRuns, Tracker
<1>5. RssiTask \subseteq {Poller(s) : s \in Sessions}
  BY <1>1 DEF TypeOK, RssiTask
<1>6. /\ \A s \in Sessions : s # x => waiters'[s] = waiters[s]
      /\ waiters'[x] \in Seq(Requests) /\ Range(waiters'[x]) = Range(waiters[x]) \cup {r}
      /\ waiters' \in [Sessions -> Seq(Requests)]
  <2>1. waiters \in [Sessions -> Seq(Requests)] /\ waiters[x] \in Seq(Requests)
    BY <1>1, <1>4 DEF TypeOK
  <2>2. waiters'[x] = Append(waiters[x], r)
    BY <1>2, <1>4, <2>1
  <2>3. Range(Append(waiters[x], r)) = Range(waiters[x]) \cup {r}
    BY <2>1, AppendRange
  <2> QED
    BY <1>2, <1>4, <2>1, <2>2, <2>3
<1>7. /\ \A s \in Sessions : Session(s) \in cancelled' <=> Session(s) \in cancelled \/ s = x
      /\ \A s \in Sessions : Poller(s) \in cancelled => Poller(s) \in cancelled'
  BY <1>2, <1>4, <1>5, TasksDiffer
<1>8. \A s \in Sessions :
        l2ping'[s] = IF s = current_ping.proc /\ l2ping[s] = "alive" THEN "told" ELSE l2ping[s]
  BY <1>2 DEF TerminateProc
<1>9. /\ \A q : q # r => request'[q] = request[q]
      /\ request'[r] = "awaiting"
  BY <1>1, <1>2
<1> HIDE DEF x
<1>10. TypeOK'
  <2>1. cancelled' \subseteq Tasks
    BY <1>1, <1>2, <1>4, <1>5, TaskTypes DEF TypeOK
  <2>2. l2ping' \in [Sessions -> {"none", "alive", "told", "gone"}]
    BY <1>1, <1>2 DEF TypeOK, TerminateProc
  <2> QED
    BY <1>1, <1>2, <1>3, <1>6, <2>1, <2>2 DEF TypeOK
<1>11. Fresh'
  <2>1. \A s \in Sessions : s > session_counter => s # x
    BY <1>1, <1>4, SessionNumbers DEF TypeOK
  <2> QED
    BY <1>2, <1>3, <1>6, <1>7, <2>1 DEF IInv, Fresh
<1>12. Tracker' /\ Reachable'
  BY <1>2 DEF IInv, Tracker, Reachable
<1>13. Waiting'
  <2>1. \A s \in Sessions : r \notin Range(waiters[s])
    BY <1>2 DEF IInv, Waiting
  <2>2. ASSUME NEW s \in Sessions
        PROVE  /\ waiters'[s] # <<>> /\ session'[s] = "new" => Session(s) \in cancelled'
               /\ waiters'[s] # <<>> /\ session'[s] \notin Ended /\ current_ping'.id # s
                    => session'[s] = "new"
    BY <1>2, <1>4, <1>6, <1>7 DEF IInv, Waiting
  <2>3. ASSUME NEW s \in Sessions, NEW q \in Range(waiters'[s])
        PROVE  /\ request'[q] \notin {"none", "called"}
               /\ session'[s] \notin Ended => request'[q] = "awaiting"
    BY <1>2, <1>6, <1>9, <2>1, <2>3 DEF IInv, Waiting
  <2>4. ASSUME NEW s \in Sessions, NEW t \in Sessions, t # s
        PROVE  Range(waiters'[s]) \cap Range(waiters'[t]) = {}
    <3> SUFFICES ASSUME NEW q \in Range(waiters'[s]), q \in Range(waiters'[t]) PROVE FALSE
      OBVIOUS
    <3>1. ~(q \in Range(waiters[s]) /\ q \in Range(waiters[t]))
      BY <2>4 DEF IInv, Waiting
    <3>2. r \notin Range(waiters[s]) /\ r \notin Range(waiters[t])
      BY <2>1
    <3>3. q \in Range(waiters[s]) \/ (s = x /\ q = r)
      BY <1>6
    <3>4. q \in Range(waiters[t]) \/ (t = x /\ q = r)
      BY <1>6
    <3> QED
      BY <2>4, <3>1, <3>2, <3>3, <3>4
  <2> QED
    BY <2>2, <2>3, <2>4 DEF Waiting
<1>14. Returned'
  <2>1. \A q \in Requests : request'[q] = "returned" => q # r /\ request[q] = "returned"
    BY <1>9
  <2> QED
    BY <1>2, <1>3, <2>1, TasksDiffer DEF IInv, Returned
<1>15. Processes'
  <2>1. session[x] = "running" => current_ping.proc = x
    BY <1>4 DEF IInv, Reachable
  <2>2. \A s \in Sessions : l2ping[s] # "alive" => l2ping'[s] = l2ping[s]
    BY <1>8
  <2>3. session[x] = "running" => l2ping'[x] # "alive"
    BY <1>4, <1>8, <2>1
  <2> QED
    BY <1>2, <1>3, <1>7, <2>2, <2>3 DEF IInv, Processes
<1>16. Polling'
  BY <1>2, <1>7 DEF IInv, Polling
<1>17. Counted'
  <2>1. \A q \in StartRequests : request[q] = "answered" => request'[q] = "answered"
    BY <1>2, <1>9
  <2> QED
    BY <1>2, <2>1, CountedKept
<1> QED
  BY <1>3, <1>10, <1>11, <1>12, <1>13, <1>14, <1>15, <1>16, <1>17 DEF IInv

\* A start is counted with the answer to its request.
LEMMA CountedStart ==
  ASSUME IInv, NEW r \in StartRequests, request[r] # "answered",
         request' = [request EXCEPT ![r] = "answered"], session_counter' = session_counter + 1
  PROVE  Counted' /\ session_counter + 1 \in Sessions /\ session_counter \in Nat
<1>1. request \in [Requests -> {"none", "called", "awaiting", "returned", "raised",
                                "answered", "aborted"}]
  BY DEF IInv, TypeOK
<1>2. Answered' = Answered \cup {r} /\ r \notin Answered
  BY <1>1 DEF Answered, Requests
<1>3. Answered' \in SUBSET StartRequests /\ Answered \in SUBSET StartRequests
  BY DEF Answered
<1>4. IsFiniteSet(Answered) /\ IsFiniteSet(Answered')
  BY <1>3, RequestAssumption, FS_Subset
<1>5. Cardinality(Answered') = Cardinality(Answered) + 1
  BY <1>2, <1>4, FS_AddElement
<1>6. Cardinality(Answered') <= Cardinality(StartRequests)
  BY <1>3, RequestAssumption, FS_Subset
<1>7. Cardinality(Answered) \in Nat /\ Cardinality(Answered') \in Nat
  BY <1>4, FS_CardinalityType
<1>8. session_counter \in Nat
  BY SessionNumbers DEF IInv, TypeOK
<1>9. session_counter <= Cardinality(Answered)
  BY DEF IInv, Counted
<1>10. session_counter + 1 <= Cardinality(Answered')
  BY <1>5, <1>7, <1>8, <1>9
<1>11. session_counter + 1 \in 1 .. Cardinality(StartRequests)
  BY <1>6, <1>7, <1>8, <1>10, SessionNumbers
<1> QED
  BY <1>8, <1>10, <1>11 DEF Counted, Sessions

(***************************************************************************)
(* The tracker is cleared or names a new session, once the session it      *)
(* named has ended or not begun.                                           *)
(***************************************************************************)
LEMMA ProceedInv ==
  ASSUME IInv, NEW r \in Requests, Resumed(Request(r)), request[r] \in {"called", "returned"},
         Proceed(r), cancelled' \subseteq Tasks, RssiTask \subseteq cancelled',
         \A s \in Sessions : (Session(s) \in cancelled' <=> Session(s) \in cancelled)
                             /\ (Poller(s) \in cancelled => Poller(s) \in cancelled'),
         l2ping' \in [Sessions -> {"none", "alive", "told", "gone"}],
         \A s \in Sessions : l2ping[s] # "alive" => l2ping'[s] = l2ping[s],
         current_ping.id # None => session[current_ping.id] \in {"new"} \cup Ended,
         UNCHANGED <<waiters, poller, late>>
  PROVE  IInv'
<1> DEFINE s0 == session_counter + 1
           nid == current_ping'.id
<1>1. TypeOK /\ Once(ready) /\ ready \in Seq(Tasks) /\ request \in [Requests -> {"none", "called",
        "awaiting", "returned", "raised", "answered", "aborted"}]
  BY DEF IInv, TypeOK
<1>2. request' = [request EXCEPT ![r] = "answered"] /\ (StartNext(r) \/ StopOnly(r))
  BY DEF Proceed
<1>3. /\ \A q : q # r => request'[q] = request[q]
      /\ request'[r] = "answered" /\ request[r] # "answered"
  BY <1>1, <1>2
<1>4. session_counter \in Nat
  BY SessionNumbers DEF IInv, TypeOK
<1>5. /\ Counted' /\ session_counter' \in Sessions \cup {0}
      /\ session_counter' >= session_counter /\ session_counter' \in Nat
      /\ session_counter' # session_counter => session_counter' = s0 /\ s0 \in Sessions
  <2>1. CASE StartNext(r)
    <3>1. r \in StartRequests /\ session_counter' = session_counter + 1
      BY <2>1 DEF StartNext
    <3>2. Counted' /\ session_counter + 1 \in Sessions
      BY <1>2, <1>3, <3>1, CountedStart
    <3> QED
      BY <1>4, <3>1, <3>2
  <2>2. CASE StopOnly(r)
    <3>1. session_counter' = session_counter
      BY <2>2 DEF StopOnly
    <3>2. \A q \in StartRequests : request[q] = "answered" => request'[q] = "answered"
      BY <1>3
    <3>3. Counted'
      BY <3>1, <3>2, CountedKept
    <3> QED
      BY <1>1, <1>4, <3>1, <3>3 DEF TypeOK
  <2> QED
    BY <1>2, <2>1, <2>2
<1>6. \/ StopOnly(r) /\ nid = None /\ session' = session /\ ready' = Tail(ready)
         /\ session_counter' = session_counter
      \/ StartNext(r) /\ nid = s0 /\ s0 \in Sessions /\ session' = [session EXCEPT ![s0] = "new"]
         /\ ready' = Append(Tail(ready), Session(s0)) /\ session_counter' = s0
  <2>1. CASE StopOnly(r)
    BY <2>1 DEF StopOnly, Nobody
  <2>2. CASE StartNext(r)
    <3>1. /\ session' = [session EXCEPT ![s0] = "new"] /\ session_counter' = s0
          /\ ready' = Append(Tail(ready), Session(s0)) /\ nid = s0
      BY <2>2 DEF StartNext, Nobody
    <3>2. s0 \in Sessions
      BY <1>4, <1>5, <3>1
    <3> QED
      BY <2>2, <3>1, <3>2
  <2> QED
    BY <1>2, <2>1, <2>2
<1>7. current_ping' = [id |-> nid, task |-> nid, proc |-> None, rssi_task |-> None]
  <2>1. CASE StopOnly(r)
    BY <2>1 DEF StopOnly, Nobody
  <2>2. CASE StartNext(r)
    BY <2>2 DEF StartNext, Nobody
  <2> QED
    BY <1>2, <2>1, <2>2
<1>8. nid \in Sessions \cup {None} /\ nid <= session_counter' /\ Session(nid) \notin Range(ready)
  <2>1. CASE nid = None
    <3>1. Range(ready) \subseteq Tasks
      BY <1>1, SeqRange
    <3> QED
      BY <1>5, <2>1, <3>1, NoSessionNone DEF None
  <2>2. CASE nid = s0 /\ s0 \in Sessions /\ session_counter' = s0
    <3>1. s0 > session_counter
      BY <1>4
    <3> QED
      BY <1>5, <2>2, <3>1 DEF IInv, Fresh
  <2> QED
    BY <1>6, <2>1, <2>2
<1>9. session' \in [Sessions -> {"none", "new", "info", "spawn", "running", "report"} \cup Ended]
      /\ \A s \in Sessions :
           session'[s] = session[s] \/ (s = nid /\ s = s0 /\ session[s] = "none"
                                        /\ session'[s] = "new" /\ session_counter' = s0)
  <2>1. CASE session' = session
    BY <1>1, <2>1 DEF TypeOK
  <2>2. CASE nid = s0 /\ s0 \in Sessions /\ session' = [session EXCEPT ![s0] = "new"]
             /\ session_counter' = s0
    <3>1. s0 > session_counter
      BY <1>4
    <3>2. session[s0] = "none"
      BY <2>2, <3>1 DEF IInv, Fresh
    <3> QED
      BY <1>1, <2>2, <3>2 DEF TypeOK
  <2> QED
    BY <1>6, <2>1, <2>2
<1>10. /\ ready' \in Seq(Tasks) /\ Once(ready')
       /\ Range(ready') \subseteq Range(ready) \cup {Session(nid)}
       /\ nid = None => Range(ready') \subseteq Range(ready)
       /\ \A q, s : Ahead(ready, q, s) => (Request(r) # Request(q) => Ahead(ready', q, s))
  <2>1. CASE ready' = Tail(ready)
    BY <1>1, <2>1, ConsumesOnly
  <2>2. CASE nid = s0 /\ s0 \in Sessions /\ ready' = Append(Tail(ready), Session(s0))
    <3>1. Session(s0) \in Tasks /\ Session(s0) \notin Range(ready)
      BY <1>8, <2>2, TaskTypes
    <3>2. Tail(ready) \in Seq(Tasks)
      BY <1>1, TailIs DEF Resumed
    <3>3. /\ ready' = Tail(ready) \o <<Session(s0)>> /\ <<Session(s0)>> \in Seq(Tasks)
          /\ Range(<<Session(s0)>>) = {Session(s0)}
      BY <2>2, <3>1, <3>2, AppendIs
    <3>4. Once(<<Session(s0)>>)
      BY DEF Once
    <3>5. \A s \in Sessions : Session(s) \in Range(<<Session(s0)>>) => Session(s) \notin Range(ready)
      BY <3>1, <3>3
    <3>6. nid # None
      BY <2>2, SessionNumbers
    <3> HIDE DEF s0, nid
    <3> QED
      BY <1>1, <2>2, <3>3, <3>4, <3>5, <3>6, Consumes
  <2> QED
    BY <1>6, <2>1, <2>2
<1> HIDE DEF s0, nid
<1>11. \A s \in Sessions : session'[s] # "running"
  <2>1. \A s \in Sessions : session[s] # "running"
    <3> SUFFICES ASSUME NEW s \in Sessions, session[s] = "running" PROVE FALSE
      OBVIOUS
    <3>1. current_ping.id = s
      BY DEF IInv, Reachable
    <3>2. s # None
      BY SessionNumbers
    <3> QED
      BY <3>1, <3>2 DEF Ended
  <2> QED
    BY <1>9, <2>1
<1>12. TypeOK'
  BY <1>1, <1>2, <1>5, <1>7, <1>8, <1>9, <1>10 DEF TypeOK
<1>13. Fresh'
  <2> SUFFICES ASSUME NEW s \in Sessions, s > session_counter'
               PROVE  /\ session'[s] = "none" /\ waiters'[s] = <<>>
                      /\ Session(s) \notin Range(ready') /\ Session(s) \notin cancelled'
    BY DEF Fresh
  <2>1. s > session_counter /\ s # nid /\ Session(s) # Session(nid)
    <3>1. s \in Nat
      BY SessionNumbers
    <3>2. nid \in Nat
      BY <1>8, SessionNumbers DEF None
    <3>3. s > session_counter /\ s # nid
      BY <1>4, <1>5, <1>8, <3>1, <3>2
    <3> QED
      BY <3>3, TasksDiffer
  <2>2. /\ session[s] = "none" /\ waiters[s] = <<>>
        /\ Session(s) \notin Range(ready) /\ Session(s) \notin cancelled
    BY <2>1 DEF IInv, Fresh
  <2> QED
    BY <1>9, <1>10, <2>1, <2>2
<1>14. Tracker' /\ Reachable'
  BY <1>7, <1>8, <1>11 DEF Tracker, Reachable
<1>15. Waiting'
  <2>1. ASSUME NEW s \in Sessions
        PROVE  /\ waiters'[s] # <<>> /\ session'[s] = "new" => Session(s) \in cancelled'
               /\ waiters'[s] # <<>> /\ session'[s] \notin Ended /\ current_ping'.id # s
                    => session'[s] = "new"
    <3>1. CASE session'[s] = session[s]
      <4>1. waiters[s] # <<>> /\ session[s] = "new" => Session(s) \in cancelled
        BY DEF IInv, Waiting
      <4>2. waiters[s] # <<>> /\ session[s] \notin Ended => session[s] = "new"
        <5>1. CASE current_ping.id = s
          BY <5>1, SessionNumbers
        <5>2. CASE current_ping.id # s
          BY <5>2 DEF IInv, Waiting
        <5> QED
          BY <5>1, <5>2
      <4> QED
        BY <3>1, <4>1, <4>2
    <3>2. CASE session[s] = "none" /\ session'[s] = "new" /\ s = nid /\ s = s0
               /\ session_counter' = s0
      <4>1. s > session_counter
        BY <1>4, <3>2 DEF s0
      <4>2. waiters[s] = <<>>
        BY <4>1 DEF IInv, Fresh
      <4> QED
        BY <4>2
    <3> QED
      BY <1>9, <3>1, <3>2
  <2>2. ASSUME NEW s \in Sessions, NEW q \in Range(waiters[s])
        PROVE  /\ request'[q] \notin {"none", "called"}
               /\ session'[s] \notin Ended => request'[q] = "awaiting"
    <3>1. request[q] \notin {"none", "called"} /\ (session[s] \notin Ended => request[q] = "awaiting")
      BY <2>2 DEF IInv, Waiting
    <3>2. session[s] \in Ended => session'[s] \in Ended
      BY <1>9 DEF Ended
    <3> QED
      BY <1>3, <3>1, <3>2
  <2>3. \A s, t \in Sessions : t # s => Range(waiters[s]) \cap Range(waiters[t]) = {}
    BY DEF IInv, Waiting
  <2> QED
    BY <2>1, <2>2, <2>3 DEF Waiting
<1>16. Returned'
  <2> SUFFICES ASSUME NEW q \in Requests, request'[q] = "returned"
               PROVE  /\ Ahead(ready', q, nid)
                      /\ nid # None => session'[nid] \in {"new"} \cup Ended
    BY <1>7 DEF Returned
  <2>1. q # r /\ request[q] = "returned" /\ Request(r) # Request(q)
    BY <1>3, TasksDiffer
  <2>2. Request(q) \in Range(ready)
    BY <1>1, <2>1, AheadIsIn DEF IInv, Returned
  <2>3. Ahead(ready, q, nid)
    BY <1>1, <1>8, <2>2, AheadOfAbsent
  <2>4. nid # None => session'[nid] = "new"
    BY <1>6 DEF s0, nid, TypeOK, IInv
  <2> QED
    BY <1>10, <2>1, <2>3, <2>4
<1>17. Processes'
  <2> SUFFICES ASSUME NEW s \in Sessions
               PROVE  /\ session'[s] \in {"none", "new", "info"} => l2ping'[s] = "none"
                      /\ session'[s] \in {"report"} \cup Ended => l2ping'[s] # "alive"
    BY <1>11 DEF Processes
  <2>1. /\ session[s] \in {"none", "new", "info"} => l2ping[s] = "none"
        /\ session[s] \in {"report"} \cup Ended => l2ping[s] # "alive"
    BY DEF IInv, Processes
  <2>2. l2ping[s] # "alive" => l2ping'[s] = l2ping[s]
    OBVIOUS
  <2> QED
    BY <1>9, <2>1, <2>2 DEF Ended
<1>18. Polling'
  <2> SUFFICES ASSUME NEW s \in Sessions, poller[s] = "polling", Poller(s) \notin cancelled'
               PROVE  FALSE
    BY DEF Polling
  <2>1. current_ping.rssi_task = s /\ s # None
    BY SessionNumbers DEF IInv, Polling
  <2> QED
    BY <2>1 DEF RssiTask
<1> QED
  BY <1>5, <1>10, <1>12, <1>13, <1>14, <1>15, <1>16, <1>17, <1>18 DEF IInv

(***************************************************************************)
(* A session ends: through its finally clause, or before its first step.   *)
(***************************************************************************)
LEMMA EndInv ==
  ASSUME IInv, NEW s \in Sessions, NEW how \in Ended, Resumed(Session(s)), End(s, how),
         session[s] \notin {"none"} \cup Ended,
         how = "done" => session[s] # "new",
         \/ Finally(s)
         \/ /\ session[s] = "new" /\ cancelled' = cancelled \ {Session(s)}
            /\ UNCHANGED current_ping,
         NEW v \in {"none", "told", "gone"}, l2ping' = [l2ping EXCEPT ![s] = v],
         UNCHANGED <<waiters, poller, session_counter>>, late' = late
  PROVE  IInv'
<1> DEFINE w == [i \in 1 .. Len(waiters[s]) |-> Request(waiters[s][i])]
<1>1. TypeOK /\ Once(ready) /\ ready \in Seq(Tasks)
  BY DEF IInv, TypeOK
<1>2. /\ session' = [session EXCEPT ![s] = how] /\ ready' = Tail(ready) \o w
      /\ request' = [r \in Requests |->
                       IF r \in Range(waiters[s])
                       THEN IF how = "cancelled" THEN "raised" ELSE "returned"
                       ELSE request[r]]
  BY DEF End
<1>3. /\ w \in Seq(Tasks) /\ Once(w) /\ \A t \in Sessions : Session(t) \notin Range(w)
      /\ \A r : Request(r) \in Range(w) <=> r \in Range(waiters[s])
  BY <1>1, EndQueues
<1> HIDE DEF w
<1>4. /\ ready' \in Seq(Tasks) /\ Once(ready')
      /\ Range(w) \subseteq Range(ready') /\ Range(ready') \subseteq Range(ready) \cup Range(w)
      /\ \A r, t : Ahead(ready, r, t) =>
           Session(s) # Session(t) /\ (Session(s) # Request(r) => Ahead(ready', r, t))
  BY <1>1, <1>2, <1>3, Consumes
<1>5. \A t \in Sessions : Session(t) \in Range(ready') => Session(t) \in Range(ready)
  BY <1>3, <1>4
<1>6. /\ session'[s] = how /\ session' \in [Sessions -> {"none", "new", "info", "spawn", "running",
           "report"} \cup Ended]
      /\ \A t \in Sessions : t # s => session'[t] = session[t]
  BY <1>1, <1>2 DEF TypeOK
<1>7. /\ request' \in [Requests -> {"none", "called", "awaiting", "returned", "raised",
                                    "answered", "aborted"}]
      /\ \A r \in Requests : r \in Range(waiters[s]) =>
           request'[r] = IF how = "cancelled" THEN "raised" ELSE "returned"
      /\ \A r \in Requests : r \notin Range(waiters[s]) => request'[r] = request[r]
  BY <1>1, <1>2 DEF TypeOK
<1>8. /\ l2ping'[s] = v /\ l2ping' \in [Sessions -> {"none", "alive", "told", "gone"}]
      /\ \A t \in Sessions : t # s => l2ping'[t] = l2ping[t]
  BY <1>1 DEF TypeOK
<1>9. /\ cancelled' \subseteq Tasks /\ Session(s) \notin cancelled'
      /\ \A t \in Sessions : t # s => (Session(t) \in cancelled' <=> Session(t) \in cancelled)
      /\ \A t \in Sessions : Poller(t) \in cancelled => Poller(t) \in cancelled'
      /\ \/ current_ping' = Nobody /\ current_ping.id = s /\ RssiTask \subseteq cancelled'
         \/ current_ping' = current_ping /\ (current_ping.id = s => session[s] = "new")
  <2>1. RssiTask \subseteq {Poller(t) : t \in Sessions}
    BY <1>1 DEF TypeOK, RssiTask
  <2>2. cancelled \subseteq Tasks
    BY <1>1 DEF TypeOK
  <2>3. RssiTask \subseteq Tasks
    BY <2>1, TaskTypes
  <2>4. CASE current_ping.id = s /\ Finally(s)
    <3>1. cancelled' = (cancelled \cup RssiTask) \ {Session(s)} /\ current_ping' = Nobody
      BY <2>4 DEF Finally
    <3> QED
      BY <2>1, <2>2, <2>3, <2>4, <3>1, TasksDiffer
  <2>5. CASE cancelled' = cancelled \ {Session(s)} /\ current_ping' = current_ping
             /\ (current_ping.id = s => session[s] = "new")
    BY <2>2, <2>5, TasksDiffer
  <2>6. CASE current_ping.id # s /\ Finally(s)
    <3>1. cancelled' = cancelled \ {Session(s)} /\ current_ping' = current_ping
      BY <2>6 DEF Finally
    <3> QED
      BY <2>5, <2>6, <3>1
  <2> QED
    BY <2>4, <2>5, <2>6
<1>10. \A t \in Sessions : waiters[t] \in Seq(Requests) /\ Range(waiters[t]) \subseteq Requests
  <2> TAKE t \in Sessions
  <2>1. waiters[t] \in Seq(Requests)
    BY <1>1 DEF TypeOK
  <2>2. DOMAIN waiters[t] = 1 .. Len(waiters[t])
        /\ \A i \in 1 .. Len(waiters[t]) : waiters[t][i] \in Requests
    BY <2>1
  <2> QED
    BY <2>1, <2>2 DEF Range
<1>11. TypeOK'
  <2>1. current_ping' \in [id : Sessions \cup {None}, task : Sessions \cup {None},
                           proc : Sessions \cup {None}, rssi_task : Sessions \cup {None}]
    BY <1>1, <1>9 DEF TypeOK, Nobody
  <2> QED
    BY <1>1, <1>4, <1>6, <1>7, <1>8, <1>9, <2>1 DEF TypeOK
<1>12. Fresh'
  <2> SUFFICES ASSUME NEW t \in Sessions, t > session_counter
               PROVE  /\ session'[t] = "none" /\ waiters[t] = <<>>
                      /\ Session(t) \notin Range(ready') /\ Session(t) \notin cancelled'
    BY DEF Fresh
  <2>1. /\ session[t] = "none" /\ waiters[t] = <<>>
        /\ Session(t) \notin Range(ready) /\ Session(t) \notin cancelled
    BY DEF IInv, Fresh
  <2> QED
    BY <1>5, <1>6, <1>9, <2>1
<1>13. Tracker'
  <2>1. CASE current_ping' = Nobody
    <3>1. 0 <= session_counter
      BY <1>1, SessionNumbers DEF TypeOK
    <3> QED
      BY <2>1, <3>1 DEF Tracker, Nobody, None
  <2>2. CASE current_ping' = current_ping /\ (current_ping.id = s => session[s] = "new")
    <3>1. current_ping.proc # None => current_ping.id # s /\ current_ping.id \in Sessions
      BY <1>1, <2>2 DEF IInv, Tracker, TypeOK
    <3> QED
      BY <1>6, <2>2, <3>1 DEF IInv, Tracker
  <2> QED
    BY <1>9, <2>1, <2>2
<1>14. Reachable'
  <2> SUFFICES ASSUME NEW t \in Sessions, session'[t] = "running"
               PROVE  current_ping' = [id |-> t, task |-> t, proc |-> t, rssi_task |-> t]
    BY DEF Reachable
  <2>1. t # s /\ session[t] = "running"
    BY <1>6 DEF Ended
  <2>2. current_ping = [id |-> t, task |-> t, proc |-> t, rssi_task |-> t]
    BY <2>1 DEF IInv, Reachable
  <2> QED
    BY <1>9, <2>1, <2>2
<1>15. Waiting'
  <2>1. ASSUME NEW t \in Sessions
        PROVE  /\ waiters[t] # <<>> /\ session'[t] = "new" => Session(t) \in cancelled'
               /\ waiters[t] # <<>> /\ session'[t] \notin Ended /\ current_ping'.id # t
                    => session'[t] = "new"
    <3>1. CASE t = s
      BY <1>6, <3>1 DEF Ended
    <3>2. CASE t # s
      <4>1. current_ping'.id # t => current_ping.id # t
        BY <1>9, <3>2
      <4> QED
        BY <1>6, <1>9, <3>2, <4>1 DEF IInv, Waiting
    <3> QED
      BY <3>1, <3>2
  <2>2. ASSUME NEW t \in Sessions, NEW q \in Range(waiters[t])
        PROVE  /\ request'[q] \notin {"none", "called"}
               /\ session'[t] \notin Ended => request'[q] = "awaiting"
    <3>1. q \in Requests
      BY <1>10, <2>2
    <3>2. CASE t = s
      BY <1>6, <1>7, <2>2, <3>1, <3>2
    <3>3. CASE t # s
      <4>1. q \notin Range(waiters[s])
        BY <2>2, <3>3 DEF IInv, Waiting
      <4>2. request'[q] = request[q] /\ session'[t] = session[t]
        BY <1>6, <1>7, <3>1, <3>3, <4>1
      <4> QED
        BY <2>2, <4>2 DEF IInv, Waiting
    <3> QED
      BY <3>2, <3>3
  <2>3. \A t, u \in Sessions : u # t => Range(waiters[t]) \cap Range(waiters[u]) = {}
    BY DEF IInv, Waiting
  <2> QED
    BY <2>1, <2>2, <2>3 DEF Waiting
<1>16. Returned'
  <2> SUFFICES ASSUME NEW r \in Requests, request'[r] = "returned"
               PROVE  /\ Ahead(ready', r, current_ping'.id)
                      /\ current_ping'.id # None => session'[current_ping'.id] \in {"new"} \cup Ended
    BY DEF Returned
  <2>1. CASE r \in Range(waiters[s])
    <3>1. how = "done"
      BY <1>7, <2>1 DEF Ended
    <3>2. waiters[s] # <<>>
      <4>1. Range(<<>>) = {}
        BY DEF Range
      <4> QED
        BY <2>1, <4>1
    <3>3. current_ping.id = s
      BY <3>1, <3>2 DEF IInv, Waiting
    <3>4. current_ping' = Nobody
      BY <1>9, <3>1, <3>3
    <3>5. Request(r) \in Range(ready') /\ Session(None) \notin Range(ready')
      BY <1>3, <1>4, <2>1, NoSessionNone, SeqRange
    <3> QED
      BY <1>4, <3>4, <3>5, AheadOfAbsent DEF Nobody
  <2>2. CASE r \notin Range(waiters[s])
    <3>1. request[r] = "returned"
      BY <1>7, <2>2
    <3>2. /\ Ahead(ready, r, current_ping.id)
          /\ current_ping.id # None => session[current_ping.id] \in {"new"} \cup Ended
      BY <3>1 DEF IInv, Returned
    <3>3. current_ping.id # s /\ Ahead(ready', r, current_ping.id)
      BY <1>4, <3>2, TasksDiffer
    <3>4. current_ping' = current_ping
      BY <1>9, <3>3
    <3>5. current_ping.id # None => session'[current_ping.id] = session[current_ping.id]
      BY <1>1, <1>6, <3>3 DEF TypeOK
    <3> QED
      BY <3>2, <3>3, <3>4, <3>5
  <2> QED
    BY <2>1, <2>2
<1>17. Processes'
  <2> SUFFICES ASSUME NEW t \in Sessions
               PROVE  /\ session'[t] \in {"none", "new", "info"} => l2ping'[t] = "none"
                      /\ session'[t] \in {"report"} \cup Ended => l2ping'[t] # "alive"
                      /\ session'[t] = "running" /\ Session(t) \in cancelled' => l2ping'[t] # "alive"
                      /\ session'[t] = "running" /\ Session(t) \in Range(ready') =>
                           l2ping'[t] = "gone" \/ Session(t) \in cancelled'
    BY DEF Processes
  <2>1. CASE t = s
    BY <1>6, <1>8, <2>1 DEF Ended
  <2>2. CASE t # s
    BY <1>5, <1>6, <1>8, <1>9, <2>2 DEF IInv, Processes
  <2> QED
    BY <2>1, <2>2
<1>18. Polling'
  <2> SUFFICES ASSUME NEW t \in Sessions, poller[t] = "polling", Poller(t) \notin cancelled'
               PROVE  current_ping'.rssi_task = t
    BY DEF Polling
  <2>1. current_ping.rssi_task = t /\ t # None
    BY <1>9, SessionNumbers DEF IInv, Polling
  <2>2. RssiTask = {Poller(t)}
    BY <2>1 DEF RssiTask
  <2> QED
    BY <1>9, <2>1, <2>2
<1>19. Counted'
  <2>1. ASSUME NEW q \in StartRequests, request[q] = "answered"
        PROVE  request'[q] = "answered"
    <3>1. q \notin Range(waiters[s])
      BY <2>1 DEF IInv, Waiting
    <3> QED
      BY <1>7, <2>1, <3>1 DEF Requests
  <2> QED
    BY <2>1, CountedKept
<1> QED
  BY <1>4, <1>11, <1>12, <1>13, <1>14, <1>15, <1>16, <1>17, <1>18, <1>19 DEF IInv

\* A session goes one await further.
LEMMA ProgressInv ==
  ASSUME IInv, NEW s \in Sessions, NEW how \in {"info", "spawn", "report"},
         Resumed(Session(s)), Session(s) \notin cancelled,
         session[s] \in {"new", "info", "spawn", "running"},
         session' = [session EXCEPT ![s] = how], ready' = Tail(ready),
         session[s] = "running" => how = "report",
         NEW v \in {"none", "alive", "told", "gone"}, l2ping' = [l2ping EXCEPT ![s] = v],
         how = "info" => v = "none", how = "report" => v # "alive",
         UNCHANGED <<cancelled, request, waiters, poller, current_ping, session_counter, late>>
  PROVE  IInv'
<1>1. TypeOK /\ Once(ready) /\ ready \in Seq(Tasks)
  BY DEF IInv, TypeOK
<1>2. /\ ready' \in Seq(Tasks) /\ Once(ready') /\ Range(ready') \subseteq Range(ready)
      /\ \A r, t : Ahead(ready, r, t) =>
           Session(s) # Session(t) /\ (Session(s) # Request(r) => Ahead(ready', r, t))
  BY <1>1, ConsumesOnly
<1>3. /\ session'[s] = how /\ session' \in [Sessions -> {"none", "new", "info", "spawn", "running",
           "report"} \cup Ended]
      /\ \A t \in Sessions : t # s => session'[t] = session[t]
  BY <1>1 DEF TypeOK
<1>4. /\ l2ping'[s] = v /\ l2ping' \in [Sessions -> {"none", "alive", "told", "gone"}]
      /\ \A t \in Sessions : t # s => l2ping'[t] = l2ping[t]
  BY <1>1 DEF TypeOK
<1>5. TypeOK'
  BY <1>1, <1>2, <1>3, <1>4 DEF TypeOK
<1>6. Fresh'
  BY <1>2, <1>3 DEF IInv, Fresh
<1>7. Tracker'
  <2>1. current_ping.proc # None /\ current_ping.id = s => how = "report"
    BY DEF IInv, Tracker
  <2>2. current_ping.proc # None => current_ping.id \in Sessions
    BY <1>1 DEF IInv, Tracker, TypeOK
  <2> QED
    BY <1>3, <2>1, <2>2 DEF IInv, Tracker
<1>8. Reachable'
  BY <1>3 DEF IInv, Reachable
<1>9. Waiting'
  <2>1. waiters[s] # <<>> => current_ping.id = s
    BY DEF IInv, Waiting, Ended
  <2>2. ASSUME NEW t \in Sessions
        PROVE  /\ waiters[t] # <<>> /\ session'[t] = "new" => Session(t) \in cancelled
               /\ waiters[t] # <<>> /\ session'[t] \notin Ended /\ current_ping.id # t
                    => session'[t] = "new"
    <3>1. CASE t = s
      BY <1>3, <2>1, <3>1
    <3>2. CASE t # s
      BY <1>3, <3>2 DEF IInv, Waiting
    <3> QED
      BY <3>1, <3>2
  <2>3. \A t \in Sessions : session'[t] \notin Ended => session[t] \notin Ended
    BY <1>3 DEF Ended
  <2>4. Waiting
    BY DEF IInv
  <2> QED
    BY <2>2, <2>3, <2>4 DEF Waiting
<1>10. Returned'
  <2> SUFFICES ASSUME NEW r \in Requests, request[r] = "returned"
               PROVE  /\ Ahead(ready', r, current_ping.id)
                      /\ current_ping.id # None => session'[current_ping.id] \in {"new"} \cup Ended
    BY DEF Returned
  <2>1. /\ Ahead(ready, r, current_ping.id)
        /\ current_ping.id # None => session[current_ping.id] \in {"new"} \cup Ended
    BY DEF IInv, Returned
  <2>2. current_ping.id # s /\ Ahead(ready', r, current_ping.id)
    BY <1>2, <2>1, TasksDiffer
  <2>3. current_ping.id # None => session'[current_ping.id] = session[current_ping.id]
    BY <1>1, <1>3, <2>2 DEF TypeOK
  <2> QED
    BY <2>1, <2>2, <2>3
<1>11. Processes'
  BY <1>2, <1>3, <1>4 DEF IInv, Processes, Ended
<1>12. Polling'
  BY DEF IInv, Polling
<1>13. Counted'
  BY CountedKept
<1> QED
  BY <1>2, <1>5, <1>6, <1>7, <1>8, <1>9, <1>10, <1>11, <1>12, <1>13 DEF IInv

\* A session misses its cancellation.
LEMMA AnswerWinsInv ==
  ASSUME IInv, NEW s \in Sessions, AnswerWins(s)
  PROVE  IInv'
<1>1. TypeOK /\ Once(ready) /\ ready \in Seq(Tasks)
  BY DEF IInv, TypeOK
<1>2. /\ Resumed(Session(s)) /\ session[s] = "info"
      /\ cancelled' = cancelled \ {Session(s)} /\ late' = late \cup {s} /\ ready' = Tail(ready)
      /\ UNCHANGED <<request, waiters, session, poller, l2ping, current_ping, session_counter>>
  BY DEF AnswerWins
<1>3. /\ ready' \in Seq(Tasks) /\ Once(ready') /\ Range(ready') \subseteq Range(ready)
      /\ \A r, t : Ahead(ready, r, t) => (Session(s) # Request(r) => Ahead(ready', r, t))
  BY <1>1, <1>2, ConsumesOnly
<1>4. /\ \A t \in Sessions : t # s => (Session(t) \in cancelled' <=> Session(t) \in cancelled)
      /\ \A t \in Sessions : Poller(t) \in cancelled' <=> Poller(t) \in cancelled
      /\ cancelled' \subseteq cancelled
  BY <1>2, TasksDiffer
<1>5. TypeOK'
  BY <1>1, <1>2, <1>3, <1>4 DEF TypeOK
<1>6. Fresh' /\ Tracker' /\ Reachable'
  BY <1>2, <1>3, <1>4 DEF IInv, Fresh, Tracker, Reachable
<1>7. Waiting'
  <2>1. \A t \in Sessions : waiters[t] # <<>> /\ session[t] = "new" => Session(t) \in cancelled'
    BY <1>2, <1>4 DEF IInv, Waiting
  <2>2. Waiting
    BY DEF IInv
  <2> QED
    BY <1>2, <2>1, <2>2 DEF Waiting
<1>8. Returned'
  BY <1>2, <1>3, TasksDiffer DEF IInv, Returned
<1>9. Processes'
  BY <1>2, <1>3, <1>4 DEF IInv, Processes
<1>10. Polling'
  BY <1>2, <1>4 DEF IInv, Polling
<1>11. Counted'
  BY <1>2, CountedKept
<1> QED
  BY <1>3, <1>5, <1>6, <1>7, <1>8, <1>9, <1>10, <1>11 DEF IInv

\* A session that the tracker still names runs.
LEMMA RunInv ==
  ASSUME IInv, NEW s \in Sessions, Run(s)
  PROVE  IInv'
<1>1. TypeOK /\ Once(ready) /\ ready \in Seq(Tasks)
  BY DEF IInv, TypeOK
<1>2. /\ Resumed(Session(s)) /\ Session(s) \notin cancelled
      /\ session[s] = "spawn" /\ current_ping.id = s
      /\ session' = [session EXCEPT ![s] = "running"]
      /\ poller' = [poller EXCEPT ![s] = "polling"]
      /\ current_ping' = [current_ping EXCEPT !.proc = s, !.rssi_task = s]
      /\ ready' = Append(Tail(ready), Poller(s))
      /\ UNCHANGED <<cancelled, request, waiters, l2ping, session_counter, late>>
  BY DEF Run, Superseded
<1>3. /\ ready' \in Seq(Tasks) /\ Once(ready')
      /\ \A t \in Sessions : Session(t) \in Range(ready') => Session(t) \in Range(ready)
      /\ Session(s) \notin Range(ready')
      /\ \A r, t : Ahead(ready, r, t) => Session(s) # Session(t)
  <2>1. Tail(ready) \in Seq(Tasks) /\ Poller(s) \in Tasks
    BY <1>1, <1>2, TailIs, TaskTypes DEF Resumed
  <2>2. /\ ready' = Tail(ready) \o <<Poller(s)>> /\ <<Poller(s)>> \in Seq(Tasks)
        /\ Range(<<Poller(s)>>) = {Poller(s)}
    BY <1>2, <2>1, AppendIs
  <2>3. Once(<<Poller(s)>>) /\ \A t \in Sessions : Session(t) \notin Range(<<Poller(s)>>)
    BY <2>2, TasksDiffer DEF Once
  <2>4. /\ ready' \in Seq(Tasks) /\ Once(ready')
        /\ Range(ready') \subseteq Range(ready) \cup Range(<<Poller(s)>>)
        /\ \A r, t : Ahead(ready, r, t) => Session(s) # Session(t)
        /\ \A t \in Sessions : Session(s) = Session(t) => Session(t) \notin Range(ready')
    BY <1>1, <1>2, <2>2, <2>3, Consumes
  <2> QED
    BY <2>3, <2>4
<1>4. /\ session'[s] = "running" /\ session' \in [Sessions -> {"none", "new", "info", "spawn",
           "running", "report"} \cup Ended]
      /\ \A t \in Sessions : t # s => session'[t] = session[t]
  BY <1>1, <1>2 DEF TypeOK
<1>5. current_ping' = [id |-> s, task |-> s, proc |-> s, rssi_task |-> s] /\ s <= session_counter
  BY <1>1, <1>2 DEF IInv, TypeOK, Tracker
<1>6. current_ping.proc = None /\ current_ping.rssi_task = None
  BY <1>2 DEF IInv, Tracker
<1>7. TypeOK'
  BY <1>1, <1>2, <1>3, <1>4, <1>5 DEF TypeOK
<1>8. Fresh'
  <2> SUFFICES ASSUME NEW t \in Sessions, t > session_counter
               PROVE  /\ session'[t] = "none" /\ waiters[t] = <<>>
                      /\ Session(t) \notin Range(ready') /\ Session(t) \notin cancelled
    BY <1>2 DEF Fresh
  <2>1. /\ session[t] = "none" /\ waiters[t] = <<>>
        /\ Session(t) \notin Range(ready) /\ Session(t) \notin cancelled
    BY DEF IInv, Fresh
  <2>2. t # s
    BY <1>2, <2>1
  <2> QED
    BY <1>3, <1>4, <2>1, <2>2
<1>9. Tracker'
  <2>1. /\ current_ping'.task = s /\ current_ping'.id = s /\ current_ping'.proc = s
        /\ current_ping'.rssi_task = s
    BY <1>5
  <2>2. session'[s] \in {"running", "report"} /\ s <= session_counter'
    BY <1>2, <1>4, <1>5
  <2> QED
    BY <2>1, <2>2 DEF Tracker
<1>10. Reachable'
  <2>1. \A t \in Sessions : session[t] = "running" => t = s
    BY <1>2 DEF IInv, Reachable
  <2> QED
    BY <1>2, <1>4, <1>5, <2>1 DEF Reachable
<1>11. Waiting'
  <2>1. \A t \in Sessions : session'[t] \notin Ended => session[t] \notin Ended
    BY <1>2, <1>4 DEF Ended
  <2>2. \A t \in Sessions : session'[t] = "new" <=> session[t] = "new"
    BY <1>2, <1>4
  <2>3. Waiting
    BY DEF IInv
  <2> QED
    BY <1>2, <1>5, <2>1, <2>2, <2>3, ZenonT(60) DEF Waiting
<1>12. Returned'
  <2>1. \A r \in Requests : request[r] # "returned"
    BY <1>2, <1>3 DEF IInv, Returned
  <2> QED
    BY <1>2, <2>1 DEF Returned
<1>13. Processes'
  BY <1>2, <1>3, <1>4 DEF IInv, Processes, Ended
<1>14. Polling'
  <2>1. \A t \in Sessions : t # s => poller'[t] = poller[t]
    BY <1>1, <1>2 DEF TypeOK
  <2>2. \A t \in Sessions : t # None
    BY SessionNumbers
  <2> QED
    BY <1>2, <1>5, <1>6, <2>1, <2>2 DEF IInv, Polling
<1>15. Counted'
  BY <1>2, CountedKept
<1> QED
  BY <1>3, <1>7, <1>8, <1>9, <1>10, <1>11, <1>12, <1>13, <1>14, <1>15 DEF IInv

\* An RSSI task polls on or ends.
LEMMA PollerInv ==
  ASSUME IInv, NEW s \in Sessions, PollerStep(s)
  PROVE  IInv'
<1>1. TypeOK /\ Once(ready) /\ ready \in Seq(Tasks)
  BY DEF IInv, TypeOK
<1>2. /\ Resumed(Poller(s))
      /\ poller' = [poller EXCEPT ![s] = IF Poller(s) \in cancelled THEN "over" ELSE @]
      /\ cancelled' = cancelled \ {Poller(s)} /\ ready' = Tail(ready)
      /\ UNCHANGED <<request, waiters, session, l2ping, current_ping, session_counter, late>>
  BY DEF PollerStep
<1>3. /\ ready' \in Seq(Tasks) /\ Once(ready') /\ Range(ready') \subseteq Range(ready)
      /\ \A r, t : Ahead(ready, r, t) => (Poller(s) # Request(r) => Ahead(ready', r, t))
  BY <1>1, <1>2, ConsumesOnly
<1>4. /\ \A t \in Sessions : Session(t) \in cancelled' <=> Session(t) \in cancelled
      /\ \A t \in Sessions : t # s => (Poller(t) \in cancelled' <=> Poller(t) \in cancelled)
      /\ cancelled' \subseteq cancelled
  BY <1>2, TasksDiffer
<1>5. /\ poller' \in [Sessions -> {"none", "polling", "over"}]
      /\ \A t \in Sessions : t # s => poller'[t] = poller[t]
      /\ poller'[s] = IF Poller(s) \in cancelled THEN "over" ELSE poller[s]
  BY <1>1, <1>2 DEF TypeOK
<1>6. TypeOK'
  BY <1>1, <1>2, <1>3, <1>4, <1>5 DEF TypeOK
<1>7. Fresh' /\ Tracker' /\ Reachable'
  BY <1>2, <1>3, <1>4 DEF IInv, Fresh, Tracker, Reachable
<1>8. Waiting'
  <2>1. Waiting
    BY DEF IInv
  <2> QED
    BY <1>2, <1>4, <2>1 DEF Waiting
<1>9. Returned'
  BY <1>2, <1>3, TasksDiffer DEF IInv, Returned
<1>10. Processes'
  BY <1>2, <1>3, <1>4 DEF IInv, Processes
<1>11. Polling'
  <2> SUFFICES ASSUME NEW t \in Sessions, poller'[t] = "polling", Poller(t) \notin cancelled'
               PROVE  current_ping.rssi_task = t
    BY <1>2 DEF Polling
  <2>1. poller[t] = "polling" /\ Poller(t) \notin cancelled
    BY <1>4, <1>5
  <2> QED
    BY <2>1 DEF IInv, Polling
<1>12. Counted'
  BY <1>2, CountedKept
<1> QED
  BY <1>3, <1>6, <1>7, <1>8, <1>9, <1>10, <1>11, <1>12 DEF IInv

\* What a task awaits is there.
LEMMA WakeInv ==
  ASSUME IInv, NEW t \in Tasks, Wake(t)
  PROVE  IInv'
<1>1. TypeOK /\ Once(ready) /\ ready \in Seq(Tasks)
  BY DEF IInv, TypeOK
<1>2. /\ MayWake(t) /\ t \notin Range(ready) /\ ready' = Append(ready, t)
      /\ UNCHANGED <<cancelled, request, waiters, session, poller, l2ping, current_ping,
                     session_counter, late>>
  BY DEF Wake
<1>3. /\ ready' \in Seq(Tasks) /\ Once(ready') /\ Range(ready') = Range(ready) \cup {t}
      /\ \A r, s : Ahead(ready, r, s) => Ahead(ready', r, s)
  BY <1>1, <1>2, Appends
<1>4. \A s \in Sessions : t = Session(s) =>
        \/ session[s] \in {"info", "spawn", "report"}
        \/ session[s] = "running" /\ (l2ping[s] = "gone" \/ t \in cancelled)
  BY <1>2, TasksDiffer DEF MayWake
<1>5. TypeOK'
  BY <1>1, <1>2, <1>3 DEF TypeOK
<1>6. Fresh'
  <2>1. \A s \in Sessions : s > session_counter => t # Session(s)
    BY <1>4 DEF IInv, Fresh
  <2> QED
    BY <1>2, <1>3, <2>1 DEF IInv, Fresh
<1>7. Tracker' /\ Reachable' /\ Polling'
  BY <1>2 DEF IInv, Tracker, Reachable, Polling
<1>8. Waiting'
  BY <1>2 DEF IInv, Waiting
<1>9. Returned'
  BY <1>2, <1>3 DEF IInv, Returned
<1>10. Processes'
  <2>1. Processes
    BY DEF IInv
  <2>2. \A s \in Sessions : session[s] = "running" /\ Session(s) \in Range(ready') =>
          l2ping[s] = "gone" \/ Session(s) \in cancelled
    BY <1>3, <1>4, <2>1 DEF Processes
  <2> QED
    BY <1>2, <2>1, <2>2 DEF Processes
<1>11. Counted'
  BY <1>2, CountedKept
<1> QED
  BY <1>3, <1>5, <1>6, <1>7, <1>8, <1>9, <1>10, <1>11 DEF IInv

\* An l2ping ends.
LEMMA ExitInv ==
  ASSUME IInv, NEW s \in Sessions, Exit(s)
  PROVE  IInv'
<1>1. /\ l2ping[s] \in {"alive", "told"} /\ l2ping' = [l2ping EXCEPT ![s] = "gone"]
      /\ UNCHANGED <<ready, cancelled, request, waiters, session, poller, current_ping,
                     session_counter, late>>
  BY DEF Exit
<1>2. /\ l2ping'[s] = "gone" /\ l2ping' \in [Sessions -> {"none", "alive", "told", "gone"}]
      /\ \A t \in Sessions : t # s => l2ping'[t] = l2ping[t]
  BY <1>1 DEF IInv, TypeOK
<1>3. TypeOK'
  BY <1>1, <1>2 DEF IInv, TypeOK
<1>4. Fresh' /\ Tracker' /\ Reachable' /\ Polling' /\ Once(ready')
  BY <1>1 DEF IInv, Fresh, Tracker, Reachable, Polling
<1>5. Waiting'
  BY <1>1 DEF IInv, Waiting
<1>6. Returned'
  BY <1>1 DEF IInv, Returned
<1>7. Processes'
  BY <1>1, <1>2 DEF IInv, Processes
<1>8. Counted'
  BY <1>1, CountedKept
<1> QED
  BY <1>3, <1>4, <1>5, <1>6, <1>7, <1>8 DEF IInv

\* What a request that is resumed does keeps the invariant.
LEMMA RequestInv ==
  ASSUME IInv, NEW r \in Requests, RequestStep(r)
  PROVE  IInv'
<1>1. TypeOK /\ Tracker /\ Returned
  BY DEF IInv
<1>2. RssiTask \subseteq Tasks /\ \A s \in Sessions : Session(s) \notin RssiTask
  BY <1>1, TaskTypes, TasksDiffer DEF TypeOK, RssiTask
<1>3. CASE Refuse(r)
  BY <1>3, RequestEndsInv DEF Refuse
<1>4. CASE StopAndAwait(r)
  BY <1>4, StopAndAwaitInv
<1>5. CASE StopAtOnce(r)
  <2>1. /\ Resumed(Request(r)) /\ request[r] = "called" /\ ~TaskRuns
        /\ cancelled' = cancelled \cup RssiTask /\ TerminateProc /\ Proceed(r)
        /\ UNCHANGED <<waiters, poller, late>>
    BY <1>5 DEF StopAtOnce
  <2>2. cancelled' \subseteq Tasks /\ RssiTask \subseteq cancelled'
    BY <1>1, <1>2, <2>1 DEF TypeOK
  <2>3. \A s \in Sessions : (Session(s) \in cancelled' <=> Session(s) \in cancelled)
                            /\ (Poller(s) \in cancelled => Poller(s) \in cancelled')
    BY <1>2, <2>1
  <2>4. /\ l2ping' \in [Sessions -> {"none", "alive", "told", "gone"}]
        /\ \A s \in Sessions : l2ping[s] # "alive" => l2ping'[s] = l2ping[s]
    BY <1>1, <2>1 DEF TypeOK, TerminateProc
  <2>5. current_ping.id # None => session[current_ping.id] \in {"new"} \cup Ended
    BY <1>1, <2>1 DEF TaskRuns, Tracker
  <2> QED
    BY <2>1, <2>2, <2>3, <2>4, <2>5, ProceedInv
<1>6. CASE StopReturns(r)
  <2>1. /\ Resumed(Request(r)) /\ request[r] = "returned" /\ Proceed(r)
        /\ UNCHANGED <<cancelled, waiters, poller, l2ping, late>>
    BY <1>6 DEF StopReturns
  <2>2. current_ping.id # None => session[current_ping.id] \in {"new"} \cup Ended
    BY <1>1, <2>1 DEF Returned
  <2>3. RssiTask = {}
    BY <1>1, <2>2 DEF Tracker, RssiTask, Ended
  <2>4. cancelled' \subseteq Tasks /\ l2ping' \in [Sessions -> {"none", "alive", "told", "gone"}]
    BY <1>1, <2>1 DEF TypeOK
  <2> QED
    BY <2>1, <2>2, <2>3, <2>4, ProceedInv
<1>7. CASE StopRaises(r)
  BY <1>7, RequestEndsInv DEF StopRaises
<1> QED
  BY <1>3, <1>4, <1>5, <1>6, <1>7 DEF RequestStep

\* What a session does keeps the invariant.
LEMMA SessionInv ==
  ASSUME IInv, NEW s \in Sessions, SessionStep(s)
  PROVE  IInv'
<1>1. TypeOK /\ Processes
  BY DEF IInv
<1>2. /\ l2ping \in [Sessions -> {"none", "alive", "told", "gone"}]
      /\ l2ping[s] \in {"none", "alive", "told", "gone"}
      /\ l2ping = [l2ping EXCEPT ![s] = l2ping[s]]
  BY <1>1 DEF TypeOK
<1>3. "cancelled" \in Ended /\ "done" \in Ended
      /\ {"new", "info", "spawn", "running", "report"} \cap ({"none"} \cup Ended) = {}
  BY DEF Ended
<1>4. CASE CancelUnstarted(s)
  <2>1. /\ Resumed(Session(s)) /\ session[s] = "new" /\ cancelled' = cancelled \ {Session(s)}
        /\ End(s, "cancelled")
        /\ UNCHANGED <<waiters, poller, l2ping, current_ping, session_counter, late>>
    BY <1>4 DEF CancelUnstarted
  <2>2. l2ping[s] \in {"none", "told", "gone"} /\ l2ping' = [l2ping EXCEPT ![s] = l2ping[s]]
    BY <1>1, <1>2, <2>1 DEF Processes
  <2> QED
    BY <1>3, <2>1, <2>2, EndInv
<1>5. CASE Cancel(s)
  <2> DEFINE v == IF session[s] = "spawn" /\ l2ping[s] = "alive" THEN "told" ELSE l2ping[s]
  <2>1. /\ Resumed(Session(s)) /\ Session(s) \in cancelled
        /\ session[s] \in {"info", "spawn", "running", "report"}
        /\ l2ping' = IF session[s] = "spawn" /\ l2ping[s] = "alive"
                     THEN [l2ping EXCEPT ![s] = "told"] ELSE l2ping
        /\ Finally(s) /\ End(s, "cancelled")
        /\ UNCHANGED <<waiters, poller, session_counter, late>>
    BY <1>5 DEF Cancel
  <2>2. v \in {"none", "told", "gone"}
    BY <1>1, <1>2, <2>1 DEF Processes
  <2>3. l2ping' = [l2ping EXCEPT ![s] = v]
    BY <1>2, <2>1
  <2> HIDE DEF v
  <2> QED
    BY <1>3, <2>1, <2>2, <2>3, EndInv
<1>6. CASE AnswerWins(s)
  BY <1>6, AnswerWinsInv
<1>7. CASE Begin(s)
  <2>1. l2ping[s] = "none"
    BY <1>1, <1>7 DEF Begin, Processes
  <2>2. l2ping' = [l2ping EXCEPT ![s] = "none"]
    BY <1>2, <1>7, <2>1 DEF Begin
  <2> QED
    BY <1>7, <2>2, ProgressInv DEF Begin
<1>8. CASE Spawn(s)
  BY <1>8, ProgressInv DEF Spawn
<1>9. CASE SpawnFails(s)
  BY <1>9, ProgressInv DEF SpawnFails
<1>10. CASE BailOut(s)
  <2> DEFINE v == IF l2ping[s] = "alive" THEN "told" ELSE l2ping[s]
  <2>1. /\ Resumed(Session(s)) /\ session[s] = "spawn" /\ Finally(s) /\ End(s, "done")
        /\ l2ping' = [l2ping EXCEPT ![s] = IF @ = "alive" THEN "told" ELSE @]
        /\ UNCHANGED <<waiters, poller, session_counter, late>>
    BY <1>10 DEF BailOut
  <2>2. v \in {"none", "told", "gone"}
    BY <1>2
  <2>3. l2ping' = [l2ping EXCEPT ![s] = v]
    BY <1>2, <2>1
  <2> HIDE DEF v
  <2> QED
    BY <1>3, <2>1, <2>2, <2>3, EndInv
<1>11. CASE Run(s)
  BY <1>11, RunInv
<1>12. CASE Complete(s)
  <2>1. /\ Resumed(Session(s)) /\ Session(s) \notin cancelled /\ session[s] = "running"
        /\ session' = [session EXCEPT ![s] = "report"] /\ ready' = Tail(ready)
        /\ UNCHANGED <<cancelled, request, waiters, poller, l2ping, current_ping,
                       session_counter, late>>
    BY <1>12 DEF Complete
  <2>2. Session(s) \in Range(ready)
    <3>1. ready[1] = Session(s) /\ 1 \in DOMAIN ready
      BY <1>1, <2>1, TailIs DEF Resumed, TypeOK
    <3> QED
      BY <3>1 DEF Range
  <2>3. l2ping[s] = "gone"
    BY <1>1, <2>1, <2>2 DEF Processes
  <2>4. l2ping' = [l2ping EXCEPT ![s] = "gone"]
    BY <1>2, <2>1, <2>3
  <2> QED
    BY <2>1, <2>4, ProgressInv
<1>13. CASE Return(s)
  <2>1. /\ Resumed(Session(s)) /\ session[s] = "report" /\ Finally(s) /\ End(s, "done")
        /\ UNCHANGED <<waiters, poller, l2ping, session_counter, late>>
    BY <1>13 DEF Return
  <2>2. l2ping[s] \in {"none", "told", "gone"} /\ l2ping' = [l2ping EXCEPT ![s] = l2ping[s]]
    BY <1>1, <1>2, <2>1 DEF Processes
  <2> QED
    BY <1>3, <2>1, <2>2, EndInv
<1> QED
  BY <1>4, <1>5, <1>6, <1>7, <1>8, <1>9, <1>10, <1>11, <1>12, <1>13 DEF SessionStep

\* Every step keeps the invariant.
LEMMA NextInv == IInv /\ [Next]_vars => IInv'
<1> SUFFICES ASSUME IInv, [Next]_vars PROVE IInv'
  OBVIOUS
<1>1. CASE \E r \in Requests : RequestStep(r)
  BY <1>1, RequestInv
<1>2. CASE \E s \in Sessions : SessionStep(s)
  BY <1>2, SessionInv
<1>3. CASE \E s \in Sessions : PollerStep(s)
  BY <1>3, PollerInv
<1>4. CASE \E r \in Requests : Arrive(r)
  BY <1>4, ArriveInv
<1>5. CASE \E t \in Tasks : Wake(t)
  BY <1>5, WakeInv
<1>6. CASE \E s \in Sessions : Exit(s)
  BY <1>6, ExitInv
<1>7. CASE UNCHANGED vars
  BY <1>7 DEF vars, IInv, TypeOK, Fresh, Tracker, Reachable, Waiting, Once, Returned, Ahead,
     Processes, Polling, Counted, Answered
<1> QED
  BY <1>1, <1>2, <1>3, <1>4, <1>5, <1>6, <1>7 DEF Next, Loop

-----------------------------------------------------------------------------
(***************************************************************************)
(* The theorems.                                                           *)
(***************************************************************************)
\* The invariant holds of the event loop from start to end.
THEOREM Invariance == Spec => []IInv
  BY InitInv, NextInv, PTL DEF Spec

\* The tracker, the tasks and the processes have their types: more sessions are
\* never created than there are requests to start one.
THEOREM TypeCorrect == Spec => []TypeOK
<1>1. IInv => TypeOK
  BY DEF IInv
<1> QED
  BY <1>1, Invariance, PTL

\* A running session is the one the tracker names, whatever order the loop resumes
\* the requests that wait for other sessions in: it can be stopped.
THEOREM SessionsAreReachable == Spec => []Reachable
<1>1. IInv => Reachable
  BY DEF IInv
<1> QED
  BY <1>1, Invariance, PTL

\* Never two sessions run: the comment on the tracker, "one at a time".
THEOREM OneSessionAtATime == Spec => []OneAtATime
<1>1. Reachable => OneAtATime
  <2> SUFFICES ASSUME Reachable, NEW s \in Sessions, NEW t \in Sessions,
                      session[s] = "running", session[t] = "running"
               PROVE  s = t
    BY DEF OneAtATime
  <2>1. current_ping.id = s /\ current_ping.id = t
    BY DEF Reachable
  <2> QED
    BY <2>1
<1> QED
  BY <1>1, SessionsAreReachable, PTL

\* A session that has ended, however it did, has left neither an l2ping that nobody
\* told to end nor an RSSI task that nobody cancelled.
THEOREM NothingIsLeft == Spec => []LeavesNothing
<1>1. IInv => LeavesNothing
  <2> SUFFICES ASSUME IInv, NEW s \in Sessions, session[s] \in Ended
               PROVE  /\ l2ping[s] # "alive"
                      /\ poller[s] = "polling" => Poller(s) \in cancelled
    BY DEF LeavesNothing
  <2>1. l2ping[s] # "alive"
    BY DEF IInv, Processes
  <2>2. ASSUME poller[s] = "polling", Poller(s) \notin cancelled
        PROVE  FALSE
    <3>1. current_ping.proc = s /\ s # None
      BY <2>2, SessionNumbers DEF IInv, Polling, Tracker
    <3>2. current_ping.id = s /\ session[s] \in {"running", "report"}
      BY <3>1 DEF IInv, Tracker
    <3> QED
      BY <3>2 DEF Ended
  <2> QED
    BY <2>1, <2>2
<1> QED
  BY <1>1, Invariance, PTL
=============================================================================
