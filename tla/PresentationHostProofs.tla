----------------------- MODULE PresentationHostProofs -----------------------
(***************************************************************************)
(* Proofs about the presentation host, for any threads and any number of   *)
(* works: the exclusive claim is given back clean, presentation has one    *)
(* thread at a time, and a host is judged by what happened to it.          *)
(***************************************************************************)
EXTENDS PresentationHost, TLAPS, SequenceTheorems

----------------------------------------------------------------------------
(* Two lists put together, first any two and then those of the lengths the   *)
(* calls have.                                                               *)
LEMMA Glue ==
  ASSUME NEW S, NEW p \in Seq(S), NEW q \in Seq(S), NEW r \in Seq(S),
         Len(r) = Len(p) + Len(q),
         \A i \in 1..Len(r) : r[i] = IF i <= Len(p) THEN p[i] ELSE q[i - Len(p)]
  PROVE  p \o q = r
BY ConcatProperties, SeqEqual

LEMMA Concat11 ==
  ASSUME NEW a, NEW b
  PROVE  <<a>> \o <<b>> = <<a, b>>
<1> DEFINE S == {a, b} p == <<a>> q == <<b>> r == <<a, b>>
<1>1. p \in Seq(S) /\ q \in Seq(S) /\ r \in Seq(S) /\ Len(p) = 1 /\ Len(q) = 1 /\ Len(r) = 2
  OBVIOUS
<1>2. p[1] = a /\ q[1] = b
  OBVIOUS
<1>3. r[1] = a /\ r[2] = b
  OBVIOUS
<1> HIDE DEF S, p, q, r
<1>4. \A i \in 1..Len(r) : r[i] = IF i <= Len(p) THEN p[i] ELSE q[i - Len(p)]
  BY <1>1, <1>2, <1>3
<1>5. p \o q = r
  <2>1. Len(r) = Len(p) + Len(q)
    BY <1>1
  <2> QED
    BY <1>1, <1>4, <2>1, Glue
<1> QED
  BY <1>5 DEF p, q, r

LEMMA Concat12 ==
  ASSUME NEW a, NEW b, NEW c
  PROVE  <<a>> \o <<b, c>> = <<a, b, c>>
<1> DEFINE S == {a, b, c} p == <<a>> q == <<b, c>> r == <<a, b, c>>
<1>1. p \in Seq(S) /\ q \in Seq(S) /\ r \in Seq(S) /\ Len(p) = 1 /\ Len(q) = 2 /\ Len(r) = 3
  OBVIOUS
<1>2. p[1] = a /\ q[1] = b /\ q[2] = c
  OBVIOUS
<1>3. r[1] = a /\ r[2] = b /\ r[3] = c
  OBVIOUS
<1> HIDE DEF S, p, q, r
<1>4. \A i \in 1..Len(r) : r[i] = IF i <= Len(p) THEN p[i] ELSE q[i - Len(p)]
  BY <1>1, <1>2, <1>3
<1>5. p \o q = r
  <2>1. Len(r) = Len(p) + Len(q)
    BY <1>1
  <2> QED
    BY <1>1, <1>4, <2>1, Glue
<1> QED
  BY <1>5 DEF p, q, r

LEMMA Concat14 ==
  ASSUME NEW a, NEW b, NEW c, NEW d, NEW e
  PROVE  <<a>> \o <<b, c, d, e>> = <<a, b, c, d, e>>
<1> DEFINE S == {a, b, c, d, e} p == <<a>> q == <<b, c, d, e>> r == <<a, b, c, d, e>>
<1>1. p \in Seq(S) /\ q \in Seq(S) /\ r \in Seq(S) /\ Len(p) = 1 /\ Len(q) = 4 /\ Len(r) = 5
  OBVIOUS
<1>2. p[1] = a /\ q[1] = b /\ q[2] = c /\ q[3] = d /\ q[4] = e
  OBVIOUS
<1>3. r[1] = a /\ r[2] = b /\ r[3] = c /\ r[4] = d /\ r[5] = e
  OBVIOUS
<1> HIDE DEF S, p, q, r
<1>4. \A i \in 1..Len(r) : r[i] = IF i <= Len(p) THEN p[i] ELSE q[i - Len(p)]
  BY <1>1, <1>2, <1>3
<1>5. p \o q = r
  <2>1. Len(r) = Len(p) + Len(q)
    BY <1>1
  <2> QED
    BY <1>1, <1>4, <2>1, Glue
<1> QED
  BY <1>5 DEF p, q, r

LEMMA Concat15 ==
  ASSUME NEW a, NEW b, NEW c, NEW d, NEW e, NEW f
  PROVE  <<a>> \o <<b, c, d, e, f>> = <<a, b, c, d, e, f>>
<1> DEFINE S == {a, b, c, d, e, f} p == <<a>> q == <<b, c, d, e, f>> r == <<a, b, c, d, e, f>>
<1>1. p \in Seq(S) /\ q \in Seq(S) /\ r \in Seq(S) /\ Len(p) = 1 /\ Len(q) = 5 /\ Len(r) = 6
  OBVIOUS
<1>2. p[1] = a /\ q[1] = b /\ q[2] = c /\ q[3] = d /\ q[4] = e /\ q[5] = f
  OBVIOUS
<1>3. r[1] = a /\ r[2] = b /\ r[3] = c /\ r[4] = d /\ r[5] = e /\ r[6] = f
  OBVIOUS
<1> HIDE DEF S, p, q, r
<1>4. \A i \in 1..Len(r) : r[i] = IF i <= Len(p) THEN p[i] ELSE q[i - Len(p)]
  BY <1>1, <1>2, <1>3
<1>5. p \o q = r
  <2>1. Len(r) = Len(p) + Len(q)
    BY <1>1
  <2> QED
    BY <1>1, <1>4, <2>1, Glue
<1> QED
  BY <1>5 DEF p, q, r

LEMMA Concat21 ==
  ASSUME NEW a, NEW b, NEW c
  PROVE  <<a, b>> \o <<c>> = <<a, b, c>>
<1> DEFINE S == {a, b, c} p == <<a, b>> q == <<c>> r == <<a, b, c>>
<1>1. p \in Seq(S) /\ q \in Seq(S) /\ r \in Seq(S) /\ Len(p) = 2 /\ Len(q) = 1 /\ Len(r) = 3
  OBVIOUS
<1>2. p[1] = a /\ p[2] = b /\ q[1] = c
  OBVIOUS
<1>3. r[1] = a /\ r[2] = b /\ r[3] = c
  OBVIOUS
<1> HIDE DEF S, p, q, r
<1>4. \A i \in 1..Len(r) : r[i] = IF i <= Len(p) THEN p[i] ELSE q[i - Len(p)]
  BY <1>1, <1>2, <1>3
<1>5. p \o q = r
  <2>1. Len(r) = Len(p) + Len(q)
    BY <1>1
  <2> QED
    BY <1>1, <1>4, <2>1, Glue
<1> QED
  BY <1>5 DEF p, q, r

LEMMA Concat23 ==
  ASSUME NEW a, NEW b, NEW c, NEW d, NEW e
  PROVE  <<a, b>> \o <<c, d, e>> = <<a, b, c, d, e>>
<1> DEFINE S == {a, b, c, d, e} p == <<a, b>> q == <<c, d, e>> r == <<a, b, c, d, e>>
<1>1. p \in Seq(S) /\ q \in Seq(S) /\ r \in Seq(S) /\ Len(p) = 2 /\ Len(q) = 3 /\ Len(r) = 5
  OBVIOUS
<1>2. p[1] = a /\ p[2] = b /\ q[1] = c /\ q[2] = d /\ q[3] = e
  OBVIOUS
<1>3. r[1] = a /\ r[2] = b /\ r[3] = c /\ r[4] = d /\ r[5] = e
  OBVIOUS
<1> HIDE DEF S, p, q, r
<1>4. \A i \in 1..Len(r) : r[i] = IF i <= Len(p) THEN p[i] ELSE q[i - Len(p)]
  BY <1>1, <1>2, <1>3
<1>5. p \o q = r
  <2>1. Len(r) = Len(p) + Len(q)
    BY <1>1
  <2> QED
    BY <1>1, <1>4, <2>1, Glue
<1> QED
  BY <1>5 DEF p, q, r

LEMMA Concat24 ==
  ASSUME NEW a, NEW b, NEW c, NEW d, NEW e, NEW f
  PROVE  <<a, b>> \o <<c, d, e, f>> = <<a, b, c, d, e, f>>
<1> DEFINE S == {a, b, c, d, e, f} p == <<a, b>> q == <<c, d, e, f>> r == <<a, b, c, d, e, f>>
<1>1. p \in Seq(S) /\ q \in Seq(S) /\ r \in Seq(S) /\ Len(p) = 2 /\ Len(q) = 4 /\ Len(r) = 6
  OBVIOUS
<1>2. p[1] = a /\ p[2] = b /\ q[1] = c /\ q[2] = d /\ q[3] = e /\ q[4] = f
  OBVIOUS
<1>3. r[1] = a /\ r[2] = b /\ r[3] = c /\ r[4] = d /\ r[5] = e /\ r[6] = f
  OBVIOUS
<1> HIDE DEF S, p, q, r
<1>4. \A i \in 1..Len(r) : r[i] = IF i <= Len(p) THEN p[i] ELSE q[i - Len(p)]
  BY <1>1, <1>2, <1>3
<1>5. p \o q = r
  <2>1. Len(r) = Len(p) + Len(q)
    BY <1>1
  <2> QED
    BY <1>1, <1>4, <2>1, Glue
<1> QED
  BY <1>5 DEF p, q, r

LEMMA Concat31 ==
  ASSUME NEW a, NEW b, NEW c, NEW d
  PROVE  <<a, b, c>> \o <<d>> = <<a, b, c, d>>
<1> DEFINE S == {a, b, c, d} p == <<a, b, c>> q == <<d>> r == <<a, b, c, d>>
<1>1. p \in Seq(S) /\ q \in Seq(S) /\ r \in Seq(S) /\ Len(p) = 3 /\ Len(q) = 1 /\ Len(r) = 4
  OBVIOUS
<1>2. p[1] = a /\ p[2] = b /\ p[3] = c /\ q[1] = d
  OBVIOUS
<1>3. r[1] = a /\ r[2] = b /\ r[3] = c /\ r[4] = d
  OBVIOUS
<1> HIDE DEF S, p, q, r
<1>4. \A i \in 1..Len(r) : r[i] = IF i <= Len(p) THEN p[i] ELSE q[i - Len(p)]
  BY <1>1, <1>2, <1>3
<1>5. p \o q = r
  <2>1. Len(r) = Len(p) + Len(q)
    BY <1>1
  <2> QED
    BY <1>1, <1>4, <2>1, Glue
<1> QED
  BY <1>5 DEF p, q, r

LEMMA Concat51 ==
  ASSUME NEW a, NEW b, NEW c, NEW d, NEW e, NEW f
  PROVE  <<a, b, c, d, e>> \o <<f>> = <<a, b, c, d, e, f>>
<1> DEFINE S == {a, b, c, d, e, f} p == <<a, b, c, d, e>> q == <<f>> r == <<a, b, c, d, e, f>>
<1>1. p \in Seq(S) /\ q \in Seq(S) /\ r \in Seq(S) /\ Len(p) = 5 /\ Len(q) = 1 /\ Len(r) = 6
  OBVIOUS
<1>2. p[1] = a /\ p[2] = b /\ p[3] = c /\ p[4] = d /\ p[5] = e /\ q[1] = f
  OBVIOUS
<1>3. r[1] = a /\ r[2] = b /\ r[3] = c /\ r[4] = d /\ r[5] = e /\ r[6] = f
  OBVIOUS
<1> HIDE DEF S, p, q, r
<1>4. \A i \in 1..Len(r) : r[i] = IF i <= Len(p) THEN p[i] ELSE q[i - Len(p)]
  BY <1>1, <1>2, <1>3
<1>5. p \o q = r
  <2>1. Len(r) = Len(p) + Len(q)
    BY <1>1
  <2> QED
    BY <1>1, <1>4, <2>1, Glue
<1> QED
  BY <1>5 DEF p, q, r
----------------------------------------------------------------------------
(* The lists of steps a thread may have left.                                *)
Quiet == {<<>>, <<"notify">>, <<"signal">>, <<"joinWait">>}
Starts == {<<"startDrain", "startCreate">>, <<"startCreate">>, <<"startClose">>,
           <<"startRelease">>}
Stops == {<<"stop", "signal">>, <<"close", "signal">>, <<"fail", "stop", "signal">>}

(* A join, by how far it is: drained, the worker awaited, the host stopped.  *)
Drained == {<<"finish", "broadcast">>, <<"broadcast">>}
Awaited == {<<"joinDrain", "finish", "broadcast">>} \cup Drained
Stopped == {<<"signal", "await", "joinDrain", "finish", "broadcast">>,
            <<"await", "joinDrain", "finish", "broadcast">>} \cup Awaited
Joins == {<<"stop", "signal", "await", "joinDrain", "finish", "broadcast">>,
          <<"close", "signal", "await", "joinDrain", "finish", "broadcast">>} \cup Stopped

(* A pump: inside a callback of the presenter, in a shutdown called from     *)
(* there, or on its way from one part of its tick to the next.               *)
Presenting == {<<"presenting", "announce", "pumpDone">>, <<"holding", "announce", "pumpDone">>}
InShutdown ==
  {<<"stop", "signal", "presenting", "announce", "pumpDone">>,
   <<"stop", "signal", "holding", "announce", "pumpDone">>,
   <<"close", "signal", "presenting", "announce", "pumpDone">>,
   <<"close", "signal", "holding", "announce", "pumpDone">>,
   <<"signal", "presenting", "announce", "pumpDone">>,
   <<"signal", "holding", "announce", "pumpDone">>}
Ticked == {<<"pumpDone">>, <<"present", "pumpDone">>, <<"fail", "stop", "signal", "pumpDone">>}
Draining ==
  {<<"drain", "announce", "pumpDone">>, <<"drain", "announce", "present", "pumpDone">>,
   <<"drain", "announce", "fail", "stop", "signal", "pumpDone">>}
Announcing ==
  {<<"announce", "pumpDone">>, <<"announce", "present", "pumpDone">>,
   <<"announce", "fail", "stop", "signal", "pumpDone">>}
Signalling ==
  {<<"signal", "pumpDone">>, <<"signal", "present", "pumpDone">>,
   <<"signal", "fail", "stop", "signal", "pumpDone">>}
PumpStops == {<<"stop", "signal", "pumpDone">>, <<"close", "signal", "pumpDone">>}
Pumps == {<<"tick">>} \cup Presenting \cup InShutdown \cup Ticked \cup Draining
         \cup Announcing \cup Signalling \cup PumpStops
Stacks == Quiet \cup Starts \cup Stops \cup Joins \cup Pumps

Starting(t) == todo[t] \in Starts
Joining(t) == todo[t] \in Joins
Pumping(t) == todo[t] \in Pumps

----------------------------------------------------------------------------
(* The inductive invariant.  Every list is one of the above, and the         *)
(* variables have their types.                                               *)
WorkerShape ==
  [pc : {"wait", "asleep", "woken", "compile", "callback", "result", "done"},
   notified : BOOLEAN, retry : BOOLEAN, latch : BOOLEAN, result : Results, stale : BOOLEAN]

Shaped ==
  /\ todo \in [Threads -> Stacks]
  /\ queue \in Nat /\ worker \in WorkerShape /\ fault \subseteq {"clock", "rebind", "exhausted"}
  /\ {open, blocked, endpoints, deferred, exhausted, exclusive, stop, closing, closed,
      ownerReady, presenterRunning, joinStarted, joinComplete, joinOk} \subseteq BOOLEAN

(* A start has the host to itself; what it closes again was open.            *)
StartAlone ==
  \A t \in Threads : Starting(t) =>
    /\ st = "starting" /\ exclusive /\ fault = {} /\ worker.pc = "done"
    /\ todo[t] # <<"startRelease">> => open \/ exhausted
    /\ todo[t] = <<"startRelease">> => ~open
    /\ \A u \in Threads : u # t => todo[u] \in Quiet

(* Only a host that was returned is pumped, stopped or joined.               *)
HostThere ==
  \A t \in Threads : todo[t] \notin Quiet \cup Starts => Exists

(* The pump runs on the owner, and only while the claim is held.             *)
OwnerPumps ==
  /\ ownerReady => exclusive
  /\ \A t \in Threads : Pumping(t) => IsOwner(t)
  /\ presenterRunning <=> \E t \in Threads : Pumping(t)
  /\ \A t \in Threads : todo[t] = <<"fail", "stop", "signal">> /\ ownerReady => owner = t

(* One join of a host, on its owner unless that was rebound, and no pump.    *)
OneJoin ==
  /\ joinComplete => joinStarted
  /\ joinStarted /\ ~joinComplete <=> \E t \in Threads : Joining(t)
  /\ \A t, u \in Threads : Joining(t) /\ Joining(u) => t = u
  /\ \A t \in Threads : Joining(t) /\ "rebind" \notin fault /\ ownerReady => owner = t
  /\ \A t \in Threads : Joining(t) /\ todo[t] # <<"broadcast">> => ownerReady
  /\ joinStarted /\ ~joinComplete /\ presenterRunning => "rebind" \in fault

(* The lane is closed once, under the lifecycle lock; a closed lane has      *)
(* nothing queued, and only the end of the epochs closes it otherwise.       *)
OneClose ==
  /\ \A t \in Threads : At(t, "close") => lock = t
  /\ lock # "none" => closing /\ ~closed
  /\ closed => closing /\ ~open
  /\ closing => Exists
  /\ ~open => queue = 0 /\ ~endpoints
  /\ worker.pc = "callback" /\ ~worker.stale => queue > 0
  /\ exhausted => EpochsEnd
  /\ Exists /\ ~closed /\ ~open => exhausted
  /\ closing /\ lock = "none" /\ ~closed => "exhausted" \in fault
  /\ joinComplete \/ (\E t \in Threads : todo[t] \in Stopped) => closing /\ lock = "none"

(* What a join knows at each of its steps: the worker is gone, the drain of  *)
(* an owner succeeded, and so will the join if it was the host that closed.  *)
JoinIsDue ==
  /\ \A t \in Threads :
       /\ todo[t] \in Awaited => worker.pc = "done"
       /\ todo[t] = <<"finish", "broadcast">> =>
            /\ "rebind" \notin fault => joinOk
            /\ joinOk /\ closed => ~deferred
  /\ joinComplete \/ (\E t \in Threads : todo[t] = <<"broadcast">>) =>
       (closed /\ "rebind" \notin fault => joinOk)

(* A failure has a cause, and a clock that failed fails the host.            *)
FaultsKnown ==
  /\ st = "failed" => fault # {}
  /\ "clock" \in fault => st = "failed"

HostInv ==
  /\ Shaped /\ StartAlone /\ HostThere /\ OwnerPumps /\ OneJoin
  /\ OneClose /\ JoinIsDue /\ FaultsKnown
  /\ ~exclusive => worker.pc = "done" /\ Quiescent

----------------------------------------------------------------------------
(* What a list may be, by its first step.                                    *)
LEMMA StackAt ==
  ASSUME HostInv, NEW t \in Threads
  PROVE  /\ todo[t] \in Stacks /\ (Idle(t) => todo[t] \in Quiet)
         /\ At(t, "startDrain") => todo[t] = <<"startDrain", "startCreate">>
         /\ At(t, "startCreate") => todo[t] = <<"startCreate">>
         /\ At(t, "startClose") => todo[t] = <<"startClose">>
         /\ At(t, "startRelease") => todo[t] = <<"startRelease">>
         /\ At(t, "notify") => todo[t] = <<"notify">>
         /\ At(t, "tick") => todo[t] = <<"tick">>
         /\ At(t, "drain") => todo[t] \in Draining
         /\ At(t, "announce") => todo[t] \in Announcing
         /\ At(t, "present") => todo[t] = <<"present", "pumpDone">>
         /\ At(t, "pumpDone") => todo[t] = <<"pumpDone">>
         /\ At(t, "joinWait") => todo[t] = <<"joinWait">>
         /\ At(t, "await") => todo[t] = <<"await", "joinDrain", "finish", "broadcast">>
         /\ At(t, "joinDrain") => todo[t] = <<"joinDrain", "finish", "broadcast">>
         /\ At(t, "finish") => todo[t] = <<"finish", "broadcast">>
         /\ At(t, "broadcast") => todo[t] = <<"broadcast">>
<1>1. todo[t] \in Stacks
  BY DEF HostInv, Shaped
<1>2. Idle(t) => todo[t] \in Quiet
  BY DEF Idle, Quiet
<1> QED
  BY <1>1, <1>2 DEF At, Stacks, Quiet, Starts, Stops, Joins, Stopped, Awaited, Drained, Pumps,
     Presenting, InShutdown, Ticked, Draining, Announcing, Signalling, PumpStops

LEMMA StackAtCall ==
  ASSUME HostInv, NEW t \in Threads
  PROVE  /\ At(t, "presenting") => todo[t] = <<"presenting", "announce", "pumpDone">>
         /\ At(t, "holding") => todo[t] = <<"holding", "announce", "pumpDone">>
         /\ At(t, "fail") => todo[t] \in {<<"fail", "stop", "signal">>,
                                          <<"fail", "stop", "signal", "pumpDone">>}
         /\ At(t, "stop") => todo[t] \in
              {<<"stop", "signal">>, <<"stop", "signal", "pumpDone">>,
               <<"stop", "signal", "await", "joinDrain", "finish", "broadcast">>,
               <<"stop", "signal", "presenting", "announce", "pumpDone">>,
               <<"stop", "signal", "holding", "announce", "pumpDone">>}
         /\ At(t, "close") => todo[t] \in
              {<<"close", "signal">>, <<"close", "signal", "pumpDone">>,
               <<"close", "signal", "await", "joinDrain", "finish", "broadcast">>,
               <<"close", "signal", "presenting", "announce", "pumpDone">>,
               <<"close", "signal", "holding", "announce", "pumpDone">>}
         /\ At(t, "signal") => todo[t] \in Signalling \cup
              {<<"signal">>, <<"signal", "await", "joinDrain", "finish", "broadcast">>,
               <<"signal", "presenting", "announce", "pumpDone">>,
               <<"signal", "holding", "announce", "pumpDone">>}
<1>1. todo[t] \in Stacks
  BY DEF HostInv, Shaped
<1> QED
  BY <1>1 DEF At, Stacks, Quiet, Starts, Stops, Joins, Stopped, Awaited, Drained, Pumps,
     Presenting, InShutdown, Ticked, Draining, Announcing, Signalling, PumpStops

(* The kinds of lists are apart.                                             *)
LEMMA Kinds ==
  ASSUME NEW s
  PROVE  /\ s \in Quiet => s \notin Starts \cup Stops \cup Joins \cup Pumps
         /\ s \in Starts => s \notin Stops \cup Joins \cup Pumps
         /\ s \in Stops => s \notin Joins \cup Pumps
         /\ s \in Joins => s \notin Pumps
         /\ s \in Quiet \cup Starts => s = <<>> \/ Head(s) # "close"
<1>1. s \in Quiet => s \notin Starts \cup Stops \cup Joins \cup Pumps
  BY DEF Quiet, Starts, Stops, Joins, Stopped, Awaited, Drained, Pumps,
     Presenting, InShutdown, Ticked, Draining, Announcing, Signalling, PumpStops
<1>2. s \in Starts => s \notin Stops \cup Joins \cup Pumps
  BY DEF Starts, Stops, Joins, Stopped, Awaited, Drained, Pumps,
     Presenting, InShutdown, Ticked, Draining, Announcing, Signalling, PumpStops
<1>3. s \in Stops => s \notin Joins \cup Pumps
  BY DEF Stops, Joins, Stopped, Awaited, Drained, Pumps,
     Presenting, InShutdown, Ticked, Draining, Announcing, Signalling, PumpStops
<1>4. s \in Joins => s \notin Pumps
  BY DEF Joins, Stopped, Awaited, Drained, Pumps,
     Presenting, InShutdown, Ticked, Draining, Announcing, Signalling, PumpStops
<1>5. s \in Quiet \cup Starts => s = <<>> \/ Head(s) # "close"
  BY DEF Quiet, Starts
<1> QED
  BY <1>1, <1>2, <1>3, <1>4, <1>5

(* Whoever may be in the backend is starting, pumping or draining the join.  *)
LEMMA BackendIs ==
  ASSUME HostInv, NEW t \in Threads
  PROVE  /\ InBackend(t) => \/ Starting(t) \/ Pumping(t)
                            \/ /\ todo[t] = <<"joinDrain", "finish", "broadcast">>
                               /\ IsOwner(t)
         /\ InCallback(t) => Pumping(t)
<1>1. todo[t] \in Stacks
  BY DEF HostInv, Shaped
<1>2. ASSUME todo[t] \notin Starts, todo[t] \notin Pumps
      PROVE  \A i \in DOMAIN todo[t] : todo[t][i] \notin Backend
  BY <1>1, <1>2 DEF Stacks, Quiet, Stops, Joins, Stopped, Awaited, Drained, Backend, Callbacks
<1>3. ASSUME todo[t] \in Starts
      PROVE  \A i \in DOMAIN todo[t] : todo[t][i] \notin Callbacks
  BY <1>3 DEF Starts, Callbacks
<1> QED
  BY <1>2, <1>3, StackAt DEF InBackend, InCallback, Starting, Pumping, Backend

(* Every list that is put together, and every one a step is taken from.      *)
LEMMA Prefixes ==
  /\ <<"drain", "announce">> \o <<"present">>
       = <<"drain", "announce", "present">>
  /\ <<"drain", "announce">> \o <<"fail", "stop", "signal">>
       = <<"drain", "announce", "fail", "stop", "signal">>
  /\ <<"present">> \o <<"pumpDone">>
       = <<"present", "pumpDone">>
  /\ <<"fail", "stop", "signal">> \o <<"pumpDone">>
       = <<"fail", "stop", "signal", "pumpDone">>
  /\ <<"drain", "announce">> \o <<"pumpDone">>
       = <<"drain", "announce", "pumpDone">>
  /\ <<"drain", "announce", "present">> \o <<"pumpDone">>
       = <<"drain", "announce", "present", "pumpDone">>
  /\ <<"drain", "announce", "fail", "stop", "signal">> \o <<"pumpDone">>
       = <<"drain", "announce", "fail", "stop", "signal", "pumpDone">>
  /\ <<"presenting", "announce">> \o <<"pumpDone">>
       = <<"presenting", "announce", "pumpDone">>
  /\ <<"holding">> \o <<"announce", "pumpDone">>
       = <<"holding", "announce", "pumpDone">>
  /\ <<"signal">> \o <<"pumpDone">>
       = <<"signal", "pumpDone">>
  /\ <<"signal">> \o <<"present", "pumpDone">>
       = <<"signal", "present", "pumpDone">>
  /\ <<"signal">> \o <<"fail", "stop", "signal", "pumpDone">>
       = <<"signal", "fail", "stop", "signal", "pumpDone">>
  /\ <<"stop", "signal">> \o <<"presenting", "announce", "pumpDone">>
       = <<"stop", "signal", "presenting", "announce", "pumpDone">>
  /\ <<"stop", "signal">> \o <<"holding", "announce", "pumpDone">>
       = <<"stop", "signal", "holding", "announce", "pumpDone">>
  /\ <<"stop", "signal">> \o <<"await", "joinDrain", "finish", "broadcast">>
       = <<"stop", "signal", "await", "joinDrain", "finish", "broadcast">>
  /\ <<"close">> \o <<"signal">>
       = <<"close", "signal">>
  /\ <<"close">> \o <<"signal", "pumpDone">>
       = <<"close", "signal", "pumpDone">>
  /\ <<"close">> \o <<"signal", "await", "joinDrain", "finish", "broadcast">>
       = <<"close", "signal", "await", "joinDrain", "finish", "broadcast">>
  /\ <<"close">> \o <<"signal", "presenting", "announce", "pumpDone">>
       = <<"close", "signal", "presenting", "announce", "pumpDone">>
  /\ <<"close">> \o <<"signal", "holding", "announce", "pumpDone">>
       = <<"close", "signal", "holding", "announce", "pumpDone">>
<1>1. <<"drain", "announce">> \o <<"present">>
       = <<"drain", "announce", "present">>
  BY Concat21
<1>2. <<"drain", "announce">> \o <<"fail", "stop", "signal">>
       = <<"drain", "announce", "fail", "stop", "signal">>
  BY Concat23
<1>3. <<"present">> \o <<"pumpDone">>
       = <<"present", "pumpDone">>
  BY Concat11
<1>4. <<"fail", "stop", "signal">> \o <<"pumpDone">>
       = <<"fail", "stop", "signal", "pumpDone">>
  BY Concat31
<1>5. <<"drain", "announce">> \o <<"pumpDone">>
       = <<"drain", "announce", "pumpDone">>
  BY Concat21
<1>6. <<"drain", "announce", "present">> \o <<"pumpDone">>
       = <<"drain", "announce", "present", "pumpDone">>
  BY Concat31
<1>7. <<"drain", "announce", "fail", "stop", "signal">> \o <<"pumpDone">>
       = <<"drain", "announce", "fail", "stop", "signal", "pumpDone">>
  BY Concat51
<1>8. <<"presenting", "announce">> \o <<"pumpDone">>
       = <<"presenting", "announce", "pumpDone">>
  BY Concat21
<1>9. <<"holding">> \o <<"announce", "pumpDone">>
       = <<"holding", "announce", "pumpDone">>
  BY Concat12
<1>10. <<"signal">> \o <<"pumpDone">>
       = <<"signal", "pumpDone">>
  BY Concat11
<1>11. <<"signal">> \o <<"present", "pumpDone">>
       = <<"signal", "present", "pumpDone">>
  BY Concat12
<1>12. <<"signal">> \o <<"fail", "stop", "signal", "pumpDone">>
       = <<"signal", "fail", "stop", "signal", "pumpDone">>
  BY Concat14
<1>13. <<"stop", "signal">> \o <<"presenting", "announce", "pumpDone">>
       = <<"stop", "signal", "presenting", "announce", "pumpDone">>
  BY Concat23
<1>14. <<"stop", "signal">> \o <<"holding", "announce", "pumpDone">>
       = <<"stop", "signal", "holding", "announce", "pumpDone">>
  BY Concat23
<1>15. <<"stop", "signal">> \o <<"await", "joinDrain", "finish", "broadcast">>
       = <<"stop", "signal", "await", "joinDrain", "finish", "broadcast">>
  BY Concat24
<1>16. <<"close">> \o <<"signal">>
       = <<"close", "signal">>
  BY Concat11
<1>17. <<"close">> \o <<"signal", "pumpDone">>
       = <<"close", "signal", "pumpDone">>
  BY Concat12
<1>18. <<"close">> \o <<"signal", "await", "joinDrain", "finish", "broadcast">>
       = <<"close", "signal", "await", "joinDrain", "finish", "broadcast">>
  BY Concat15
<1>19. <<"close">> \o <<"signal", "presenting", "announce", "pumpDone">>
       = <<"close", "signal", "presenting", "announce", "pumpDone">>
  BY Concat14
<1>20. <<"close">> \o <<"signal", "holding", "announce", "pumpDone">>
       = <<"close", "signal", "holding", "announce", "pumpDone">>
  BY Concat14
<1> QED
  BY <1>1, <1>2, <1>3, <1>4, <1>5, <1>6, <1>7, <1>8, <1>9, <1>10, <1>11, <1>12, <1>13, <1>14, <1>15, <1>16, <1>17, <1>18, <1>19, <1>20

LEMMA Rests ==
  /\ Tail(<<"startDrain", "startCreate">>) = <<"startCreate">>
  /\ Tail(<<"startCreate">>) = <<>>
  /\ Tail(<<"startClose">>) = <<>>
  /\ Tail(<<"startRelease">>) = <<>>
  /\ Tail(<<"notify">>) = <<>>
  /\ Tail(<<"signal">>) = <<>>
  /\ Tail(<<"joinWait">>) = <<>>
  /\ Tail(<<"stop", "signal">>) = <<"signal">>
  /\ Tail(<<"close", "signal">>) = <<"signal">>
  /\ Tail(<<"fail", "stop", "signal">>) = <<"stop", "signal">>
  /\ Tail(<<"tick">>) = <<>>
  /\ Tail(<<"presenting", "announce", "pumpDone">>) = <<"announce", "pumpDone">>
  /\ Tail(<<"holding", "announce", "pumpDone">>) = <<"announce", "pumpDone">>
  /\ Tail(<<"stop", "signal", "presenting", "announce", "pumpDone">>) = <<"signal", "presenting", "announce", "pumpDone">>
  /\ Tail(<<"stop", "signal", "holding", "announce", "pumpDone">>) = <<"signal", "holding", "announce", "pumpDone">>
  /\ Tail(<<"close", "signal", "presenting", "announce", "pumpDone">>) = <<"signal", "presenting", "announce", "pumpDone">>
  /\ Tail(<<"close", "signal", "holding", "announce", "pumpDone">>) = <<"signal", "holding", "announce", "pumpDone">>
  /\ Tail(<<"signal", "presenting", "announce", "pumpDone">>) = <<"presenting", "announce", "pumpDone">>
  /\ Tail(<<"signal", "holding", "announce", "pumpDone">>) = <<"holding", "announce", "pumpDone">>
  /\ Tail(<<"pumpDone">>) = <<>>
  /\ Tail(<<"present", "pumpDone">>) = <<"pumpDone">>
  /\ Tail(<<"fail", "stop", "signal", "pumpDone">>) = <<"stop", "signal", "pumpDone">>
  /\ Tail(<<"drain", "announce", "pumpDone">>) = <<"announce", "pumpDone">>
  /\ Tail(<<"drain", "announce", "present", "pumpDone">>) = <<"announce", "present", "pumpDone">>
  /\ Tail(<<"drain", "announce", "fail", "stop", "signal", "pumpDone">>) = <<"announce", "fail", "stop", "signal", "pumpDone">>
  /\ Tail(<<"announce", "pumpDone">>) = <<"pumpDone">>
  /\ Tail(<<"announce", "present", "pumpDone">>) = <<"present", "pumpDone">>
  /\ Tail(<<"announce", "fail", "stop", "signal", "pumpDone">>) = <<"fail", "stop", "signal", "pumpDone">>
  /\ Tail(<<"signal", "pumpDone">>) = <<"pumpDone">>
  /\ Tail(<<"signal", "present", "pumpDone">>) = <<"present", "pumpDone">>
  /\ Tail(<<"signal", "fail", "stop", "signal", "pumpDone">>) = <<"fail", "stop", "signal", "pumpDone">>
  /\ Tail(<<"stop", "signal", "pumpDone">>) = <<"signal", "pumpDone">>
  /\ Tail(<<"close", "signal", "pumpDone">>) = <<"signal", "pumpDone">>
  /\ Tail(<<"stop", "signal", "await", "joinDrain", "finish", "broadcast">>) = <<"signal", "await", "joinDrain", "finish", "broadcast">>
  /\ Tail(<<"close", "signal", "await", "joinDrain", "finish", "broadcast">>) = <<"signal", "await", "joinDrain", "finish", "broadcast">>
  /\ Tail(<<"signal", "await", "joinDrain", "finish", "broadcast">>) = <<"await", "joinDrain", "finish", "broadcast">>
  /\ Tail(<<"await", "joinDrain", "finish", "broadcast">>) = <<"joinDrain", "finish", "broadcast">>
  /\ Tail(<<"joinDrain", "finish", "broadcast">>) = <<"finish", "broadcast">>
  /\ Tail(<<"finish", "broadcast">>) = <<"broadcast">>
  /\ Tail(<<"broadcast">>) = <<>>
<1>1. /\ Tail(<<"startDrain", "startCreate">>) = <<"startCreate">>
      /\ Tail(<<"startCreate">>) = <<>>
      /\ Tail(<<"startClose">>) = <<>>
      /\ Tail(<<"startRelease">>) = <<>>
      /\ Tail(<<"notify">>) = <<>>
      /\ Tail(<<"signal">>) = <<>>
      /\ Tail(<<"joinWait">>) = <<>>
      /\ Tail(<<"stop", "signal">>) = <<"signal">>
  OBVIOUS
<1>2. /\ Tail(<<"close", "signal">>) = <<"signal">>
      /\ Tail(<<"fail", "stop", "signal">>) = <<"stop", "signal">>
      /\ Tail(<<"tick">>) = <<>>
      /\ Tail(<<"presenting", "announce", "pumpDone">>) = <<"announce", "pumpDone">>
      /\ Tail(<<"holding", "announce", "pumpDone">>) = <<"announce", "pumpDone">>
      /\ Tail(<<"stop", "signal", "presenting", "announce", "pumpDone">>) = <<"signal", "presenting", "announce", "pumpDone">>
      /\ Tail(<<"stop", "signal", "holding", "announce", "pumpDone">>) = <<"signal", "holding", "announce", "pumpDone">>
      /\ Tail(<<"close", "signal", "presenting", "announce", "pumpDone">>) = <<"signal", "presenting", "announce", "pumpDone">>
  OBVIOUS
<1>3. /\ Tail(<<"close", "signal", "holding", "announce", "pumpDone">>) = <<"signal", "holding", "announce", "pumpDone">>
      /\ Tail(<<"signal", "presenting", "announce", "pumpDone">>) = <<"presenting", "announce", "pumpDone">>
      /\ Tail(<<"signal", "holding", "announce", "pumpDone">>) = <<"holding", "announce", "pumpDone">>
      /\ Tail(<<"pumpDone">>) = <<>>
      /\ Tail(<<"present", "pumpDone">>) = <<"pumpDone">>
      /\ Tail(<<"fail", "stop", "signal", "pumpDone">>) = <<"stop", "signal", "pumpDone">>
      /\ Tail(<<"drain", "announce", "pumpDone">>) = <<"announce", "pumpDone">>
      /\ Tail(<<"drain", "announce", "present", "pumpDone">>) = <<"announce", "present", "pumpDone">>
  OBVIOUS
<1>4. /\ Tail(<<"drain", "announce", "fail", "stop", "signal", "pumpDone">>) = <<"announce", "fail", "stop", "signal", "pumpDone">>
      /\ Tail(<<"announce", "pumpDone">>) = <<"pumpDone">>
      /\ Tail(<<"announce", "present", "pumpDone">>) = <<"present", "pumpDone">>
      /\ Tail(<<"announce", "fail", "stop", "signal", "pumpDone">>) = <<"fail", "stop", "signal", "pumpDone">>
      /\ Tail(<<"signal", "pumpDone">>) = <<"pumpDone">>
      /\ Tail(<<"signal", "present", "pumpDone">>) = <<"present", "pumpDone">>
      /\ Tail(<<"signal", "fail", "stop", "signal", "pumpDone">>) = <<"fail", "stop", "signal", "pumpDone">>
      /\ Tail(<<"stop", "signal", "pumpDone">>) = <<"signal", "pumpDone">>
  OBVIOUS
<1>5. /\ Tail(<<"close", "signal", "pumpDone">>) = <<"signal", "pumpDone">>
      /\ Tail(<<"stop", "signal", "await", "joinDrain", "finish", "broadcast">>) = <<"signal", "await", "joinDrain", "finish", "broadcast">>
      /\ Tail(<<"close", "signal", "await", "joinDrain", "finish", "broadcast">>) = <<"signal", "await", "joinDrain", "finish", "broadcast">>
      /\ Tail(<<"signal", "await", "joinDrain", "finish", "broadcast">>) = <<"await", "joinDrain", "finish", "broadcast">>
      /\ Tail(<<"await", "joinDrain", "finish", "broadcast">>) = <<"joinDrain", "finish", "broadcast">>
      /\ Tail(<<"joinDrain", "finish", "broadcast">>) = <<"finish", "broadcast">>
      /\ Tail(<<"finish", "broadcast">>) = <<"broadcast">>
      /\ Tail(<<"broadcast">>) = <<>>
  OBVIOUS
<1> QED
  BY <1>1, <1>2, <1>3, <1>4, <1>5

LEMMA Neutral ==
  \A s \in Stacks \cup {<<"present">>, <<"drain", "announce">>} : <<>> \o s = s /\ s \o <<>> = s
<1> SUFFICES ASSUME NEW s \in Stacks \cup {<<"present">>, <<"drain", "announce">>}
             PROVE  <<>> \o s = s /\ s \o <<>> = s
  OBVIOUS
<1>1. CASE s \in Quiet \cup Starts \cup Stops \cup {<<"present">>, <<"drain", "announce">>}
  BY <1>1 DEF Quiet, Starts, Stops
<1>2. CASE s \in Joins
  BY <1>2 DEF Joins, Stopped, Awaited, Drained
<1>3. CASE s \in Presenting \cup InShutdown
  BY <1>3 DEF Presenting, InShutdown
<1>4. CASE s \in {<<"tick">>} \cup Ticked \cup Draining \cup PumpStops
  BY <1>4 DEF Ticked, Draining, PumpStops
<1>5. CASE s \in Announcing \cup Signalling
  BY <1>5 DEF Announcing, Signalling
<1> QED
  BY <1>1, <1>2, <1>3, <1>4, <1>5 DEF Stacks, Pumps

----------------------------------------------------------------------------
(* A step of a thread in its own list and in the lane: the lane may close at *)
(* the end of the epochs, and what an invalidation leaves to retire was      *)
(* there before.                                                             *)
Rest == <<exclusive, st, closing, closed, lock, ownerVars, joinStarted, joinComplete,
          joinOk, fault>>
LaneFrame ==
  /\ {open', blocked', endpoints', deferred', exhausted', stop'} \subseteq BOOLEAN
  /\ queue' \in Nat /\ worker' \in WorkerShape /\ worker'.pc = worker.pc
  /\ (open' => open) /\ (open /\ ~open' => exhausted')
  /\ ~open' => queue' = 0 /\ ~endpoints'
  /\ worker'.pc = "callback" /\ ~worker'.stale => queue' > 0
  /\ (exhausted => exhausted') /\ (exhausted' => EpochsEnd)
  /\ deferred' => deferred \/ queue > 0 \/ endpoints
MayBecome(t, s) ==
  /\ todo[t] \notin Starts \cup {<<"broadcast">>} /\ s \in Stacks \ Starts
  /\ s \in Pumps <=> Pumping(t)
  /\ s \in Joins <=> Joining(t)
  /\ s \in Quiet \/ Exists
  /\ s = <<"fail", "stop", "signal">> /\ ownerReady => owner = t
  /\ s # <<>> /\ Head(s) = "close" => lock = t
  /\ s \in Stopped => closing /\ lock = "none"
  /\ s \in Awaited => worker.pc = "done"
  /\ s \notin Drained

LEMMA Moves ==
  ASSUME HostInv, NEW t \in Threads, NEW s, todo' = [todo EXCEPT ![t] = s],
         UNCHANGED Rest, LaneFrame, MayBecome(t, s)
  PROVE  HostInv'
<1> USE DEF Rest, ownerVars
<1>1. /\ todo' \in [Threads -> Stacks] /\ todo'[t] = s
      /\ \A u \in Threads : u # t => todo'[u] = todo[u]
  BY DEF HostInv, Shaped, MayBecome
<1>2. Shaped'
  <2>1. Shaped
    BY DEF HostInv
  <2>2. queue' \in Nat /\ worker' \in WorkerShape /\ fault' \subseteq {"clock", "rebind", "exhausted"}
    BY <2>1 DEF Shaped, LaneFrame
  <2>3. {exclusive', closing', closed', ownerReady', presenterRunning', joinStarted',
         joinComplete', joinOk'} \subseteq BOOLEAN
    BY <2>1 DEF Shaped
  <2> QED
    BY <1>1, <2>2, <2>3 DEF Shaped, LaneFrame
<1>3. StartAlone'
  <2> SUFFICES ASSUME NEW u \in Threads, Starting(u)'
               PROVE  /\ u # t /\ Starting(u) /\ todo'[u] = todo[u]
                      /\ \A v \in Threads : v # u => todo'[v] \in Quiet
    BY DEF HostInv, StartAlone, LaneFrame, Starting
  <2>1. u # t /\ Starting(u) /\ todo'[u] = todo[u]
    BY <1>1 DEF MayBecome, Starting
  <2>2. st = "starting" /\ \A v \in Threads : v # u => todo[v] \in Quiet
    BY <2>1 DEF HostInv, StartAlone
  <2>3. s \in Quiet
    BY <2>2 DEF MayBecome, Exists
  <2> QED
    BY <1>1, <2>1, <2>2, <2>3
<1>4. HostThere'
  BY <1>1 DEF HostInv, HostThere, MayBecome, Exists
<1>5. OwnerPumps'
  <2>1. \A u \in Threads : Pumping(u)' <=> Pumping(u)
    BY <1>1 DEF Pumping, MayBecome
  <2>2. \A u \in Threads : IsOwner(u)' <=> IsOwner(u)
    BY DEF IsOwner
  <2>3. \A u \in Threads : todo'[u] = <<"fail", "stop", "signal">> /\ ownerReady => owner = u
    BY <1>1 DEF HostInv, OwnerPumps, MayBecome
  <2> QED
    BY <2>1, <2>2, <2>3 DEF HostInv, OwnerPumps
<1>6. OneJoin'
  <2>1. \A u \in Threads : Joining(u)' <=> Joining(u)
    BY <1>1 DEF Joining, MayBecome
  <2>2. todo'[t] # <<"broadcast">>
    BY <1>1 DEF MayBecome, Drained
  <2>3. ASSUME NEW u \in Threads, Joining(u), todo'[u] # <<"broadcast">> PROVE ownerReady
    <3>1. CASE u = t
      BY <2>3, <3>1 DEF HostInv, OneJoin, MayBecome
    <3>2. CASE u # t
      BY <1>1, <2>3, <3>2 DEF HostInv, OneJoin
    <3> QED
      BY <3>1, <3>2
  <2> QED
    BY <2>1, <2>3 DEF HostInv, OneJoin
<1>7. OneClose'
  <2>1. \A u \in Threads : At(u, "close")' => lock = u
    BY <1>1 DEF HostInv, OneClose, MayBecome, At
  <2>2. \A u \in Threads : todo'[u] \in Stopped => closing /\ lock = "none"
    BY <1>1 DEF HostInv, OneClose, MayBecome
  <2> QED
    BY <2>1, <2>2 DEF HostInv, OneClose, Exists, LaneFrame
<1>8. JoinIsDue'
  <2>1. \A u \in Threads : todo'[u] \in Awaited => worker'.pc = "done"
    BY <1>1 DEF HostInv, JoinIsDue, MayBecome, LaneFrame
  <2>2. \A u \in Threads : todo'[u] \in Drained => u # t /\ todo'[u] = todo[u]
    BY <1>1 DEF MayBecome
  <2>3. <<"finish", "broadcast">> \in Drained /\ <<"broadcast">> \in Drained
    BY DEF Drained
  <2>4. closed /\ deferred' => deferred
    BY DEF HostInv, Shaped, OneClose, LaneFrame
  <2> QED
    BY <2>1, <2>2, <2>3, <2>4 DEF HostInv, JoinIsDue
<1>9. FaultsKnown'
  BY DEF HostInv, FaultsKnown
<1>10. ~exclusive' => worker'.pc = "done" /\ Quiescent'
  BY DEF HostInv, Shaped, Quiescent, LaneFrame
<1> QED
  BY <1>2, <1>3, <1>4, <1>5, <1>6, <1>7, <1>8, <1>9, <1>10 DEF HostInv

LEMMA LaneStays ==
  ASSUME HostInv, UNCHANGED <<laneVars, worker, stop>>
  PROVE  LaneFrame
<1> USE DEF laneVars
<1>1. Shaped /\ OneClose
  BY DEF HostInv
<1>2. {open', blocked', endpoints', deferred', exhausted', stop'} \subseteq BOOLEAN
  BY <1>1 DEF Shaped
<1>3. queue' \in Nat /\ worker' \in WorkerShape /\ worker'.pc = worker.pc
  BY <1>1 DEF Shaped
<1> QED
  BY <1>1, <1>2, <1>3 DEF LaneFrame, OneClose

(* Which steps of that sort there are, by the kind of the list.              *)
LEMMA SubLists ==
  /\ Drained \subseteq Awaited /\ Awaited \subseteq Stopped /\ Stopped \subseteq Joins
  /\ <<"broadcast">> \in Joins /\ <<"fail", "stop", "signal">> \in Stops
BY DEF Drained, Awaited, Stopped, Joins, Stops

LEMMA QuietMoves ==
  ASSUME HostInv, NEW t \in Threads, todo[t] \in Quiet, NEW s \in Quiet
  PROVE  MayBecome(t, s)
BY Kinds, SubLists DEF MayBecome, Stacks, Pumping, Joining

LEMMA PumpMoves ==
  ASSUME HostInv, NEW t \in Threads, todo[t] \in Pumps, NEW s \in Pumps,
         Head(s) = "close" => lock = t
  PROVE  MayBecome(t, s)
<1>1. Exists
  BY Kinds DEF HostInv, HostThere
<1> QED
  BY <1>1, Kinds, SubLists DEF MayBecome, Stacks, Pumping, Joining

LEMMA StopMoves ==
  ASSUME HostInv, NEW t \in Threads, todo[t] \in Quiet \cup Stops, NEW s \in Stops,
         Head(s) = "close" => lock = t, Exists,
         s = <<"fail", "stop", "signal">> /\ ownerReady => owner = t
  PROVE  MayBecome(t, s)
BY Kinds, SubLists DEF MayBecome, Stacks, Pumping, Joining

LEMMA NotifyKeeps ==
  ASSUME HostInv, NEW t \in Threads, Notify(t) \/ JoinWakes(t) \/ JoinAgain(t)
  PROVE  HostInv'
<1>1. PICK s \in Quiet : todo' = [todo EXCEPT ![t] = s] /\ todo[t] \in Quiet
  <2>1. CASE Notify(t)
    <3>1. todo[t] = <<"notify">> /\ Tail(todo[t]) = <<>>
      <4>1. todo[t] = <<"notify">>
        BY <2>1, StackAt DEF Notify
      <4> QED
        BY <4>1
    <3>2. PICK s \in {<<>>, <<"signal">>} : todo' = [todo EXCEPT ![t] = s \o Tail(@)]
      BY <2>1 DEF Notify, Then
    <3>3. s \o Tail(todo[t]) = s
      BY <3>1, Neutral DEF Stacks, Quiet
    <3>4. todo' = [todo EXCEPT ![t] = s]
      BY <3>2, <3>3
    <3> QED
      BY <3>1, <3>4 DEF Quiet
  <2>2. CASE JoinWakes(t)
    <3>1. todo[t] = <<"joinWait">> /\ Tail(todo[t]) = <<>>
      <4>1. todo[t] = <<"joinWait">>
        BY <2>2, StackAt DEF JoinWakes
      <4> QED
        BY <4>1
    <3>2. <<>> \o Tail(todo[t]) = <<>>
      BY <3>1
    <3>3. todo' = [todo EXCEPT ![t] = <<>>]
      BY <2>2, <3>2 DEF JoinWakes, Then
    <3> QED
      BY <3>1, <3>3 DEF Quiet
  <2>3. CASE JoinAgain(t)
    <3>1. todo[t] = <<>> /\ <<"joinWait">> \o todo[t] = <<"joinWait">>
      BY <2>3, Neutral DEF JoinAgain, Idle, Stacks, Quiet
    <3>2. todo' = [todo EXCEPT ![t] = <<"joinWait">>]
      BY <2>3, <3>1 DEF JoinAgain, Calls
    <3> QED
      BY <3>1, <3>2 DEF Quiet
  <2> QED
    BY <2>1, <2>2, <2>3
<1>2. UNCHANGED Rest /\ LaneFrame
  BY LaneStays DEF Notify, JoinWakes, JoinAgain, Rest, joinVars, stopVars
<1> QED
  BY <1>1, <1>2, QuietMoves, Moves

LEMMA PlansAre == TickPlans \subseteq Draining \cup Ticked
<1> SUFFICES ASSUME NEW plan \in TickPlans PROVE plan \in Draining \cup Ticked
  OBVIOUS
<1> PICK d \in Drains, p \in Presents \cup {FailSteps} : plan = d \o p \o <<"pumpDone">>
  BY DEF TickPlans
<1>1. d = <<>> \/ d = <<"drain", "announce">>
  BY DEF Drains
<1>2. p = <<>> \/ p = <<"present">> \/ p = <<"fail", "stop", "signal">>
  BY DEF Presents, FailSteps
<1>3. /\ <<"pumpDone">> \in Stacks /\ p \in Stacks \cup {<<"present">>}
      /\ d \in Stacks \cup {<<"drain", "announce">>}
  BY <1>1, <1>2 DEF Stacks, Quiet, Stops, Pumps, Ticked
<1>4. <<>> \o p = p /\ d \o <<>> = d /\ <<>> \o <<"pumpDone">> = <<"pumpDone">>
  BY <1>3, Neutral
<1>5. CASE d = <<>>
  <2>1. d \o p = p
    BY <1>4, <1>5
  <2>2. p \o <<"pumpDone">> \in Ticked
    BY <1>2, <1>4, Prefixes DEF Ticked
  <2> QED
    BY <2>1, <2>2
<1>6. CASE d = <<"drain", "announce">>
  <2>1. \/ d \o p = <<"drain", "announce">> \/ d \o p = <<"drain", "announce", "present">>
        \/ d \o p = <<"drain", "announce", "fail", "stop", "signal">>
    BY <1>2, <1>4, <1>6, Prefixes
  <2>2. (d \o p) \o <<"pumpDone">> \in Draining
    BY <2>1, Prefixes DEF Draining
  <2> QED
    BY <2>2
<1> QED
  BY <1>1, <1>5, <1>6

(* Without its presenter busy, a pump goes on as planned.                    *)
LEMMA OnlyPumpIsBusy ==
  ASSUME HostInv
  PROVE  /\ \A t, u \in Threads : Pumping(t) /\ Pumping(u) => t = u
         /\ \A t \in Threads : (Pumping(t) /\ ~InCallback(t)) \/ ~presenterRunning
                                  => ~PresenterBusy
<1>1. \A t, u \in Threads : Pumping(t) /\ Pumping(u) => t = u
  BY DEF HostInv, OwnerPumps, IsOwner
<1>2. \A t \in Threads : InCallback(t) => Pumping(t) /\ presenterRunning
  BY BackendIs DEF HostInv, OwnerPumps
<1> QED
  BY <1>1, <1>2 DEF PresenterBusy

LEMMA TickKeeps ==
  ASSUME HostInv, NEW t \in Threads, Tick(t) PROVE HostInv'
<1>1. todo[t] = <<"tick">>
  BY StackAt DEF Tick
<1>2. Tail(todo[t]) = <<>>
  BY <1>1
<1>3. PICK s \in Draining \cup Ticked : todo' = [todo EXCEPT ![t] = s \o Tail(@)]
  <2>1. PICK s \in TickPlans \cup {<<"pumpDone">>} : todo' = [todo EXCEPT ![t] = s \o Tail(@)]
    BY DEF Tick, Then
  <2> QED
    BY <2>1, PlansAre DEF Ticked
<1>4. s \o Tail(todo[t]) = s
  BY <1>2, Neutral DEF Stacks, Pumps
<1>5. todo' = [todo EXCEPT ![t] = s]
  BY <1>3, <1>4
<1>6. s \in Pumps /\ todo[t] \in Pumps /\ Head(s) # "close"
  BY <1>1 DEF Pumps, Draining, Ticked
<1>7. UNCHANGED Rest /\ LaneFrame
  BY LaneStays DEF Tick, Rest, joinVars, stopVars
<1> QED
  BY <1>5, <1>6, <1>7, PumpMoves, Moves

LEMMA PresentKeeps ==
  ASSUME HostInv, NEW t \in Threads, PresentNext(t) \/ Presented(t) \/ HoldReturns(t)
  PROVE  HostInv'
<1>1. PICK s \in Presenting \cup Announcing : todo' = [todo EXCEPT ![t] = s] /\ todo[t] \in Pumps
  <2>1. CASE PresentNext(t)
    <3>1. todo[t] = <<"present", "pumpDone">>
      BY <2>1, StackAt DEF PresentNext
    <3>2. Tail(todo[t]) = <<"pumpDone">>
      BY <3>1
    <3>3. \A i \in DOMAIN todo[t] : todo[t][i] \notin Callbacks
      BY <3>1 DEF Callbacks
    <3>4. todo[t] \in Pumps
      BY <3>1 DEF Pumps, Ticked
    <3>5. ~PresenterBusy
      BY <3>3, <3>4, OnlyPumpIsBusy DEF Pumping, InCallback
    <3>6. todo' = [todo EXCEPT ![t] = <<"presenting", "announce">> \o Tail(@)]
      BY <2>1, <3>5 DEF PresentNext, Then
    <3>7. <<"presenting", "announce">> \o Tail(todo[t]) = <<"presenting", "announce", "pumpDone">>
      BY <3>2, Prefixes
    <3>8. todo' = [todo EXCEPT ![t] = <<"presenting", "announce", "pumpDone">>]
      BY <3>6, <3>7
    <3> QED
      BY <3>4, <3>8 DEF Presenting
  <2>2. CASE Presented(t)
    <3>1. todo[t] = <<"presenting", "announce", "pumpDone">>
      BY <2>2, StackAtCall DEF Presented
    <3>2. Tail(todo[t]) = <<"announce", "pumpDone">>
      BY <3>1
    <3>3. PICK p \in {<<>>, <<"holding">>} : todo' = [todo EXCEPT ![t] = p \o Tail(@)]
      BY <2>2 DEF Presented, Then
    <3>4. p \o Tail(todo[t]) \in {<<"announce", "pumpDone">>, <<"holding", "announce", "pumpDone">>}
      BY <3>2, Prefixes, Neutral DEF Stacks, Pumps, Announcing
    <3>5. PICK s \in {<<"announce", "pumpDone">>, <<"holding", "announce", "pumpDone">>} :
            todo' = [todo EXCEPT ![t] = s]
      BY <3>3, <3>4
    <3> QED
      BY <3>1, <3>5 DEF Presenting, Announcing, Pumps
  <2>3. CASE HoldReturns(t)
    <3>1. todo[t] = <<"holding", "announce", "pumpDone">>
      BY <2>3, StackAtCall DEF HoldReturns
    <3>2. Tail(todo[t]) = <<"announce", "pumpDone">>
      BY <3>1
    <3>3. <<>> \o Tail(todo[t]) = <<"announce", "pumpDone">>
      BY <3>2, Neutral DEF Stacks, Pumps, Announcing
    <3>4. todo' = [todo EXCEPT ![t] = <<"announce", "pumpDone">>]
      BY <2>3, <3>3 DEF HoldReturns, Then
    <3> QED
      BY <3>1, <3>4 DEF Presenting, Announcing, Pumps
  <2> QED
    BY <2>1, <2>2, <2>3
<1>2. s \in Pumps /\ Head(s) # "close"
  BY DEF Pumps, Presenting, Announcing
<1>3. UNCHANGED Rest /\ LaneFrame
  BY LaneStays DEF PresentNext, Presented, HoldReturns, Rest, joinVars, stopVars
<1> QED
  BY <1>1, <1>2, <1>3, PumpMoves, Moves

LEMMA AnnounceKeeps ==
  ASSUME HostInv, NEW t \in Threads, Announce(t) PROVE HostInv'
<1>1. todo[t] \in Announcing
  BY StackAt DEF Announce
<1>2. PICK p \in {<<>>, <<"signal">>} : todo' = [todo EXCEPT ![t] = p \o Tail(@)]
  BY DEF Announce, Then
<1>3. Tail(todo[t]) \in Ticked
  BY <1>1, Rests DEF Announcing, Ticked
<1>4. p \o Tail(todo[t]) \in Ticked \cup Signalling
  <2>1. <<>> \o Tail(todo[t]) = Tail(todo[t])
    BY <1>3, Neutral DEF Stacks, Pumps
  <2>2. <<"signal">> \o Tail(todo[t]) \in Signalling
    BY <1>3, Prefixes DEF Ticked, Signalling
  <2> QED
    BY <1>3, <2>1, <2>2
<1>5. PICK s \in Ticked \cup Signalling : todo' = [todo EXCEPT ![t] = s]
  BY <1>2, <1>4
<1>6. s \in Pumps /\ Head(s) # "close" /\ todo[t] \in Pumps
  BY <1>1 DEF Pumps, Ticked, Signalling
<1>7. UNCHANGED Rest /\ LaneFrame
  BY LaneStays DEF Announce, Rest, joinVars, stopVars
<1> QED
  BY <1>5, <1>6, <1>7, PumpMoves, Moves

LEMMA JoinMoves ==
  ASSUME HostInv, NEW t \in Threads, todo[t] \in Stopped, todo[t] # <<"broadcast">>,
         NEW s \in Stopped, s \notin Drained, Head(s) # "close",
         s \in Awaited => worker.pc = "done"
  PROVE  MayBecome(t, s)
<1>1. todo[t] \in Joins /\ s \in Joins
  BY SubLists
<1>2. Exists /\ closing /\ lock = "none"
  BY <1>1, Kinds DEF HostInv, HostThere, OneClose
<1> QED
  BY <1>1, <1>2, Kinds, SubLists DEF MayBecome, Stacks, Pumping, Joining

LEMMA SignalKeeps ==
  ASSUME HostInv, NEW t \in Threads, SignalWorker(t) PROVE HostInv'
<1>1. UNCHANGED Rest /\ LaneFrame
  BY LaneStays DEF SignalWorker, Rest, joinVars, stopVars
<1>2. todo' = [todo EXCEPT ![t] = <<>> \o Tail(@)]
  BY DEF SignalWorker, Then
<1>3. At(t, "signal")
  BY DEF SignalWorker
<1>4. CASE todo[t] = <<"signal">>
  <2>1. Tail(todo[t]) \in Quiet /\ todo[t] \in Quiet
    BY <1>4, Rests DEF Quiet
  <2>2. <<>> \o Tail(todo[t]) = Tail(todo[t])
    BY <2>1, Neutral DEF Stacks
  <2>3. todo' = [todo EXCEPT ![t] = Tail(todo[t])]
    BY <1>2, <2>2
  <2> QED
    BY <1>1, <2>1, <2>3, QuietMoves, Moves
<1>5. CASE todo[t] = <<"signal", "await", "joinDrain", "finish", "broadcast">>
  <2>1. PICK s : s = <<"await", "joinDrain", "finish", "broadcast">>
    OBVIOUS
  <2>2. s \in Stopped /\ todo[t] \in Stopped /\ todo[t] # <<"broadcast">> /\ Head(s) # "close"
        /\ s \notin Awaited /\ s \notin Drained
    BY <1>5, <2>1 DEF Stopped, Awaited, Drained
  <2>3. Tail(todo[t]) = s
    BY <1>5, <2>1, Rests
  <2>4. <<>> \o Tail(todo[t]) = s
    BY <2>2, <2>3, Neutral, SubLists DEF Stacks
  <2>5. todo' = [todo EXCEPT ![t] = s]
    BY <1>2, <2>4
  <2>6. MayBecome(t, s)
    BY <2>2, JoinMoves
  <2> QED
    BY <1>1, <2>5, <2>6, Moves
<1>6. CASE todo[t] \in Signalling \cup {<<"signal", "presenting", "announce", "pumpDone">>,
                                        <<"signal", "holding", "announce", "pumpDone">>}
  <2>1. PICK s \in Ticked \cup Presenting : Tail(todo[t]) = s
    BY <1>6, Rests DEF Signalling, Ticked, Presenting
  <2>2. s \in Pumps /\ todo[t] \in Pumps /\ Head(s) # "close"
    BY <1>6 DEF Pumps, Ticked, Presenting, InShutdown
  <2>3. <<>> \o Tail(todo[t]) = s
    BY <2>1, <2>2, Neutral DEF Stacks
  <2>4. todo' = [todo EXCEPT ![t] = s]
    BY <1>2, <2>3
  <2> QED
    BY <1>1, <2>2, <2>4, PumpMoves, Moves
<1> QED
  BY <1>3, <1>4, <1>5, <1>6, StackAtCall

LEMMA AwaitKeeps ==
  ASSUME HostInv, NEW t \in Threads, AwaitWorker(t) PROVE HostInv'
<1> PICK s : s = <<"joinDrain", "finish", "broadcast">>
  OBVIOUS
<1>1. todo[t] = <<"await", "joinDrain", "finish", "broadcast">> /\ worker.pc = "done"
  BY StackAt DEF AwaitWorker
<1>2. s \in Stopped /\ todo[t] \in Stopped /\ todo[t] # <<"broadcast">> /\ Head(s) # "close"
      /\ s \notin Drained
  BY <1>1 DEF Stopped, Awaited, Drained
<1>3. Tail(todo[t]) = s
  BY <1>1, Rests
<1>4. <<>> \o Tail(todo[t]) = s
  BY <1>2, <1>3, Neutral, SubLists DEF Stacks
<1>5. todo' = [todo EXCEPT ![t] = s]
  BY <1>4 DEF AwaitWorker, Then
<1>6. UNCHANGED Rest /\ LaneFrame
  BY LaneStays DEF AwaitWorker, Rest, joinVars, stopVars
<1>7. MayBecome(t, s)
  BY <1>1, <1>2, JoinMoves
<1> QED
  BY <1>5, <1>6, <1>7, Moves

LEMMA ShutdownKeeps ==
  ASSUME HostInv, NEW t \in Threads, Shutdown(t) PROVE HostInv'
<1>1. UNCHANGED Rest /\ LaneFrame
  BY LaneStays DEF Shutdown, Rest, joinVars, stopVars
<1>2. todo' = [todo EXCEPT ![t] = <<"stop", "signal">> \o @] /\ Exists
  BY DEF Shutdown, Calls, ShutdownSteps
<1>3. CASE Idle(t)
  <2>1. PICK s : s = <<"stop", "signal">>
    OBVIOUS
  <2>2. todo[t] = <<>> /\ s \in Stops /\ todo[t] \in Quiet /\ Head(s) # "close"
        /\ s # <<"fail", "stop", "signal">>
    BY <1>3, <2>1 DEF Idle, Stops, Quiet
  <2>3. s \o todo[t] = s
    BY <2>2, Neutral DEF Stacks
  <2>4. todo' = [todo EXCEPT ![t] = s]
    BY <1>2, <2>1, <2>3
  <2>5. MayBecome(t, s)
    BY <1>2, <2>2, StopMoves
  <2> QED
    BY <1>1, <2>4, <2>5, Moves
<1>4. CASE ~Idle(t)
  <2>1. todo[t] \in Presenting
    BY <1>4, StackAtCall DEF Shutdown, MayCall, Callbacks, Presenting
  <2>2. <<"stop", "signal">> \o todo[t] \in InShutdown
    BY <2>1, Prefixes DEF Presenting, InShutdown
  <2>3. PICK s \in InShutdown : todo' = [todo EXCEPT ![t] = s] /\ s = <<"stop", "signal">> \o todo[t]
    BY <1>2, <2>2
  <2>4. Head(s) # "close"
    BY <2>1, <2>3, Prefixes DEF Presenting
  <2>5. s \in Pumps /\ todo[t] \in Pumps
    BY <2>1 DEF Pumps
  <2> QED
    BY <1>1, <2>3, <2>4, <2>5, PumpMoves, Moves
<1> QED
  BY <1>3, <1>4

LEMMA TimeUntilPumpKeeps ==
  ASSUME HostInv, NEW t \in Threads, TimeUntilPumpFails(t) PROVE HostInv'
<1> PICK s : s = <<"fail", "stop", "signal">>
  OBVIOUS
<1>1. todo[t] = <<>> /\ s \in Stops /\ todo[t] \in Quiet /\ Head(s) # "close"
  BY DEF TimeUntilPumpFails, Idle, Stops, Quiet
<1>2. s \o todo[t] = s
  BY <1>1, Neutral DEF Stacks
<1>3. todo' = [todo EXCEPT ![t] = s]
  BY <1>2 DEF TimeUntilPumpFails, Calls, FailSteps
<1>4. UNCHANGED Rest /\ LaneFrame
  BY LaneStays DEF TimeUntilPumpFails, Rest, joinVars, stopVars
<1>5. Exists /\ owner = t
  BY DEF TimeUntilPumpFails, PumpAccepts, IsOwner
<1>6. MayBecome(t, s)
  BY <1>1, <1>5, StopMoves
<1> QED
  BY <1>3, <1>4, <1>6, Moves

----------------------------------------------------------------------------
(* The lane.                                                                 *)
LEMMA InvalidateFrame ==
  ASSUME HostInv, LaneInvalidate
  PROVE  /\ queue' = 0 /\ endpoints' = FALSE /\ blocked' = FALSE
         /\ exhausted' \in BOOLEAN /\ (exhausted => exhausted') /\ (exhausted' => EpochsEnd)
         /\ deferred' \in BOOLEAN /\ (deferred' => deferred \/ queue > 0 \/ endpoints)
         /\ worker' \in WorkerShape /\ worker'.pc = worker.pc
         /\ worker'.pc = "callback" => worker'.stale
<1>1. Shaped /\ OneClose
  BY DEF HostInv
<1>2. exhausted' \in BOOLEAN /\ (exhausted => exhausted') /\ (exhausted' => EpochsEnd)
  BY <1>1, HostAssumption DEF LaneInvalidate, Shaped, OneClose
<1>3. worker' \in WorkerShape /\ worker'.pc = worker.pc
  BY <1>1 DEF LaneInvalidate, Invalidated, Shaped, WorkerShape
<1>4. worker'.pc = "callback" => worker'.stale
  BY <1>1 DEF LaneInvalidate, Invalidated, Shaped, WorkerShape
<1>5. deferred' \in BOOLEAN /\ (deferred' => deferred \/ queue > 0 \/ endpoints)
  BY <1>1 DEF LaneInvalidate, Shaped
<1> QED
  BY <1>2, <1>3, <1>4, <1>5 DEF LaneInvalidate

LEMMA InvalidateLane ==
  ASSUME HostInv, LaneInvalidate, open' = (open /\ ~exhausted'), stop' = stop
  PROVE  LaneFrame
<1>1. open \in BOOLEAN /\ stop \in BOOLEAN
  BY DEF HostInv, Shaped
<1> QED
  BY <1>1, InvalidateFrame DEF LaneFrame

LEMMA PublishKeeps ==
  ASSUME HostInv, NEW t \in Threads, SourceQueuePublish(t) PROVE HostInv'
<1>1. todo[t] = <<>> /\ <<"notify">> \o todo[t] = <<"notify">>
  BY Neutral DEF SourceQueuePublish, Idle, Stacks, Quiet
<1>2. todo' = [todo EXCEPT ![t] = <<"notify">>]
  BY <1>1 DEF SourceQueuePublish, Calls
<1>3. <<"notify">> \in Quiet /\ todo[t] \in Quiet
  BY <1>1 DEF Quiet
<1>4. UNCHANGED Rest
  BY DEF SourceQueuePublish, Rest, joinVars, stopVars
<1>5. LaneFrame
  <2>1. Shaped /\ OneClose
    BY DEF HostInv
  <2>2. {open', blocked', endpoints', deferred', exhausted', stop'} \subseteq BOOLEAN
    BY <2>1 DEF Shaped, SourceQueuePublish, stopVars
  <2>3. queue' \in Nat /\ queue' > 0 /\ worker' \in WorkerShape /\ worker'.pc = worker.pc
    BY <2>1 DEF Shaped, SourceQueuePublish
  <2> QED
    BY <2>1, <2>2, <2>3 DEF LaneFrame, OneClose, SourceQueuePublish
<1> QED
  BY <1>2, <1>3, <1>4, <1>5, QuietMoves, Moves

LEMMA TimelineInvalidateKeeps ==
  ASSUME HostInv, NEW t \in Threads, TimelineInvalidate(t) PROVE HostInv'
<1>1. LaneFrame
  BY InvalidateLane DEF TimelineInvalidate, stopVars
<1>2. UNCHANGED Rest
  BY DEF TimelineInvalidate, Rest, joinVars, stopVars
<1>3. todo' = [todo EXCEPT ![t] = todo[t]]
  BY DEF TimelineInvalidate, HostInv, Shaped
<1>4. CASE Idle(t)
  BY <1>1, <1>2, <1>3, <1>4, StackAt, QuietMoves, Moves
<1>5. CASE ~Idle(t)
  <2>1. todo[t] \in Pumps /\ Head(todo[t]) # "close"
    BY <1>5, StackAtCall DEF TimelineInvalidate, MayCall, Callbacks, Pumps, Presenting
  <2> QED
    BY <1>1, <1>2, <1>3, <2>1, PumpMoves, Moves
<1> QED
  BY <1>4, <1>5

LEMMA InvalidateOrWakeKeeps ==
  ASSUME HostInv, NEW t \in Threads, InvalidateOrWake(t) PROVE HostInv'
<1>1. LaneFrame
  <2>1. CASE Runs /\ ~closing /\ ~exhausted
    BY <2>1, InvalidateLane DEF InvalidateOrWake, stopVars
  <2>2. CASE ~(Runs /\ ~closing /\ ~exhausted)
    BY <2>2, LaneStays DEF InvalidateOrWake, stopVars
  <2> QED
    BY <2>1, <2>2
<1>2. UNCHANGED Rest
  BY DEF InvalidateOrWake, Rest, joinVars, stopVars
<1>3. todo[t] = <<>> /\ <<"signal">> \o todo[t] = <<"signal">>
  BY Neutral DEF InvalidateOrWake, Idle, Stacks, Quiet
<1>4. todo' = [todo EXCEPT ![t] = <<"signal">>]
  BY <1>3 DEF InvalidateOrWake, Calls
<1>5. <<"signal">> \in Quiet /\ todo[t] \in Quiet
  BY <1>3 DEF Quiet
<1> QED
  BY <1>1, <1>2, <1>4, <1>5, QuietMoves, Moves

LEMMA DrainKeeps ==
  ASSUME HostInv, NEW t \in Threads, DrainRetirements(t) PROVE HostInv'
<1>1. todo[t] \in Draining
  BY StackAt DEF DrainRetirements
<1>2. todo[t] \in Pumps /\ ~InCallback(t)
  BY <1>1 DEF Pumps, Draining, InCallback, Callbacks
<1>3. ~PresenterBusy
  BY <1>2, OnlyPumpIsBusy DEF Pumping
<1>4. PICK s \in Announcing : Tail(todo[t]) = s
  BY <1>1, Rests DEF Draining, Announcing
<1>5. s \in Pumps /\ Head(s) # "close"
  BY DEF Pumps, Announcing
<1>6. <<>> \o Tail(todo[t]) = s
  BY <1>4, <1>5, Neutral DEF Stacks
<1>7. todo' = [todo EXCEPT ![t] = s]
  BY <1>3, <1>6 DEF DrainRetirements, Then
<1>8. UNCHANGED Rest
  BY DEF DrainRetirements, Rest, joinVars, stopVars
<1>9. LaneFrame
  <2>1. Shaped /\ OneClose
    BY DEF HostInv
  <2>2. deferred' = FALSE
    BY <1>3 DEF DrainRetirements
  <2>3. {open', blocked', endpoints', deferred', exhausted', stop'} \subseteq BOOLEAN
    BY <2>1, <2>2 DEF Shaped, DrainRetirements, stopVars
  <2>4. queue' \in Nat /\ worker' \in WorkerShape /\ worker'.pc = worker.pc
    BY <2>1 DEF Shaped, DrainRetirements
  <2> QED
    BY <2>1, <2>2, <2>3, <2>4 DEF LaneFrame, OneClose, DrainRetirements
<1> QED
  BY <1>2, <1>5, <1>7, <1>8, <1>9, PumpMoves, Moves

(* A thread that finds the host closing, or closed, only signals.            *)
LEMMA StopAgainKeeps ==
  ASSUME HostInv, NEW t \in Threads, RequestStop(t), closing PROVE HostInv'
<1>1. At(t, "stop") /\ lock = "none"
  BY DEF RequestStop
<1>2. todo' = [todo EXCEPT ![t] = <<>> \o Tail(@)]
  BY DEF RequestStop, Then
<1>3. UNCHANGED Rest
  BY DEF RequestStop, Rest, joinVars, HostInv, Shaped
<1>4. LaneFrame
  <2>1. Shaped /\ OneClose
    BY DEF HostInv
  <2>2. {open', blocked', endpoints', deferred', exhausted', stop'} \subseteq BOOLEAN
    BY <2>1 DEF Shaped, RequestStop, laneVars
  <2>3. queue' \in Nat /\ worker' \in WorkerShape /\ worker'.pc = worker.pc
    BY <2>1 DEF Shaped, RequestStop, laneVars
  <2> QED
    BY <2>1, <2>2, <2>3 DEF LaneFrame, OneClose, RequestStop, laneVars
<1>5. CASE todo[t] = <<"stop", "signal">>
  <2>1. PICK s : s = <<"signal">>
    OBVIOUS
  <2>2. s \in Quiet /\ Head(s) # "close"
    BY <2>1 DEF Quiet
  <2>3. Tail(todo[t]) = s
    BY <1>5, <2>1, Rests
  <2>4. <<>> \o Tail(todo[t]) = s
    BY <2>2, <2>3, Neutral DEF Stacks
  <2>5. todo[t] \in Stops
    BY <1>5 DEF Stops
  <2>6. MayBecome(t, s)
    BY <2>2, <2>5, Kinds, SubLists DEF MayBecome, Stacks, Pumping, Joining
  <2> QED
    BY <1>2, <1>3, <1>4, <2>4, <2>6, Moves
<1>6. CASE todo[t] = <<"stop", "signal", "await", "joinDrain", "finish", "broadcast">>
  <2>1. PICK s : s = <<"signal", "await", "joinDrain", "finish", "broadcast">>
    OBVIOUS
  <2>2. s \in Stopped /\ s \notin Awaited /\ s \notin Drained /\ Head(s) # "close"
    BY <2>1 DEF Stopped, Awaited, Drained
  <2>3. Tail(todo[t]) = s
    BY <1>6, <2>1, Rests
  <2>4. <<>> \o Tail(todo[t]) = s
    BY <2>2, <2>3, Neutral, SubLists DEF Stacks
  <2>5. todo[t] \in Joins /\ todo[t] # <<"broadcast">>
    BY <1>6 DEF Joins
  <2>6. Exists
    BY <2>5, Kinds DEF HostInv, HostThere
  <2>7. MayBecome(t, s)
    BY <1>1, <2>2, <2>5, <2>6, Kinds, SubLists DEF MayBecome, Stacks, Pumping, Joining
  <2> QED
    BY <1>2, <1>3, <1>4, <2>4, <2>7, Moves
<1>7. CASE todo[t] \in {<<"stop", "signal", "pumpDone">>,
                        <<"stop", "signal", "presenting", "announce", "pumpDone">>,
                        <<"stop", "signal", "holding", "announce", "pumpDone">>}
  <2>1. PICK s \in {<<"signal", "pumpDone">>, <<"signal", "presenting", "announce", "pumpDone">>,
                    <<"signal", "holding", "announce", "pumpDone">>} : Tail(todo[t]) = s
    BY <1>7, Rests
  <2>2. s \in Pumps /\ todo[t] \in Pumps /\ Head(s) # "close"
    BY <1>7 DEF Pumps, InShutdown, PumpStops, Signalling
  <2>3. <<>> \o Tail(todo[t]) = s
    BY <2>1, <2>2, Neutral DEF Stacks
  <2> QED
    BY <1>2, <1>3, <1>4, <2>1, <2>2, <2>3, PumpMoves, Moves
<1> QED
  BY <1>1, <1>5, <1>6, <1>7, StackAtCall

----------------------------------------------------------------------------
(* Steps that change the host's own state.                                   *)
Follows(t, s) ==
  /\ todo[t] \notin Starts /\ s \in Stacks \ Starts
  /\ s \in Pumps <=> Pumping(t)
  /\ s \in Joins <=> Joining(t)

LEMMA Follow ==
  ASSUME HostInv, Exists, NEW t \in Threads, NEW s, todo' = [todo EXCEPT ![t] = s],
         Follows(t, s)
  PROVE  /\ todo' \in [Threads -> Stacks] /\ todo'[t] = s
         /\ \A u \in Threads : u # t => todo'[u] = todo[u]
         /\ \A u \in Threads : (Pumping(u)' <=> Pumping(u)) /\ (Joining(u)' <=> Joining(u))
         /\ StartAlone'
<1>1. /\ todo' \in [Threads -> Stacks] /\ todo'[t] = s
      /\ \A u \in Threads : u # t => todo'[u] = todo[u]
  BY DEF HostInv, Shaped, Follows
<1>2. \A u \in Threads : (Pumping(u)' <=> Pumping(u)) /\ (Joining(u)' <=> Joining(u))
  BY <1>1 DEF Follows, Pumping, Joining
<1>3. \A u \in Threads : ~Starting(u)
  BY DEF HostInv, StartAlone, Exists
<1>4. \A u \in Threads : ~Starting(u)'
  BY <1>1, <1>3 DEF Follows, Starting
<1>5. StartAlone'
  BY <1>4 DEF StartAlone
<1> QED
  BY <1>1, <1>2, <1>5

(* What a closing, closed or failing thread goes on to.                      *)
LEMMA StopLists ==
  ASSUME HostInv, NEW t \in Threads, At(t, "stop")
  PROVE  /\ Exists /\ todo[t] # <<"broadcast">>
         /\ \E s : /\ <<"close">> \o Tail(todo[t]) = s /\ Follows(t, s)
                   /\ s \notin Stopped /\ s # <<"fail", "stop", "signal">>
<1>1. CASE todo[t] = <<"stop", "signal">>
  <2>1. PICK s : s = <<"close", "signal">>
    OBVIOUS
  <2>2. Tail(todo[t]) = <<"signal">>
    BY <1>1, Rests
  <2>3. <<"close">> \o Tail(todo[t]) = s
    BY <2>1, <2>2, Prefixes
  <2>4. todo[t] \in Stops /\ s \in Stops
    BY <1>1, <2>1 DEF Stops
  <2>5. Follows(t, s) /\ s \notin Stopped
    BY <2>4, Kinds, SubLists DEF Follows, Stacks, Pumping, Joining
  <2>6. Exists
    BY <2>4, Kinds DEF HostInv, HostThere
  <2>7. s # <<"fail", "stop", "signal">> /\ todo[t] # <<"broadcast">>
    BY <1>1, <2>1
  <2> QED
    BY <2>3, <2>5, <2>6, <2>7
<1>2. CASE todo[t] = <<"stop", "signal", "await", "joinDrain", "finish", "broadcast">>
  <2>1. PICK s : s = <<"close", "signal", "await", "joinDrain", "finish", "broadcast">>
    OBVIOUS
  <2>2. Tail(todo[t]) = <<"signal", "await", "joinDrain", "finish", "broadcast">>
    BY <1>2, Rests
  <2>3. <<"close">> \o Tail(todo[t]) = s
    BY <2>1, <2>2, Prefixes
  <2>4. todo[t] \in Joins /\ s \in Joins /\ s \notin Stopped
    BY <1>2, <2>1 DEF Joins, Stopped, Awaited, Drained
  <2>5. Follows(t, s)
    BY <2>4, Kinds DEF Follows, Stacks, Pumping, Joining
  <2>6. Exists
    BY <2>4, Kinds DEF HostInv, HostThere
  <2>7. s # <<"fail", "stop", "signal">> /\ todo[t] # <<"broadcast">>
    BY <1>2, <2>1
  <2> QED
    BY <2>3, <2>4, <2>5, <2>6, <2>7
<1>3. CASE todo[t] \in {<<"stop", "signal", "pumpDone">>,
                        <<"stop", "signal", "presenting", "announce", "pumpDone">>,
                        <<"stop", "signal", "holding", "announce", "pumpDone">>}
  <2>1. PICK s \in {<<"close", "signal", "pumpDone">>,
                    <<"close", "signal", "presenting", "announce", "pumpDone">>,
                    <<"close", "signal", "holding", "announce", "pumpDone">>} :
          <<"close">> \o Tail(todo[t]) = s
    BY <1>3, Rests, Prefixes
  <2>2. todo[t] \in Pumps /\ s \in Pumps
    BY <1>3 DEF Pumps, PumpStops, InShutdown
  <2>3. Follows(t, s) /\ s \notin Stopped
    BY <2>2, Kinds, SubLists DEF Follows, Stacks, Pumping, Joining
  <2>4. Exists
    BY <2>2, Kinds DEF HostInv, HostThere
  <2>5. s # <<"fail", "stop", "signal">> /\ todo[t] # <<"broadcast">>
    BY <1>3
  <2> QED
    BY <2>1, <2>3, <2>4, <2>5
<1> QED
  BY <1>1, <1>2, <1>3, StackAtCall

LEMMA CloseLists ==
  ASSUME HostInv, NEW t \in Threads, At(t, "close")
  PROVE  /\ Exists /\ todo[t] # <<"broadcast">>
         /\ \E s : /\ <<>> \o Tail(todo[t]) = s /\ Follows(t, s)
                   /\ s # <<>> /\ Head(s) = "signal" /\ s # <<"fail", "stop", "signal">>
                   /\ s \notin Awaited
<1>1. CASE todo[t] = <<"close", "signal">>
  <2>1. PICK s : s = <<"signal">>
    OBVIOUS
  <2>2. Tail(todo[t]) = s
    BY <1>1, <2>1, Rests
  <2>3. todo[t] \in Stops /\ s \in Quiet
    BY <1>1, <2>1 DEF Stops, Quiet
  <2>4. <<>> \o Tail(todo[t]) = s
    BY <2>2, <2>3, Neutral DEF Stacks
  <2>5. Follows(t, s) /\ s \notin Awaited
    BY <2>3, Kinds, SubLists DEF Follows, Stacks, Pumping, Joining
  <2>6. Exists
    BY <2>3, Kinds DEF HostInv, HostThere
  <2>7. s # <<>> /\ Head(s) = "signal" /\ s # <<"fail", "stop", "signal">>
    BY <2>1
  <2> QED
    BY <1>1, <2>4, <2>5, <2>6, <2>7
<1>2. CASE todo[t] = <<"close", "signal", "await", "joinDrain", "finish", "broadcast">>
  <2>1. PICK s : s = <<"signal", "await", "joinDrain", "finish", "broadcast">>
    OBVIOUS
  <2>2. Tail(todo[t]) = s
    BY <1>2, <2>1, Rests
  <2>3. todo[t] \in Joins /\ s \in Joins /\ s \notin Awaited
    BY <1>2, <2>1 DEF Joins, Stopped, Awaited, Drained
  <2>4. <<>> \o Tail(todo[t]) = s
    BY <2>2, <2>3, Neutral DEF Stacks
  <2>5. Follows(t, s)
    BY <2>3, Kinds DEF Follows, Stacks, Pumping, Joining
  <2>6. Exists
    BY <2>3, Kinds DEF HostInv, HostThere
  <2>7. s # <<>> /\ Head(s) = "signal" /\ s # <<"fail", "stop", "signal">>
    BY <2>1
  <2> QED
    BY <1>2, <2>3, <2>4, <2>5, <2>6, <2>7
<1>3. CASE todo[t] \in {<<"close", "signal", "pumpDone">>,
                        <<"close", "signal", "presenting", "announce", "pumpDone">>,
                        <<"close", "signal", "holding", "announce", "pumpDone">>}
  <2>1. PICK s \in {<<"signal", "pumpDone">>, <<"signal", "presenting", "announce", "pumpDone">>,
                    <<"signal", "holding", "announce", "pumpDone">>} : Tail(todo[t]) = s
    BY <1>3, Rests
  <2>2. todo[t] \in Pumps /\ s \in Pumps
    BY <1>3 DEF Pumps, PumpStops, InShutdown, Signalling
  <2>3. <<>> \o Tail(todo[t]) = s
    BY <2>1, <2>2, Neutral DEF Stacks
  <2>4. Follows(t, s) /\ s \notin Awaited
    BY <2>2, Kinds, SubLists DEF Follows, Stacks, Pumping, Joining
  <2>5. Exists
    BY <2>2, Kinds DEF HostInv, HostThere
  <2>6. s # <<>> /\ Head(s) = "signal" /\ s # <<"fail", "stop", "signal">>
    OBVIOUS
  <2> QED
    BY <1>3, <2>3, <2>4, <2>5, <2>6
<1> QED
  BY <1>1, <1>2, <1>3, StackAtCall

LEMMA FailLists ==
  ASSUME HostInv, NEW t \in Threads, At(t, "fail")
  PROVE  /\ Exists /\ ~PresenterBusy /\ todo[t] # <<"broadcast">>
         /\ \E s : /\ <<>> \o Tail(todo[t]) = s /\ Follows(t, s)
                   /\ s # <<>> /\ Head(s) = "stop" /\ s \notin Stopped
<1>1. CASE todo[t] = <<"fail", "stop", "signal">>
  <2>1. PICK s : s = <<"stop", "signal">>
    OBVIOUS
  <2>2. Tail(todo[t]) = s
    BY <1>1, <2>1, Rests
  <2>3. todo[t] \in Stops /\ s \in Stops
    BY <1>1, <2>1 DEF Stops
  <2>4. <<>> \o Tail(todo[t]) = s
    BY <2>2, <2>3, Neutral DEF Stacks
  <2>5. Follows(t, s) /\ s \notin Stopped
    BY <2>3, Kinds, SubLists DEF Follows, Stacks, Pumping, Joining
  <2>6. Exists
    BY <2>3, Kinds DEF HostInv, HostThere
  <2>7. ~PresenterBusy
    <3>1. SUFFICES ASSUME NEW u \in Threads, InCallback(u) PROVE FALSE
      BY DEF PresenterBusy
    <3>2. Pumping(u) /\ IsOwner(u)
      BY <3>1, BackendIs DEF HostInv, OwnerPumps
    <3>3. u = t
      BY <1>1, <3>2 DEF HostInv, OwnerPumps, IsOwner
    <3> QED
      BY <2>3, <3>2, <3>3, Kinds DEF Pumping
  <2>8. s # <<>> /\ Head(s) = "stop" /\ todo[t] # <<"broadcast">>
    BY <1>1, <2>1
  <2> QED
    BY <2>4, <2>5, <2>6, <2>7, <2>8
<1>2. CASE todo[t] = <<"fail", "stop", "signal", "pumpDone">>
  <2>1. PICK s : s = <<"stop", "signal", "pumpDone">>
    OBVIOUS
  <2>2. Tail(todo[t]) = s
    BY <1>2, <2>1, Rests
  <2>3. todo[t] \in Pumps /\ s \in Pumps
    BY <1>2, <2>1 DEF Pumps, PumpStops, Ticked
  <2>4. <<>> \o Tail(todo[t]) = s
    BY <2>2, <2>3, Neutral DEF Stacks
  <2>5. Follows(t, s) /\ s \notin Stopped
    BY <2>3, Kinds, SubLists DEF Follows, Stacks, Pumping, Joining
  <2>6. Exists
    BY <2>3, Kinds DEF HostInv, HostThere
  <2>7. ~InCallback(t)
    BY <1>2 DEF InCallback, Callbacks
  <2>8. ~PresenterBusy
    BY <2>3, <2>7, OnlyPumpIsBusy DEF Pumping
  <2>9. s # <<>> /\ Head(s) = "stop" /\ todo[t] # <<"broadcast">>
    BY <1>2, <2>1
  <2> QED
    BY <2>4, <2>5, <2>6, <2>8, <2>9
<1> QED
  BY <1>1, <1>2, StackAtCall

LEMMA StopFirstKeeps ==
  ASSUME HostInv, NEW t \in Threads, RequestStop(t), ~closing PROVE HostInv'
<1>1. At(t, "stop") /\ lock = "none" /\ ~closed
  BY DEF RequestStop, HostInv, OneClose
<1>2. PICK s : /\ <<"close">> \o Tail(todo[t]) = s /\ Follows(t, s)
               /\ s \notin Stopped /\ s # <<"fail", "stop", "signal">>
  BY <1>1, StopLists
<1>3. Exists /\ todo[t] # <<"broadcast">>
  BY <1>1, StopLists
<1>4. todo' = [todo EXCEPT ![t] = s]
  BY <1>2 DEF RequestStop, Then
<1>5. /\ todo' \in [Threads -> Stacks] /\ todo'[t] = s
      /\ \A u \in Threads : u # t => todo'[u] = todo[u]
      /\ \A u \in Threads : (Pumping(u)' <=> Pumping(u)) /\ (Joining(u)' <=> Joining(u))
      /\ StartAlone'
  BY <1>2, <1>3, <1>4, Follow
<1>6. stop' = TRUE /\ closing' = TRUE /\ lock' = t /\ st' \in {st, "shutting_down"}
      /\ (st' = "failed" <=> st = "failed")
  BY DEF RequestStop
<1>7. UNCHANGED <<laneVars, exclusive, closed, ownerVars, joinVars, worker, fault>>
  BY DEF RequestStop
<1> USE DEF laneVars, ownerVars, joinVars
<1>8. Shaped'
  BY <1>5, <1>6, <1>7 DEF HostInv, Shaped
<1>9. Exists' /\ HostThere'
  BY <1>3, <1>6 DEF HostThere, Exists
<1>10. OwnerPumps'
  BY <1>2, <1>5, <1>7 DEF HostInv, OwnerPumps, IsOwner
<1>11. OneJoin'
  BY <1>3, <1>5, <1>7 DEF HostInv, OneJoin
<1>12. OneClose'
  <2>1. \A u \in Threads : At(u, "close")' => lock' = u
    BY <1>1, <1>5, <1>6, HostAssumption DEF HostInv, OneClose, At
  <2>2. lock' # "none"
    BY <1>6, HostAssumption
  <2>3. ~joinComplete /\ \A u \in Threads : todo[u] \notin Stopped
    BY DEF HostInv, OneClose
  <2>4. \A u \in Threads : todo'[u] \notin Stopped
    BY <1>2, <1>5, <2>3
  <2> QED
    BY <1>1, <1>3, <1>6, <1>7, <1>9, <2>1, <2>2, <2>3, <2>4 DEF HostInv, OneClose
<1>13. JoinIsDue'
  <2>1. ~joinComplete /\ \A u \in Threads : todo[u] \notin Stopped
    BY DEF HostInv, OneClose
  <2>2. \A u \in Threads : todo'[u] \notin Stopped
    BY <1>2, <1>5, <2>1
  <2> QED
    BY <1>7, <2>1, <2>2 DEF JoinIsDue, Stopped, Awaited, Drained
<1>14. FaultsKnown'
  BY <1>6, <1>7 DEF HostInv, FaultsKnown
<1>15. ~exclusive' => worker'.pc = "done" /\ Quiescent'
  BY <1>7 DEF HostInv, Quiescent
<1> QED
  BY <1>5, <1>8, <1>9, <1>10, <1>11, <1>12, <1>13, <1>14, <1>15 DEF HostInv

LEMMA CloseKeeps ==
  ASSUME HostInv, NEW t \in Threads, LifecycleClose(t) PROVE HostInv'
<1>1. At(t, "close") /\ lock = t /\ lock # "none" /\ closing /\ ~closed
  BY HostAssumption DEF LifecycleClose, HostInv, OneClose
<1>2. PICK s : /\ <<>> \o Tail(todo[t]) = s /\ Follows(t, s)
               /\ s # <<>> /\ Head(s) = "signal" /\ s # <<"fail", "stop", "signal">>
               /\ s \notin Awaited
  BY <1>1, CloseLists
<1>3. Exists /\ todo[t] # <<"broadcast">>
  BY <1>1, CloseLists
<1>4. todo' = [todo EXCEPT ![t] = s]
  BY <1>2 DEF LifecycleClose, Then
<1>5. /\ todo' \in [Threads -> Stacks] /\ todo'[t] = s
      /\ \A u \in Threads : u # t => todo'[u] = todo[u]
      /\ \A u \in Threads : (Pumping(u)' <=> Pumping(u)) /\ (Joining(u)' <=> Joining(u))
      /\ StartAlone'
  BY <1>2, <1>3, <1>4, Follow
<1>6. lock' = "none" /\ UNCHANGED <<exclusive, stop, closing, ownerVars, joinVars>>
  BY DEF LifecycleClose
<1>7. ~joinComplete /\ \A u \in Threads : todo[u] \notin Stopped
  BY <1>1 DEF HostInv, OneClose
<1>8. \A u \in Threads : todo'[u] \notin Awaited
  BY <1>2, <1>5, <1>7, SubLists
<1>9. \A u \in Threads : ~At(u, "close")'
  BY <1>1, <1>2, <1>5 DEF HostInv, OneClose, At
<1> USE DEF ownerVars, joinVars
<1>10. /\ "rebind" \in fault' <=> "rebind" \in fault
       /\ fault' \subseteq {"clock", "rebind", "exhausted"} /\ Exists'
       /\ FaultsKnown'
  <2>1. CASE open
    BY <1>3, <2>1 DEF LifecycleClose, HostInv, Shaped, FaultsKnown, Exists
  <2>2. CASE ~open
    <3>1. fault' = fault \cup {"exhausted"} /\ st' = "failed"
      BY <1>1, <1>3, <2>2 DEF LifecycleClose, HostInv, OneClose
    <3> QED
      BY <3>1 DEF HostInv, Shaped, FaultsKnown, Exists
  <2> QED
    BY <2>1, <2>2
<1>11. HostThere' /\ OwnerPumps'
  BY <1>2, <1>5, <1>6, <1>10 DEF HostInv, HostThere, OwnerPumps, IsOwner
<1>12. OneJoin'
  BY <1>3, <1>5, <1>6, <1>10 DEF HostInv, OneJoin
<1>13. JoinIsDue'
  BY <1>6, <1>7, <1>8 DEF JoinIsDue, Awaited, Drained
<1>14. CASE open
  <2>1. LaneInvalidate /\ open' = FALSE /\ closed' = TRUE
    BY <1>14 DEF LifecycleClose
  <2>2. /\ queue' = 0 /\ endpoints' = FALSE /\ blocked' = FALSE
        /\ exhausted' \in BOOLEAN /\ (exhausted' => EpochsEnd)
        /\ deferred' \in BOOLEAN /\ worker' \in WorkerShape
        /\ worker'.pc = "callback" => worker'.stale
    BY <2>1, InvalidateFrame
  <2>3. Shaped' /\ OneClose'
    <3>1. Shaped
      BY DEF HostInv
    <3>2. Shaped'
      BY <1>5, <1>6, <1>10, <2>1, <2>2, <3>1 DEF Shaped
    <3> QED
      BY <1>1, <1>6, <1>9, <1>10, <2>1, <2>2, <3>2 DEF OneClose
  <2>4. exclusive'
    BY <1>6, <1>14 DEF HostInv, Quiescent
  <2> QED
    BY <1>5, <1>10, <1>11, <1>12, <1>13, <2>3, <2>4 DEF HostInv
<1>15. CASE ~open
  <2>1. UNCHANGED <<laneVars, worker, closed>> /\ fault' = fault \cup {"exhausted"}
    BY <1>1, <1>3, <1>15 DEF LifecycleClose, HostInv, OneClose
  <2>2. Shaped'
    BY <1>5, <1>6, <1>10, <2>1 DEF HostInv, Shaped, laneVars
  <2>3. OneClose'
    BY <1>1, <1>3, <1>6, <1>9, <1>10, <2>1 DEF HostInv, OneClose, laneVars
  <2>4. ~exclusive' => worker'.pc = "done" /\ Quiescent'
    BY <1>6, <2>1 DEF HostInv, Quiescent, laneVars
  <2> QED
    BY <1>5, <1>10, <1>11, <1>12, <1>13, <2>2, <2>3, <2>4 DEF HostInv
<1> QED
  BY <1>14, <1>15

LEMMA FailKeeps ==
  ASSUME HostInv, NEW t \in Threads, FailHost(t) PROVE HostInv'
<1>1. At(t, "fail")
  BY DEF FailHost
<1>2. PICK s : /\ <<>> \o Tail(todo[t]) = s /\ Follows(t, s)
               /\ s # <<>> /\ Head(s) = "stop" /\ s \notin Stopped
  BY <1>1, FailLists
<1>3. Exists /\ ~PresenterBusy /\ todo[t] # <<"broadcast">>
  BY <1>1, FailLists
<1>4. todo' = [todo EXCEPT ![t] = s]
  BY <1>2 DEF FailHost, Then
<1>5. /\ todo' \in [Threads -> Stacks] /\ todo'[t] = s
      /\ \A u \in Threads : u # t => todo'[u] = todo[u]
      /\ \A u \in Threads : (Pumping(u)' <=> Pumping(u)) /\ (Joining(u)' <=> Joining(u))
      /\ StartAlone'
  BY <1>2, <1>3, <1>4, Follow
<1>6. st' = "failed" /\ fault' = fault \cup {"clock"} /\ Exists'
  BY <1>3 DEF FailHost, Exists
<1>7. UNCHANGED <<laneVars, exclusive, stopVars, ownerVars, joinVars, worker>>
  BY DEF FailHost
<1> USE DEF laneVars, ownerVars, joinVars, stopVars
<1>8. Shaped'
  <2>1. Shaped /\ fault' \subseteq {"clock", "rebind", "exhausted"}
    BY <1>6 DEF HostInv, Shaped
  <2> QED
    BY <1>5, <1>7, <2>1 DEF Shaped
<1>9. HostThere' /\ FaultsKnown'
  BY <1>6 DEF HostThere, FaultsKnown
<1>10. OwnerPumps'
  <2>1. s # <<"fail", "stop", "signal">>
    BY <1>2
  <2> QED
    BY <1>5, <1>7, <2>1 DEF HostInv, OwnerPumps, IsOwner
<1>11. OneJoin'
  <2>1. "rebind" \in fault' <=> "rebind" \in fault
    BY <1>6
  <2> QED
    BY <1>3, <1>5, <1>7, <2>1 DEF HostInv, OneJoin
<1>12. \A u \in Threads : todo'[u] \in Stopped => u # t /\ todo'[u] = todo[u]
  BY <1>2, <1>5
<1>13. OneClose'
  <2>1. \A u \in Threads : At(u, "close")' => lock' = u
    BY <1>2, <1>5, <1>7 DEF HostInv, OneClose, At
  <2> QED
    BY <1>3, <1>6, <1>7, <1>12, <2>1 DEF HostInv, OneClose
<1>14. JoinIsDue'
  <2>1. \A u \in Threads : todo'[u] \in Awaited => todo'[u] = todo[u]
    BY <1>12, SubLists
  <2>2. <<"finish", "broadcast">> \in Awaited /\ <<"broadcast">> \in Awaited
    BY DEF Awaited, Drained
  <2>3. "rebind" \in fault' <=> "rebind" \in fault
    BY <1>6
  <2> QED
    BY <1>7, <2>1, <2>2, <2>3 DEF HostInv, JoinIsDue
<1>15. ~exclusive' => worker'.pc = "done" /\ Quiescent'
  BY <1>7 DEF HostInv, Quiescent
<1> QED
  BY <1>5, <1>8, <1>9, <1>10, <1>11, <1>13, <1>14, <1>15 DEF HostInv

(* The owner's own calls find nobody in the presenter.                       *)
LEMMA OwnerIsFree ==
  ASSUME HostInv, NEW t \in Threads, MayCall(t), ~presenterRunning
  PROVE  todo[t] = <<>> /\ \A u \in Threads : ~Pumping(u)
<1>1. \A u \in Threads : ~Pumping(u)
  BY DEF HostInv, OwnerPumps
<1>2. ASSUME ~Idle(t) PROVE Pumping(t)
  BY <1>2, StackAtCall DEF MayCall, Callbacks, Pumping, Pumps, Presenting
<1> QED
  BY <1>1, <1>2 DEF Idle

LEMMA PumpKeeps ==
  ASSUME HostInv, NEW t \in Threads, Pump(t) PROVE HostInv'
<1>1. Exists /\ ownerReady /\ owner = t /\ ~presenterRunning /\ MayCall(t)
  BY DEF Pump, PumpAccepts, IsOwner
<1>2. todo[t] = <<>> /\ \A u \in Threads : ~Pumping(u)
  BY <1>1, OwnerIsFree
<1>3. <<"tick">> \o todo[t] = <<"tick">>
  BY <1>2, Neutral DEF Stacks, Pumps
<1>4. todo' = [todo EXCEPT ![t] = <<"tick">>]
  BY <1>3 DEF Pump, Calls
<1>5. <<"tick">> \in Pumps /\ todo[t] \in Quiet
  BY <1>2 DEF Pumps, Quiet
<1>6. /\ todo' \in [Threads -> Stacks] /\ todo'[t] = <<"tick">>
      /\ \A u \in Threads : u # t => todo'[u] = todo[u]
  BY <1>4, <1>5 DEF HostInv, Shaped, Stacks
<1>7. \A u \in Threads : /\ Pumping(u)' <=> u = t
                         /\ Joining(u)' <=> Joining(u)
                         /\ (~Starting(u))'
                         /\ todo'[u] \in Joins => todo'[u] = todo[u]
  <2>1. \A u \in Threads : ~Starting(u)
    BY <1>1 DEF HostInv, StartAlone, Exists
  <2> QED
    BY <1>2, <1>5, <1>6, <2>1, Kinds DEF Pumping, Joining, Starting
<1>8. UNCHANGED <<laneVars, exclusive, st, stopVars, owner, ownerReady, joinVars, worker, fault>>
      /\ presenterRunning' = TRUE
  BY DEF Pump
<1> USE DEF laneVars, joinVars, stopVars
<1>9. Shaped'
  BY <1>6, <1>8 DEF HostInv, Shaped
<1>10. StartAlone' /\ HostThere' /\ FaultsKnown'
  BY <1>1, <1>7, <1>8 DEF HostInv, StartAlone, HostThere, FaultsKnown, Exists
<1>11. OwnerPumps'
  BY <1>1, <1>6, <1>7, <1>8 DEF HostInv, OwnerPumps, IsOwner
<1>12. OneJoin'
  <2>1. joinStarted /\ ~joinComplete => "rebind" \in fault
    <3>1. SUFFICES ASSUME NEW u \in Threads, Joining(u), "rebind" \notin fault PROVE FALSE
      BY DEF HostInv, OneJoin
    <3>2. u = t
      BY <1>1, <3>1 DEF HostInv, OneJoin
    <3> QED
      BY <1>5, <3>1, <3>2, Kinds DEF Joining
  <2> QED
    BY <1>7, <1>8, <2>1 DEF HostInv, OneJoin, Joining
<1>13. \A u \in Threads : todo'[u] \in Stopped => todo'[u] = todo[u]
  BY <1>7, SubLists
<1>14. OneClose'
  <2>1. \A u \in Threads : At(u, "close")' => lock' = u
    BY <1>6, <1>8 DEF HostInv, OneClose, At
  <2> QED
    BY <1>1, <1>8, <1>13, <2>1 DEF HostInv, OneClose, Exists
<1>15. JoinIsDue'
  BY <1>8, <1>13, SubLists DEF HostInv, JoinIsDue, Awaited, Drained
<1>16. ~exclusive' => worker'.pc = "done" /\ Quiescent'
  BY <1>8 DEF HostInv, Quiescent
<1> QED
  BY <1>9, <1>10, <1>11, <1>12, <1>14, <1>15, <1>16 DEF HostInv

LEMMA PumpDoneKeeps ==
  ASSUME HostInv, NEW t \in Threads, PumpDone(t) PROVE HostInv'
<1>1. todo[t] = <<"pumpDone">>
  BY StackAt DEF PumpDone
<1>2. todo[t] \in Pumps /\ <<>> \in Quiet
  BY <1>1 DEF Pumps, Ticked, Quiet
<1>3. Exists
  BY <1>2, Kinds DEF HostInv, HostThere
<1>4. Tail(todo[t]) = <<>>
  BY <1>1
<1>5. todo' = [todo EXCEPT ![t] = <<>>]
  <2>1. <<>> \o Tail(todo[t]) = <<>>
    BY <1>4
  <2> QED
    BY <2>1 DEF PumpDone, Then
<1>6. /\ todo' \in [Threads -> Stacks] /\ todo'[t] = <<>>
      /\ \A u \in Threads : u # t => todo'[u] = todo[u]
  BY <1>2, <1>5 DEF HostInv, Shaped, Stacks
<1>7. \A u \in Threads : /\ (~Pumping(u))'
                         /\ Joining(u)' <=> Joining(u)
                         /\ (~Starting(u))'
                         /\ todo'[u] \in Joins => todo'[u] = todo[u]
  <2>1. \A u \in Threads : ~Starting(u)
    BY <1>3 DEF HostInv, StartAlone, Exists
  <2>2. \A u \in Threads : Pumping(u) => u = t
    BY <1>2, OnlyPumpIsBusy DEF Pumping
  <2> QED
    BY <1>2, <1>6, <2>1, <2>2, Kinds DEF Pumping, Joining, Starting
<1>8. UNCHANGED <<laneVars, exclusive, st, stopVars, owner, ownerReady, joinVars, worker, fault>>
      /\ presenterRunning' = FALSE
  BY DEF PumpDone
<1> USE DEF laneVars, joinVars, stopVars
<1>9. Shaped'
  BY <1>6, <1>8 DEF HostInv, Shaped
<1>10. StartAlone' /\ HostThere' /\ FaultsKnown'
  BY <1>3, <1>7, <1>8 DEF HostInv, StartAlone, HostThere, FaultsKnown, Exists
<1>11. OwnerPumps'
  BY <1>6, <1>7, <1>8 DEF HostInv, OwnerPumps, IsOwner
<1>12. OneJoin'
  BY <1>7, <1>8 DEF HostInv, OneJoin, Joining
<1>13. \A u \in Threads : todo'[u] \in Stopped => todo'[u] = todo[u]
  BY <1>7, SubLists
<1>14. OneClose'
  <2>1. \A u \in Threads : At(u, "close")' => lock' = u
    BY <1>6, <1>8 DEF HostInv, OneClose, At
  <2> QED
    BY <1>3, <1>8, <1>13, <2>1 DEF HostInv, OneClose, Exists
<1>15. JoinIsDue'
  BY <1>8, <1>13, SubLists DEF HostInv, JoinIsDue, Awaited, Drained
<1>16. ~exclusive' => worker'.pc = "done" /\ Quiescent'
  BY <1>8 DEF HostInv, Quiescent
<1> QED
  BY <1>9, <1>10, <1>11, <1>12, <1>14, <1>15, <1>16 DEF HostInv

LEMMA RebindKeeps ==
  ASSUME HostInv, NEW t \in Threads, Rebind(t) PROVE HostInv'
<1>1. Exists /\ ~presenterRunning /\ \A u \in Threads : ~At(u, "fail")
  BY DEF Rebind
<1>2. UNCHANGED <<laneVars, exclusive, st, stopVars, ownerReady, presenterRunning,
                  joinVars, worker, todo>>
  BY DEF Rebind
<1>3. fault' = fault \cup IF joinStarted /\ ~joinComplete THEN {"rebind"} ELSE {}
  BY DEF Rebind
<1> USE DEF laneVars, joinVars, stopVars
<1>4. Shaped'
  <2>1. Shaped /\ fault' \subseteq {"clock", "rebind", "exhausted"}
    BY <1>3 DEF HostInv, Shaped
  <2> QED
    BY <1>2, <2>1 DEF Shaped
<1>5. \A u \in Threads : ~Pumping(u) /\ ~Starting(u) /\ todo[u] # <<"fail", "stop", "signal">>
  <2>1. \A u \in Threads : ~Pumping(u)
    BY <1>1 DEF HostInv, OwnerPumps
  <2>2. \A u \in Threads : ~Starting(u)
    BY <1>1 DEF HostInv, StartAlone, Exists
  <2>3. \A u \in Threads : todo[u] # <<"fail", "stop", "signal">>
    BY <1>1 DEF At
  <2> QED
    BY <2>1, <2>2, <2>3
<1>6. StartAlone' /\ HostThere'
  BY <1>2, <1>5 DEF HostInv, StartAlone, HostThere, Exists, Starting
<1>7. OwnerPumps'
  BY <1>1, <1>2, <1>5 DEF HostInv, OwnerPumps, Pumping
<1>8. OneJoin'
  <2>1. (\E u \in Threads : Joining(u)) => "rebind" \in fault'
    BY <1>3 DEF HostInv, OneJoin
  <2> QED
    BY <1>1, <1>2, <2>1 DEF HostInv, OneJoin, Joining
<1>9. fault \subseteq fault' /\ ("exhausted" \in fault' => "exhausted" \in fault)
      /\ ("clock" \in fault' => "clock" \in fault)
  BY <1>3
<1>10. OneClose'
  BY <1>2, <1>9 DEF HostInv, OneClose, At, Exists
<1>11. JoinIsDue'
  BY <1>2, <1>9 DEF HostInv, JoinIsDue
<1>12. FaultsKnown'
  BY <1>2, <1>9 DEF HostInv, FaultsKnown
<1>13. ~exclusive' => worker'.pc = "done" /\ Quiescent'
  BY <1>2 DEF HostInv, Quiescent
<1> QED
  BY <1>4, <1>6, <1>7, <1>8, <1>10, <1>11, <1>12, <1>13 DEF HostInv

LEMMA JoinKeeps ==
  ASSUME HostInv, NEW t \in Threads, Join(t) PROVE HostInv'
<1> PICK s : s = <<"stop", "signal", "await", "joinDrain", "finish", "broadcast">>
  OBVIOUS
<1>1. Exists /\ ownerReady /\ owner = t /\ ~presenterRunning /\ MayCall(t) /\ ~joinStarted
  BY DEF Join, JoinAccepts, IsOwner
<1>2. todo[t] = <<>> /\ \A u \in Threads : ~Pumping(u)
  BY <1>1, OwnerIsFree
<1>3. s \in Joins /\ s \notin Stopped /\ todo[t] \in Quiet /\ Head(s) # "close"
      /\ s # <<"broadcast">>
  BY <1>2 DEF Joins, Stopped, Awaited, Drained, Quiet
<1>4. JoinSteps = s
  BY Prefixes DEF JoinSteps, ShutdownSteps
<1>5. s \o todo[t] = s
  BY <1>2, <1>3, Neutral DEF Stacks
<1>6. todo' = [todo EXCEPT ![t] = s]
  BY <1>4, <1>5 DEF Join, Calls
<1>7. /\ todo' \in [Threads -> Stacks] /\ todo'[t] = s
      /\ \A u \in Threads : u # t => todo'[u] = todo[u]
  BY <1>3, <1>6 DEF HostInv, Shaped, Stacks
<1>8. ~joinComplete /\ \A u \in Threads : ~Joining(u)
  BY <1>1 DEF HostInv, OneJoin
<1>9. \A u \in Threads : /\ Pumping(u)' <=> Pumping(u)
                         /\ Joining(u)' <=> u = t
                         /\ (~Starting(u))'
                         /\ todo'[u] \notin Stopped
  <2>1. \A u \in Threads : ~Starting(u)
    BY <1>1 DEF HostInv, StartAlone, Exists
  <2> QED
    BY <1>2, <1>3, <1>7, <1>8, <2>1, Kinds, SubLists DEF Pumping, Joining, Starting
<1>10. UNCHANGED <<laneVars, exclusive, st, stopVars, ownerVars, joinComplete, joinOk,
                   worker, fault>> /\ joinStarted' = TRUE
  BY DEF Join
<1> USE DEF laneVars, ownerVars, stopVars
<1>11. Shaped'
  BY <1>7, <1>10 DEF HostInv, Shaped
<1>12. StartAlone' /\ HostThere' /\ FaultsKnown'
  BY <1>1, <1>9, <1>10 DEF HostInv, StartAlone, HostThere, FaultsKnown, Exists
<1>13. OwnerPumps'
  <2>1. \A u \in Threads : todo'[u] = <<"fail", "stop", "signal">> => u # t
    BY <1>7
  <2> QED
    BY <1>7, <1>9, <1>10, <2>1 DEF HostInv, OwnerPumps, IsOwner
<1>14. OneJoin'
  BY <1>1, <1>8, <1>9, <1>10 DEF OneJoin
<1>15. OneClose'
  <2>1. \A u \in Threads : At(u, "close")' => lock' = u
    BY <1>3, <1>7, <1>10 DEF HostInv, OneClose, At
  <2> QED
    BY <1>1, <1>8, <1>9, <1>10, <2>1 DEF HostInv, OneClose, Exists
<1>16. JoinIsDue'
  BY <1>8, <1>9, <1>10 DEF JoinIsDue, Stopped, Awaited, Drained
<1>17. ~exclusive' => worker'.pc = "done" /\ Quiescent'
  BY <1>10 DEF HostInv, Quiescent
<1> QED
  BY <1>11, <1>12, <1>13, <1>14, <1>15, <1>16, <1>17 DEF HostInv

(* The joiner.                                                               *)
LEMMA JoinerIs ==
  ASSUME HostInv, NEW t \in Threads, todo[t] \in Stopped
  PROVE  /\ Joining(t) /\ Exists /\ joinStarted /\ ~joinComplete
         /\ closing /\ lock = "none" /\ (~closed => "exhausted" \in fault)
         /\ \A u \in Threads : Joining(u) => u = t
         /\ "rebind" \notin fault => ~presenterRunning
<1>1. Joining(t)
  BY SubLists DEF Joining
<1>2. Exists
  BY <1>1, Kinds DEF HostInv, HostThere, Joining
<1> QED
  BY <1>1, <1>2 DEF HostInv, OneJoin, OneClose

LEMMA JoinDrainKeeps ==
  ASSUME HostInv, NEW t \in Threads, JoinDrain(t) PROVE HostInv'
<1> PICK s : s = <<"finish", "broadcast">>
  OBVIOUS
<1>1. todo[t] = <<"joinDrain", "finish", "broadcast">>
  BY StackAt DEF JoinDrain
<1>2. /\ todo[t] \in Awaited /\ todo[t] \in Stopped /\ todo[t] # <<"broadcast">>
      /\ s \in Awaited /\ Head(s) # "close" /\ s # <<"broadcast">>
      /\ s # <<"fail", "stop", "signal">>
  BY <1>1 DEF Awaited, Stopped, Drained
<1>3. /\ Joining(t) /\ Exists /\ joinStarted /\ ~joinComplete
      /\ closing /\ lock = "none"
      /\ \A u \in Threads : Joining(u) => u = t
      /\ "rebind" \notin fault => ~presenterRunning
  BY <1>2, JoinerIs
<1>4. Tail(todo[t]) = s
  BY <1>1, Rests
<1>5. <<>> \o Tail(todo[t]) = s
  BY <1>2, <1>4, Neutral, SubLists DEF Stacks
<1>6. todo' = [todo EXCEPT ![t] = s]
  BY <1>5 DEF JoinDrain, Then
<1>7. Follows(t, s)
  BY <1>2, <1>3, Kinds, SubLists DEF Follows, Stacks, Pumping, Joining
<1>8. /\ todo' \in [Threads -> Stacks] /\ todo'[t] = s
      /\ \A u \in Threads : u # t => todo'[u] = todo[u]
      /\ \A u \in Threads : (Pumping(u)' <=> Pumping(u)) /\ (Joining(u)' <=> Joining(u))
      /\ StartAlone'
  BY <1>3, <1>6, <1>7, Follow
<1>9. /\ UNCHANGED <<open, blocked, queue, endpoints, exhausted, exclusive, st, stopVars,
                     ownerVars, joinStarted, joinComplete, worker, fault>>
      /\ joinOk' = (IsOwner(t) /\ ~PresenterBusy)
      /\ deferred' = (deferred /\ ~joinOk')
  BY DEF JoinDrain
<1> USE DEF stopVars, ownerVars
<1>10. Shaped'
  <2>1. Shaped /\ joinOk' \in BOOLEAN /\ deferred' \in BOOLEAN
    BY <1>9 DEF HostInv
  <2> QED
    BY <1>8, <1>9, <2>1 DEF Shaped
<1>11. HostThere' /\ FaultsKnown'
  BY <1>3, <1>9 DEF HostInv, HostThere, FaultsKnown, Exists
<1>12. OwnerPumps'
  BY <1>2, <1>8, <1>9 DEF HostInv, OwnerPumps, IsOwner
<1>13. OneJoin'
  BY <1>2, <1>8, <1>9 DEF HostInv, OneJoin
<1>14. OneClose'
  <2>1. \A u \in Threads : At(u, "close")' => lock' = u
    BY <1>2, <1>8, <1>9 DEF HostInv, OneClose, At
  <2> QED
    BY <1>3, <1>9, <2>1 DEF HostInv, OneClose, Exists
<1>15. JoinIsDue'
  <2>1. worker'.pc = "done"
    BY <1>2, <1>9 DEF HostInv, JoinIsDue
  <2>2. "rebind" \notin fault' => joinOk'
    <3>1. SUFFICES ASSUME "rebind" \notin fault PROVE IsOwner(t) /\ ~PresenterBusy
      BY <1>9
    <3>2. ~PresenterBusy
      BY <1>3, <3>1, OnlyPumpIsBusy
    <3> QED
      BY <1>2, <1>3, <3>1, <3>2 DEF HostInv, OneJoin, IsOwner
  <2>3. joinOk' => ~deferred'
    BY <1>9
  <2>4. ~joinComplete' /\ \A u \in Threads : todo'[u] # <<"broadcast">>
    BY <1>2, <1>3, <1>8, <1>9, SubLists DEF Joining
  <2> QED
    BY <2>1, <2>2, <2>3, <2>4 DEF JoinIsDue
<1>16. ~exclusive' => worker'.pc = "done" /\ Quiescent'
  BY <1>9 DEF HostInv, Quiescent
<1> QED
  BY <1>8, <1>10, <1>11, <1>12, <1>13, <1>14, <1>15, <1>16 DEF HostInv

LEMMA JoinFinishKeeps ==
  ASSUME HostInv, NEW t \in Threads, JoinFinish(t) PROVE HostInv'
<1> PICK s : s = <<"broadcast">>
  OBVIOUS
<1>1. todo[t] = <<"finish", "broadcast">>
  BY StackAt DEF JoinFinish
<1>2. /\ todo[t] \in Awaited /\ todo[t] \in Stopped /\ todo[t] # <<"broadcast">>
      /\ s \in Awaited /\ Head(s) # "close" /\ s # <<"fail", "stop", "signal">>
  BY <1>1 DEF Awaited, Stopped, Drained
<1>3. /\ Joining(t) /\ Exists /\ joinStarted /\ ~joinComplete
      /\ closing /\ lock = "none" /\ (~closed => "exhausted" \in fault)
      /\ \A u \in Threads : Joining(u) => u = t
      /\ "rebind" \notin fault => ~presenterRunning
  BY <1>2, JoinerIs
<1>4. Tail(todo[t]) = s
  BY <1>1, Rests
<1>5. <<>> \o Tail(todo[t]) = s
  BY <1>2, <1>4, Neutral, SubLists DEF Stacks
<1>6. todo' = [todo EXCEPT ![t] = s]
  BY <1>5 DEF JoinFinish, Then
<1>7. Follows(t, s)
  BY <1>2, <1>3, Kinds, SubLists DEF Follows, Stacks, Pumping, Joining
<1>8. /\ todo' \in [Threads -> Stacks] /\ todo'[t] = s
      /\ \A u \in Threads : u # t => todo'[u] = todo[u]
      /\ \A u \in Threads : (Pumping(u)' <=> Pumping(u)) /\ (Joining(u)' <=> Joining(u))
      /\ StartAlone'
  BY <1>3, <1>6, <1>7, Follow
<1>9. UNCHANGED <<laneVars, stopVars, owner, presenterRunning, joinStarted, joinComplete,
                  worker, fault>>
  BY DEF JoinFinish
<1>10. /\ joinOk' = (joinOk /\ closed /\ worker.pc = "done" /\ ~presenterRunning /\ Quiescent)
       /\ st' = IF ~joinOk' \/ st = "failed" THEN "failed" ELSE "joined"
       /\ ownerReady' = (ownerReady /\ ~joinOk') /\ exclusive' = (exclusive /\ ~joinOk')
  BY DEF JoinFinish, Releases
<1> USE DEF stopVars, laneVars
<1>11. Shaped'
  <2>1. Shaped /\ joinOk' \in BOOLEAN /\ ownerReady' \in BOOLEAN /\ exclusive' \in BOOLEAN
    BY <1>10 DEF HostInv
  <2> QED
    BY <1>8, <1>9, <2>1 DEF Shaped
<1>12. Exists' /\ HostThere'
  BY <1>10 DEF HostThere, Exists
<1>13. OwnerPumps'
  <2>1. joinOk' => \A u \in Threads : ~Pumping(u)
    BY <1>10 DEF HostInv, OwnerPumps
  <2> QED
    BY <1>2, <1>8, <1>9, <1>10, <2>1 DEF HostInv, OwnerPumps, IsOwner
<1>14. OneJoin'
  <2>1. \A u \in Threads : Joining(u)' => todo'[u] = <<"broadcast">>
    BY <1>3, <1>8
  <2> QED
    BY <1>8, <1>9, <1>10, <2>1 DEF HostInv, OneJoin
<1>15. OneClose'
  <2>1. \A u \in Threads : At(u, "close")' => lock' = u
    BY <1>2, <1>8, <1>9 DEF HostInv, OneClose, At
  <2> QED
    BY <1>3, <1>9, <1>12, <2>1 DEF HostInv, OneClose
<1>16. worker.pc = "done" /\ ("rebind" \notin fault => joinOk) /\ (joinOk /\ closed => ~deferred)
  BY <1>1, <1>2 DEF HostInv, JoinIsDue
<1>17. closed /\ "rebind" \notin fault => joinOk'
  <2>1. closed => ~open /\ queue = 0 /\ ~endpoints
    BY DEF HostInv, OneClose
  <2> QED
    BY <1>3, <1>10, <1>16, <2>1 DEF Quiescent
<1>18. JoinIsDue'
  <2>1. \A u \in Threads : todo'[u] # <<"finish", "broadcast">>
    BY <1>3, <1>8, SubLists DEF Joining, Drained
  <2> QED
    BY <1>9, <1>16, <1>17, <2>1 DEF JoinIsDue
<1>19. FaultsKnown'
  <2>1. ~joinOk' => fault # {}
    BY <1>3, <1>17
  <2> QED
    BY <1>9, <1>10, <2>1 DEF HostInv, FaultsKnown
<1>20. ~exclusive' => worker'.pc = "done" /\ Quiescent'
  BY <1>9, <1>10 DEF HostInv, Quiescent
<1> QED
  BY <1>8, <1>11, <1>12, <1>13, <1>14, <1>15, <1>18, <1>19, <1>20 DEF HostInv

LEMMA BroadcastKeeps ==
  ASSUME HostInv, NEW t \in Threads, JoinBroadcast(t) PROVE HostInv'
<1>1. todo[t] = <<"broadcast">>
  BY StackAt DEF JoinBroadcast
<1>2. todo[t] \in Stopped /\ <<>> \in Quiet
  BY <1>1 DEF Awaited, Stopped, Drained, Quiet
<1>3. /\ Joining(t) /\ Exists /\ joinStarted /\ ~joinComplete
      /\ closing /\ lock = "none"
      /\ \A u \in Threads : Joining(u) => u = t
  BY <1>2, JoinerIs
<1>4. Tail(todo[t]) = <<>>
  BY <1>1
<1>5. todo' = [todo EXCEPT ![t] = <<>>]
  <2>1. <<>> \o Tail(todo[t]) = <<>>
    BY <1>4
  <2> QED
    BY <2>1 DEF JoinBroadcast, Then
<1>6. /\ todo' \in [Threads -> Stacks] /\ todo'[t] = <<>>
      /\ \A u \in Threads : u # t => todo'[u] = todo[u]
  BY <1>2, <1>5 DEF HostInv, Shaped, Stacks
<1>7. \A u \in Threads : Pumping(u)' <=> Pumping(u)
  BY <1>2, <1>3, <1>6, Kinds DEF Pumping, Joining
<1>8. \A u \in Threads : (~Joining(u))' /\ (~Starting(u))'
  <2>1. \A u \in Threads : ~Starting(u)
    BY <1>3 DEF HostInv, StartAlone, Exists
  <2> QED
    BY <1>2, <1>3, <1>6, <2>1, Kinds DEF Starting, Joining
<1>9. UNCHANGED <<laneVars, exclusive, st, stopVars, ownerVars, joinStarted, joinOk,
                  worker, fault>> /\ joinComplete' = TRUE
  BY DEF JoinBroadcast
<1> USE DEF stopVars, laneVars, ownerVars
<1>10. Shaped'
  BY <1>6, <1>9 DEF HostInv, Shaped
<1>11. StartAlone' /\ HostThere' /\ FaultsKnown'
  BY <1>3, <1>8, <1>9 DEF HostInv, StartAlone, HostThere, FaultsKnown, Exists
<1>12. OwnerPumps'
  BY <1>6, <1>7, <1>9 DEF HostInv, OwnerPumps, IsOwner
<1>13. OneJoin'
  BY <1>3, <1>8, <1>9 DEF OneJoin
<1>14. OneClose'
  <2>1. \A u \in Threads : At(u, "close")' => lock' = u
    BY <1>6, <1>9 DEF HostInv, OneClose, At
  <2> QED
    BY <1>3, <1>9, <2>1 DEF HostInv, OneClose, Exists
<1>15. JoinIsDue'
  <2>1. closed /\ "rebind" \notin fault => joinOk
    BY <1>1 DEF HostInv, JoinIsDue
  <2>2. \A u \in Threads : todo'[u] \notin Awaited
    BY <1>8, SubLists DEF Joining
  <2> QED
    BY <1>9, <2>1, <2>2 DEF JoinIsDue, Awaited, Drained
<1>16. ~exclusive' => worker'.pc = "done" /\ Quiescent'
  BY <1>9 DEF HostInv, Quiescent
<1> QED
  BY <1>10, <1>11, <1>12, <1>13, <1>14, <1>15, <1>16 DEF HostInv

LEMMA DestroyKeeps ==
  ASSUME HostInv, NEW t \in Threads, Destroy(t) PROVE HostInv'
<1>1. /\ \A u \in Threads : todo'[u] = <<>>
      /\ \A u \in Threads : todo[u] = <<>> /\ todo' = todo
  BY DEF Destroy, Idle
<1>2. \A u \in Threads : /\ (~Pumping(u))' /\ (~Joining(u))' /\ (~Starting(u))'
                         /\ todo'[u] \in Quiet /\ todo'[u] \notin Stopped
  <2>1. <<>> \in Quiet
    BY DEF Quiet
  <2> QED
    BY <1>1, <2>1, Kinds, SubLists DEF Pumping, Joining, Starting
<1>3. joinComplete /\ lock = "none" /\ ~presenterRunning
  <2>1. <<>> \notin Pumps
    BY DEF Pumps, Presenting, InShutdown, Ticked, Draining, Announcing, Signalling, PumpStops
  <2> QED
    BY <1>1, <2>1 DEF Destroy, HostInv, OneClose, OwnerPumps, Pumping
<1>4. /\ UNCHANGED <<laneVars, exclusive, lock, presenterRunning, worker>>
      /\ st' = "none" /\ stop' = FALSE /\ closing' = FALSE /\ closed' = FALSE
      /\ joinStarted' = FALSE /\ joinComplete' = FALSE /\ joinOk' = FALSE
      /\ ownerReady' = FALSE /\ fault' = {}
  BY DEF Destroy
<1> USE DEF laneVars
<1>5. Shaped'
  BY <1>1, <1>4 DEF HostInv, Shaped
<1>6. StartAlone' /\ HostThere' /\ FaultsKnown'
  BY <1>2, <1>4 DEF StartAlone, HostThere, FaultsKnown
<1>7. OwnerPumps' /\ OneJoin'
  BY <1>2, <1>3, <1>4 DEF OwnerPumps, OneJoin
<1>8. OneClose'
  BY <1>1, <1>2, <1>3, <1>4 DEF HostInv, OneClose, At, Exists
<1>9. JoinIsDue'
  BY <1>2, <1>4 DEF JoinIsDue, Stopped, Awaited, Drained
<1>10. ~exclusive' => worker'.pc = "done" /\ Quiescent'
  BY <1>4 DEF HostInv, Quiescent
<1> QED
  BY <1>5, <1>6, <1>7, <1>8, <1>9, <1>10 DEF HostInv

----------------------------------------------------------------------------
(* The start, while every other thread only notifies.                        *)
LEMMA StarterIs ==
  ASSUME HostInv, NEW t \in Threads, Starting(t)
  PROVE  /\ st = "starting" /\ exclusive /\ fault = {} /\ worker.pc = "done"
         /\ ~closing /\ ~closed /\ lock = "none" /\ ~presenterRunning
         /\ \A u \in Threads : u # t => todo[u] \in Quiet
         /\ \A u \in Threads : ~Pumping(u) /\ ~Joining(u) /\ todo[u] \notin Stops
<1>1. /\ st = "starting" /\ exclusive /\ fault = {} /\ worker.pc = "done"
      /\ \A u \in Threads : u # t => todo[u] \in Quiet
  BY DEF HostInv, StartAlone
<1>2. ~closing /\ ~closed /\ lock = "none"
  BY <1>1 DEF HostInv, OneClose, Exists
<1>3. \A u \in Threads : ~Pumping(u) /\ ~Joining(u) /\ todo[u] \notin Stops
  BY <1>1, Kinds DEF Starting, Pumping, Joining
<1>4. ~presenterRunning
  BY <1>3 DEF HostInv, OwnerPumps
<1> QED
  BY <1>1, <1>2, <1>3, <1>4

(* What a step of the starter leaves alone.                                  *)
LEMMA StartMoves ==
  ASSUME HostInv, NEW t \in Threads, Starting(t),
         NEW s \in Starts \cup {<<>>}, todo' = [todo EXCEPT ![t] = s],
         UNCHANGED <<closing, closed, lock, presenterRunning, joinStarted, joinComplete,
                     joinOk, fault>>,
         s \in Starts => /\ st' = "starting" /\ exclusive' /\ worker'.pc = "done"
                         /\ s # <<"startRelease">> => open' \/ exhausted'
                         /\ s = <<"startRelease">> => ~open',
         st' \in {"none", "starting", "running"},
         ownerReady' => exclusive',
         ~open' => queue' = 0 /\ ~endpoints', worker'.pc # "callback",
         exhausted' => EpochsEnd,
         st' = "running" => open' \/ exhausted'
  PROVE  /\ todo' \in [Threads -> Stacks]
         /\ StartAlone' /\ HostThere' /\ OwnerPumps' /\ OneJoin' /\ OneClose'
         /\ JoinIsDue' /\ FaultsKnown'
<1>1. /\ fault = {} /\ ~closing /\ ~closed /\ lock = "none" /\ ~presenterRunning
      /\ \A u \in Threads : u # t => todo[u] \in Quiet
      /\ \A u \in Threads : ~Pumping(u) /\ ~Joining(u) /\ todo[u] \notin Stops
  BY StarterIs
<1>2. s \in Quiet \cup Starts /\ (s \in Quiet => s = <<>>)
  BY Kinds DEF Quiet
<1>3. /\ todo' \in [Threads -> Stacks] /\ todo'[t] = s
      /\ \A u \in Threads : u # t => todo'[u] = todo[u]
  BY <1>2 DEF HostInv, Shaped, Stacks
<1>4. \A u \in Threads : /\ todo'[u] \in Quiet \cup Starts
                         /\ (~Pumping(u))' /\ (~Joining(u))' /\ todo'[u] \notin Stops
                         /\ todo'[u] \notin Stopped /\ (~At(u, "close"))'
  BY <1>1, <1>2, <1>3, Kinds, SubLists DEF Pumping, Joining, At
<1>5. StartAlone'
  <2> SUFFICES ASSUME NEW u \in Threads, Starting(u)'
               PROVE  u = t
    BY <1>1, <1>3 DEF StartAlone, Starting
  <2> QED
    BY <1>1, <1>3, Kinds DEF Starting
<1>6. HostThere'
  BY <1>4 DEF HostThere
<1>7. OwnerPumps'
  BY <1>1, <1>4, SubLists DEF OwnerPumps
<1>8. OneJoin'
  <2>1. joinStarted => joinComplete
    BY <1>1 DEF HostInv, OneJoin
  <2> QED
    BY <1>4, <2>1 DEF HostInv, OneJoin
<1>9. OneClose'
  <2>1. ~joinComplete
    BY <1>1 DEF HostInv, OneClose
  <2> QED
    BY <1>1, <1>4, <2>1 DEF OneClose, Exists
<1>10. JoinIsDue'
  <2>1. ~joinComplete
    BY <1>1 DEF HostInv, OneClose
  <2> QED
    BY <1>4, <2>1 DEF JoinIsDue, Stopped, Awaited, Drained
<1>11. FaultsKnown'
  BY <1>1 DEF FaultsKnown
<1> QED
  BY <1>3, <1>5, <1>6, <1>7, <1>8, <1>9, <1>10, <1>11

LEMMA StartDrainKeeps ==
  ASSUME HostInv, NEW t \in Threads, StartDrain(t) PROVE HostInv'
<1>1. todo[t] = <<"startDrain", "startCreate">>
  BY StackAt DEF StartDrain
<1>2. todo' = [todo EXCEPT ![t] = <<"startCreate">>]
  <2>1. Tail(todo[t]) = <<"startCreate">>
    BY <1>1, Rests
  <2>2. <<"startCreate">> \in Stacks
    BY DEF Stacks, Starts
  <2>3. <<>> \o Tail(todo[t]) = <<"startCreate">>
    BY <2>1, <2>2, Neutral
  <2> QED
    BY <2>3 DEF StartDrain, Then
<1>3. Starting(t) /\ <<"startCreate">> \in Starts /\ <<"startCreate">> # <<"startRelease">>
      /\ todo[t] # <<"startRelease">>
  BY <1>1 DEF Starting, Starts
<1>4. st = "starting" /\ exclusive /\ worker.pc = "done" /\ (open \/ exhausted)
  BY <1>3 DEF HostInv, StartAlone
<1>5. /\ UNCHANGED <<open, blocked, queue, endpoints, exhausted, exclusive, st, stopVars,
                     ownerVars, joinVars, worker, fault>>
      /\ deferred' = FALSE
  BY DEF StartDrain
<1> USE DEF stopVars, ownerVars, joinVars
<1>6. ~open => queue = 0 /\ ~endpoints
  BY DEF HostInv, OneClose
<1>7. (exhausted => EpochsEnd) /\ (ownerReady => exclusive)
  BY DEF HostInv, OneClose, OwnerPumps
<1>8. /\ todo' \in [Threads -> Stacks]
      /\ StartAlone' /\ HostThere' /\ OwnerPumps' /\ OneJoin' /\ OneClose'
      /\ JoinIsDue' /\ FaultsKnown'
  BY <1>2, <1>3, <1>4, <1>5, <1>6, <1>7, StartMoves
<1>9. Shaped'
  BY <1>5, <1>8 DEF HostInv, Shaped
<1> QED
  BY <1>4, <1>5, <1>8, <1>9 DEF HostInv

LEMMA StartCreateKeeps ==
  ASSUME HostInv, NEW t \in Threads, StartCreate(t) PROVE HostInv'
<1>1. todo[t] = <<"startCreate">>
  BY StackAt DEF StartCreate
<1>2. Starting(t) /\ todo[t] # <<"startRelease">>
  BY <1>1 DEF Starting, Starts
<1>3. st = "starting" /\ exclusive /\ worker.pc = "done" /\ (open \/ exhausted)
  BY <1>2 DEF HostInv, StartAlone
<1>4. UNCHANGED <<laneVars, exclusive, stopVars, ownerVars, joinVars, fault>>
  BY DEF StartCreate
<1> USE DEF laneVars, stopVars, ownerVars, joinVars
<1>5. /\ ~open => queue = 0 /\ ~endpoints
      /\ exhausted => EpochsEnd
      /\ ownerReady => exclusive
  BY DEF HostInv, OneClose, OwnerPumps
<1>6. CASE st' = "running" /\ worker' = NewWorker /\ Then(t, <<>>)
  <2>1. Tail(todo[t]) = <<>>
    BY <1>1
  <2>2. <<>> \o Tail(todo[t]) = <<>>
    BY <2>1
  <2>3. todo' = [todo EXCEPT ![t] = <<>>] /\ <<>> \notin Starts
    BY <1>6, <2>2 DEF Then, Starts
  <2>4. worker' \in WorkerShape /\ worker'.pc = "wait"
    BY <1>6 DEF NewWorker, WorkerShape, Results
  <2>5. /\ todo' \in [Threads -> Stacks]
        /\ StartAlone' /\ HostThere' /\ OwnerPumps' /\ OneJoin' /\ OneClose'
        /\ JoinIsDue' /\ FaultsKnown'
    BY <1>2, <1>3, <1>4, <1>5, <1>6, <2>3, <2>4, StartMoves
  <2>6. Shaped'
    BY <1>4, <2>4, <2>5 DEF HostInv, Shaped
  <2> QED
    BY <1>3, <1>4, <2>5, <2>6 DEF HostInv
<1>7. CASE Then(t, <<"startClose">>) /\ UNCHANGED <<st, worker>>
  <2>1. Tail(todo[t]) = <<>> /\ <<"startClose">> \in Stacks
    <3>1. Tail(todo[t]) = <<>>
      BY <1>1
    <3> QED
      BY <3>1 DEF Stacks, Starts
  <2>2. <<"startClose">> \o Tail(todo[t]) = <<"startClose">>
    BY <2>1, Neutral
  <2>3. todo' = [todo EXCEPT ![t] = <<"startClose">>] /\ <<"startClose">> \in Starts
        /\ <<"startClose">> # <<"startRelease">>
    BY <1>7, <2>2 DEF Then, Starts
  <2>4. /\ todo' \in [Threads -> Stacks]
        /\ StartAlone' /\ HostThere' /\ OwnerPumps' /\ OneJoin' /\ OneClose'
        /\ JoinIsDue' /\ FaultsKnown'
    BY <1>2, <1>3, <1>4, <1>5, <1>7, <2>3, StartMoves
  <2>5. Shaped'
    BY <1>4, <1>7, <2>4 DEF HostInv, Shaped
  <2> QED
    BY <1>3, <1>4, <2>4, <2>5 DEF HostInv
<1> QED
  BY <1>6, <1>7 DEF StartCreate

LEMMA StartCloseKeeps ==
  ASSUME HostInv, NEW t \in Threads, StartClose(t) PROVE HostInv'
<1>1. todo[t] = <<"startClose">>
  BY StackAt DEF StartClose
<1>2. Starting(t) /\ Tail(todo[t]) = <<>>
  <2>1. Tail(todo[t]) = <<>>
    BY <1>1
  <2> QED
    BY <1>1, <2>1 DEF Starting, Starts
<1>3. st = "starting" /\ exclusive /\ worker.pc = "done"
  BY <1>2 DEF HostInv, StartAlone
<1>4. UNCHANGED <<exclusive, stopVars, ownerVars, joinVars, fault>>
  BY DEF StartClose
<1> USE DEF stopVars, ownerVars, joinVars
<1>5. /\ ~open => queue = 0 /\ ~endpoints
      /\ exhausted => EpochsEnd
      /\ ownerReady => exclusive
  BY DEF HostInv, OneClose, OwnerPumps
<1>6. CASE open
  <2>1. LaneInvalidate /\ open' = FALSE /\ st' = st
    BY <1>6 DEF StartClose
  <2>2. /\ queue' = 0 /\ endpoints' = FALSE /\ blocked' = FALSE
        /\ exhausted' \in BOOLEAN /\ (exhausted' => EpochsEnd)
        /\ deferred' \in BOOLEAN /\ worker' \in WorkerShape /\ worker'.pc = worker.pc
    BY <2>1, InvalidateFrame
  <2>3. <<"startRelease">> \o Tail(todo[t]) = <<"startRelease">> /\ <<"startRelease">> \in Starts
    <3>1. <<"startRelease">> \in Stacks
      BY DEF Stacks, Starts
    <3> QED
      BY <1>2, <3>1, Neutral DEF Starts
  <2>4. todo' = [todo EXCEPT ![t] = <<"startRelease">>]
    BY <1>6, <2>3 DEF StartClose, Then
  <2>5. /\ todo' \in [Threads -> Stacks]
        /\ StartAlone' /\ HostThere' /\ OwnerPumps' /\ OneJoin' /\ OneClose'
        /\ JoinIsDue' /\ FaultsKnown'
    BY <1>2, <1>3, <1>4, <1>5, <2>1, <2>2, <2>3, <2>4, StartMoves
  <2>6. Shaped'
    <3>1. Shaped
      BY DEF HostInv
    <3> QED
      BY <1>4, <2>1, <2>2, <2>5, <3>1 DEF Shaped
  <2> QED
    BY <1>3, <1>4, <2>5, <2>6 DEF HostInv
<1>7. CASE ~open
  <2>1. st' = "none" /\ UNCHANGED <<laneVars, worker>>
    BY <1>7 DEF StartClose
  <2>2. todo' = [todo EXCEPT ![t] = <<>>] /\ <<>> \notin Starts
    <3>1. <<>> \o Tail(todo[t]) = <<>>
      BY <1>2
    <3> QED
      BY <1>7, <3>1 DEF StartClose, Then, Starts
  <2>3. /\ todo' \in [Threads -> Stacks]
        /\ StartAlone' /\ HostThere' /\ OwnerPumps' /\ OneJoin' /\ OneClose'
        /\ JoinIsDue' /\ FaultsKnown'
    BY <1>2, <1>3, <1>4, <1>5, <2>1, <2>2, StartMoves DEF laneVars
  <2>4. Shaped'
    BY <1>4, <2>1, <2>3 DEF HostInv, Shaped, laneVars
  <2> QED
    BY <1>3, <1>4, <2>3, <2>4 DEF HostInv
<1> QED
  BY <1>6, <1>7

LEMMA StartReleaseKeeps ==
  ASSUME HostInv, NEW t \in Threads, StartRelease(t) PROVE HostInv'
<1>1. todo[t] = <<"startRelease">>
  BY StackAt DEF StartRelease
<1>2. Starting(t) /\ Tail(todo[t]) = <<>>
  <2>1. Tail(todo[t]) = <<>>
    BY <1>1
  <2> QED
    BY <1>1, <2>1 DEF Starting, Starts
<1>3. worker.pc = "done" /\ ~open
  BY <1>1, <1>2 DEF HostInv, StartAlone
<1>4. queue = 0 /\ ~endpoints /\ (exhausted => EpochsEnd)
  BY <1>3 DEF HostInv, OneClose
<1>5. todo' = [todo EXCEPT ![t] = <<>>] /\ <<>> \notin Starts
  <2>1. <<>> \o Tail(todo[t]) = <<>>
    BY <1>2
  <2> QED
    BY <2>1 DEF StartRelease, Then, Starts
<1>6. /\ UNCHANGED <<open, blocked, queue, endpoints, exhausted, published, stopVars,
                     owner, presenterRunning, joinVars, worker, fault>>
      /\ deferred' = FALSE /\ ownerReady' = FALSE /\ exclusive' = FALSE /\ st' = "none"
  BY DEF StartRelease
<1> USE DEF stopVars, joinVars
<1>7. /\ todo' \in [Threads -> Stacks]
      /\ StartAlone' /\ HostThere' /\ OwnerPumps' /\ OneJoin' /\ OneClose'
      /\ JoinIsDue' /\ FaultsKnown'
  BY <1>2, <1>3, <1>4, <1>5, <1>6, StartMoves
<1>8. Shaped'
  BY <1>6, <1>7 DEF HostInv, Shaped
<1>9. worker'.pc = "done" /\ Quiescent'
  BY <1>3, <1>4, <1>6 DEF Quiescent
<1> QED
  BY <1>7, <1>8, <1>9 DEF HostInv

LEMMA StartClaimKeeps ==
  ASSUME HostInv, NEW t \in Threads, StartClaim(t) PROVE HostInv'
<1> PICK s : s = <<"startDrain", "startCreate">>
  OBVIOUS
<1>1. \A u \in Threads : todo[u] = <<>>
  BY DEF StartClaim, Idle
<1>2. s \in Starts /\ s # <<"startRelease">> /\ <<>> \in Quiet /\ Head(s) # "close"
  BY DEF Starts, Quiet
<1>3. s \o todo[t] = s
  BY <1>1, <1>2, Neutral DEF Stacks
<1>4. todo' = [todo EXCEPT ![t] = s]
  BY <1>3 DEF StartClaim, Calls
<1>5. /\ todo' \in [Threads -> Stacks] /\ todo'[t] = s
      /\ \A u \in Threads : u # t => todo'[u] = <<>>
  BY <1>1, <1>2, <1>4 DEF HostInv, Shaped, Stacks
<1>6. \A u \in Threads : /\ todo'[u] \in Quiet \cup Starts
                         /\ (~Pumping(u))' /\ (~Joining(u))' /\ todo'[u] \notin Stops
                         /\ todo'[u] \notin Stopped /\ (~At(u, "close"))'
                         /\ Starting(u)' => u = t
  <2>1. \A u \in Threads : todo'[u] \in Quiet \cup Starts
    BY <1>2, <1>5
  <2> QED
    BY <1>2, <1>5, <2>1, Kinds, SubLists DEF Pumping, Joining, Starting, At
<1>7. lock = "none" /\ worker.pc = "done" /\ queue = 0 /\ ~endpoints
  BY DEF StartClaim, HostInv, OneClose, Exists, Quiescent
<1>8. /\ UNCHANGED <<blocked, queue, endpoints, deferred, exhausted, lock, worker>>
      /\ exclusive' = TRUE /\ st' = "starting" /\ open' = TRUE
      /\ ownerReady' = TRUE /\ presenterRunning' = FALSE
      /\ stop' = FALSE /\ closing' = FALSE /\ closed' = FALSE
      /\ joinStarted' = FALSE /\ joinComplete' = FALSE /\ joinOk' = FALSE
      /\ fault' = {} /\ ~exhausted
  BY DEF StartClaim
<1>9. Shaped'
  BY <1>5, <1>8 DEF HostInv, Shaped
<1>10. StartAlone'
  BY <1>2, <1>5, <1>6, <1>7, <1>8 DEF StartAlone
<1>11. HostThere' /\ OwnerPumps' /\ OneJoin'
  BY <1>6, <1>8, SubLists DEF HostThere, OwnerPumps, OneJoin
<1>12. OneClose'
  BY <1>6, <1>7, <1>8 DEF OneClose, Exists
<1>13. JoinIsDue' /\ FaultsKnown'
  BY <1>6, <1>8 DEF JoinIsDue, FaultsKnown, Stopped, Awaited, Drained
<1> QED
  BY <1>8, <1>9, <1>10, <1>11, <1>12, <1>13 DEF HostInv

----------------------------------------------------------------------------
(* The worker.  While it lives the claim is held and nobody has awaited it.  *)
LEMMA WorkerMoves ==
  ASSUME HostInv, worker.pc # "done", UNCHANGED hostVars,
         UNCHANGED <<open, deferred, exhausted>>,
         queue' \in Nat, endpoints' \in BOOLEAN, blocked' \in BOOLEAN, worker' \in WorkerShape,
         ~open => queue' = 0 /\ ~endpoints',
         worker'.pc = "callback" /\ ~worker'.stale => queue' > 0
  PROVE  HostInv'
<1> USE DEF hostVars, stopVars, ownerVars, joinVars
<1>1. Shaped'
  BY DEF HostInv, Shaped
<1>2. exclusive /\ (\A t \in Threads : ~Starting(t) /\ todo[t] \notin Awaited)
  BY DEF HostInv, StartAlone, JoinIsDue
<1>3. StartAlone' /\ HostThere'
  BY <1>2 DEF HostInv, StartAlone, HostThere, Starting, Exists
<1>4. OwnerPumps' /\ OneJoin'
  BY DEF HostInv, OwnerPumps, OneJoin, IsOwner, Pumping, Joining
<1>5. OneClose'
  BY DEF HostInv, OneClose, At, Exists
<1>6. JoinIsDue'
  BY <1>2 DEF HostInv, JoinIsDue, Awaited, Drained
<1>7. FaultsKnown'
  BY DEF HostInv, FaultsKnown
<1> QED
  BY <1>1, <1>2, <1>3, <1>4, <1>5, <1>6, <1>7 DEF HostInv

LEMMA WorkerTurns ==
  ASSUME HostInv, UNCHANGED <<laneVars, hostVars>>, worker.pc # "done",
         worker' \in WorkerShape, worker'.pc = "callback" => worker'.stale \/ queue > 0
  PROVE  HostInv'
<1> USE DEF laneVars
<1>1. queue' \in Nat /\ endpoints' \in BOOLEAN /\ blocked' \in BOOLEAN
  BY DEF HostInv, Shaped
<1>2. ~open => queue' = 0 /\ ~endpoints'
  BY DEF HostInv, OneClose
<1> QED
  BY <1>1, <1>2, WorkerMoves

LEMMA WorkerWaitKeeps ==
  ASSUME HostInv, WorkerWait \/ WorkerDecides \/ WorkerContinues PROVE HostInv'
<1>1. UNCHANGED <<laneVars, hostVars>> /\ worker.pc # "done"
  BY DEF WorkerWait, WorkerSeesSignal, WorkerSleeps, WorkerTimesOut, WorkerDecides,
         WorkerContinues
<1>2. worker \in WorkerShape /\ blocked \in BOOLEAN
  BY DEF HostInv, Shaped
<1>3. worker' \in WorkerShape /\ worker'.pc # "callback"
  <2>1. CASE WorkerWait
    <3>1. PICK pc \in {"asleep", "woken"}, flag \in BOOLEAN :
            worker' = [worker EXCEPT !.pc = pc, !.notified = flag]
      <4>1. [worker EXCEPT !.pc = "asleep"] = [worker EXCEPT !.pc = "asleep", !.notified = worker.notified]
        BY <1>2 DEF WorkerShape
      <4>2. worker.notified \in BOOLEAN
        BY <1>2 DEF WorkerShape
      <4> QED
        BY <2>1, <4>1, <4>2 DEF WorkerWait, WorkerSeesSignal, WorkerSleeps, WorkerTimesOut
    <3> QED
      BY <1>2, <3>1 DEF WorkerShape
  <2>2. CASE WorkerDecides
    <3>1. CASE stop
      BY <2>2, <3>1 DEF WorkerDecides, NoWorker, NewWorker, WorkerShape, Results
    <3>2. CASE ~stop
      <4>1. PICK pc \in {"wait", "compile"}, latch \in BOOLEAN :
              worker' = [worker EXCEPT !.pc = pc, !.notified = FALSE, !.latch = latch]
        <5>1. (worker.latch /\ blocked) \in BOOLEAN
          OBVIOUS
        <5> QED
          BY <2>2, <3>2, <5>1 DEF WorkerDecides
      <4> QED
        BY <1>2, <4>1 DEF WorkerShape
    <3> QED
      BY <3>1, <3>2
  <2>3. CASE WorkerContinues
    <3>1. CASE stop
      BY <2>3, <3>1 DEF WorkerContinues, NoWorker, NewWorker, WorkerShape, Results
    <3>2. CASE ~stop /\ worker.result = "APPLIED"
      BY <1>2, <2>3, <3>2 DEF WorkerContinues, WorkerShape, Results
    <3>3. CASE ~stop /\ worker.result # "APPLIED"
      <4>1. PICK latch \in BOOLEAN, retry \in BOOLEAN :
              worker' = [worker EXCEPT !.pc = "wait", !.result = "EMPTY",
                                       !.latch = latch, !.retry = retry]
        <5>1. (worker.result \in Latching) \in BOOLEAN /\ (worker.result \in Retried) \in BOOLEAN
          OBVIOUS
        <5>2. worker' = [worker EXCEPT !.pc = "wait", !.result = "EMPTY",
                                       !.latch = (worker.result \in Latching),
                                       !.retry = (worker.result \in Retried)]
          BY <2>3, <3>3 DEF WorkerContinues
        <5> QED
          BY <5>1, <5>2
      <4> QED
        BY <1>2, <4>1 DEF WorkerShape, Results
    <3> QED
      BY <3>1, <3>2, <3>3
  <2> QED
    BY <2>1, <2>2, <2>3
<1> QED
  BY <1>1, <1>3, WorkerTurns

LEMMA WorkerCompilesKeeps ==
  ASSUME HostInv, WorkerCompiles PROVE HostInv'
<1>1. UNCHANGED <<laneVars, hostVars>> /\ worker.pc # "done"
  BY DEF WorkerCompiles
<1>2. worker \in WorkerShape
  BY DEF HostInv, Shaped
<1>3. worker' \in WorkerShape /\ (worker'.pc = "callback" => queue > 0)
  <2>1. CASE queue > 0 /\ worker' = [worker EXCEPT !.pc = "callback", !.stale = FALSE]
    BY <1>2, <2>1 DEF WorkerShape
  <2>2. ASSUME NEW result \in Declined, worker' = [worker EXCEPT !.pc = "result", !.result = result]
        PROVE  worker' \in WorkerShape /\ worker'.pc # "callback"
    <3>1. result \in Results
      BY DEF Declined, Results
    <3> QED
      BY <1>2, <2>2, <3>1 DEF WorkerShape
  <2> QED
    BY <2>1, <2>2 DEF WorkerCompiles
<1> QED
  BY <1>1, <1>3, WorkerTurns

LEMMA WorkerReplyKeeps ==
  ASSUME HostInv, WorkerReply PROVE HostInv'
<1>1. PICK result \in Results :
        /\ WorkerReturns(result)
        /\ \/ UNCHANGED <<queue, endpoints, blocked>>
           \/ blocked' = TRUE /\ UNCHANGED <<queue, endpoints>>
           \/ /\ result = "APPLIED" /\ queue' = queue - 1
              /\ endpoints' \in {endpoints, TRUE} /\ UNCHANGED blocked
  BY DEF WorkerReply, WorkerDelayed, WorkerFails, WorkerAcks, Results
<1>2. worker \in WorkerShape /\ queue \in Nat /\ endpoints \in BOOLEAN /\ blocked \in BOOLEAN
  BY DEF HostInv, Shaped
<1>3. /\ worker.pc = "callback" /\ UNCHANGED <<hostVars, open, deferred, exhausted>>
      /\ (worker.stale <=> result = "STALE")
      /\ worker' = [worker EXCEPT !.pc = "result", !.result = result, !.stale = FALSE]
  BY <1>1 DEF WorkerReturns
<1>4. worker' \in WorkerShape /\ worker'.pc = "result"
  BY <1>2, <1>3 DEF WorkerShape
<1>5. queue' \in Nat /\ endpoints' \in BOOLEAN /\ blocked' \in BOOLEAN
      /\ (~open => queue' = 0 /\ ~endpoints')
  <2>1. CASE result = "APPLIED" /\ queue' = queue - 1
    <3>1. ~worker.stale
      BY <1>3, <2>1
    <3>2. queue > 0 /\ open
      BY <1>3, <3>1 DEF HostInv, OneClose
    <3>3. queue' \in Nat
      BY <1>2, <2>1, <3>2
    <3>4. endpoints' \in BOOLEAN /\ blocked' \in BOOLEAN
      BY <1>1, <1>2
    <3> QED
      BY <3>2, <3>3, <3>4
  <2>2. CASE UNCHANGED <<queue, endpoints>>
    <3>1. ~open => queue = 0 /\ ~endpoints
      BY DEF HostInv, OneClose
    <3> QED
      BY <1>1, <1>2, <2>2, <3>1
  <2> QED
    BY <1>1, <2>1, <2>2
<1> QED
  BY <1>3, <1>4, <1>5, WorkerMoves

----------------------------------------------------------------------------
LEMMA HostInit == Init => HostInv
<1> SUFFICES ASSUME Init PROVE HostInv
  OBVIOUS
<1>1. \A t \in Threads : todo[t] = <<>>
  BY DEF Init
<1>2. <<>> \in Quiet
  BY DEF Quiet
<1>3. \A t \in Threads : /\ ~Starting(t) /\ ~Joining(t) /\ ~Pumping(t)
                         /\ todo[t] \in Quiet /\ todo[t] \notin Stopped /\ ~At(t, "close")
  BY <1>1, <1>2, Kinds, SubLists DEF Starting, Joining, Pumping, At
<1>4. worker \in WorkerShape /\ worker.pc = "done"
  BY DEF Init, NoWorker, NewWorker, WorkerShape, Results
<1>5. Shaped
  BY <1>2, <1>4 DEF Init, Shaped, Stacks
<1>6. StartAlone /\ HostThere /\ OwnerPumps /\ OneJoin
  BY <1>3 DEF Init, StartAlone, HostThere, OwnerPumps, OneJoin
<1>7. OneClose /\ FaultsKnown
  BY <1>3, <1>4 DEF Init, OneClose, FaultsKnown, Exists
<1>8. JoinIsDue
  BY <1>3 DEF Init, JoinIsDue, Stopped, Awaited, Drained
<1>9. Quiescent
  BY <1>4 DEF Init, Quiescent
<1> QED
  BY <1>4, <1>5, <1>6, <1>7, <1>8, <1>9 DEF HostInv

LEMMA ContinueKeeps ==
  ASSUME HostInv, NEW t \in Threads, Continue(t) PROVE HostInv'
<1>1. CASE StartDrain(t) \/ StartCreate(t) \/ StartClose(t) \/ StartRelease(t)
  BY <1>1, StartDrainKeeps, StartCreateKeeps, StartCloseKeeps, StartReleaseKeeps
<1>2. CASE Notify(t) \/ SignalWorker(t)
  BY <1>2, NotifyKeeps, SignalKeeps
<1>3. CASE RequestStop(t)
  BY <1>3, StopAgainKeeps, StopFirstKeeps
<1>4. CASE LifecycleClose(t) \/ FailHost(t)
  BY <1>4, CloseKeeps, FailKeeps
<1>5. CASE Tick(t) \/ DrainRetirements(t)
  BY <1>5, TickKeeps, DrainKeeps
<1>6. CASE PresentNext(t) \/ Presented(t) \/ HoldReturns(t)
  BY <1>6, PresentKeeps
<1>7. CASE Announce(t) \/ PumpDone(t)
  BY <1>7, AnnounceKeeps, PumpDoneKeeps
<1>8. CASE AwaitWorker(t) \/ JoinDrain(t) \/ JoinFinish(t)
  BY <1>8, AwaitKeeps, JoinDrainKeeps, JoinFinishKeeps
<1>9. CASE JoinBroadcast(t) \/ JoinWakes(t)
  BY <1>9, BroadcastKeeps, NotifyKeeps
<1> QED
  BY <1>1, <1>2, <1>3, <1>4, <1>5, <1>6, <1>7, <1>8, <1>9 DEF Continue

LEMMA CallKeeps ==
  ASSUME HostInv, NEW t \in Threads, Call(t) PROVE HostInv'
<1>1. CASE StartClaim(t) \/ SourceQueuePublish(t)
  BY <1>1, StartClaimKeeps, PublishKeeps
<1>2. CASE TimelineInvalidate(t) \/ InvalidateOrWake(t)
  BY <1>2, TimelineInvalidateKeeps, InvalidateOrWakeKeeps
<1>3. CASE Shutdown(t) \/ TimeUntilPumpFails(t)
  BY <1>3, ShutdownKeeps, TimeUntilPumpKeeps
<1>4. CASE Pump(t) \/ Rebind(t)
  BY <1>4, PumpKeeps, RebindKeeps
<1>5. CASE Join(t) \/ JoinAgain(t)
  BY <1>5, JoinKeeps, NotifyKeeps
<1>6. CASE Destroy(t)
  BY <1>6, DestroyKeeps
<1> QED
  BY <1>1, <1>2, <1>3, <1>4, <1>5, <1>6 DEF Call

LEMMA IdleKeeps == ASSUME HostInv, UNCHANGED vars PROVE HostInv'
<1> USE DEF vars, laneVars, stopVars, ownerVars, joinVars
<1>1. Shaped' /\ StartAlone' /\ HostThere'
  BY DEF HostInv, Shaped, StartAlone, HostThere, Starting, Exists
<1>2. OwnerPumps' /\ OneJoin'
  BY DEF HostInv, OwnerPumps, OneJoin, IsOwner, Pumping, Joining
<1>3. OneClose' /\ JoinIsDue' /\ FaultsKnown'
  BY DEF HostInv, OneClose, JoinIsDue, FaultsKnown, At, Exists
<1>4. ~exclusive' => worker'.pc = "done" /\ Quiescent'
  BY DEF HostInv, Quiescent
<1> QED
  BY <1>1, <1>2, <1>3, <1>4 DEF HostInv

LEMMA HostNext == HostInv /\ [Next]_vars => HostInv'
<1> SUFFICES ASSUME HostInv, [Next]_vars PROVE HostInv'
  OBVIOUS
<1>1. CASE WorkerStep
  BY <1>1, WorkerWaitKeeps, WorkerCompilesKeeps, WorkerReplyKeeps DEF WorkerStep
<1>2. CASE \E t \in Threads : Continue(t) \/ Call(t)
  BY <1>2, ContinueKeeps, CallKeeps
<1>3. CASE UNCHANGED vars
  BY <1>3, IdleKeeps
<1> QED
  BY <1>1, <1>2, <1>3 DEF Next

(* The lists of steps a thread may be in, who owns the lifecycle lock, who   *)
(* starts, pumps and joins, and what is known to have been retired by then:  *)
(* all of xg_render_presentation_host.c between two of its locked sections.  *)
THEOREM HostInvariant == Spec => []HostInv
<1>1. Init => HostInv
  BY HostInit
<1>2. HostInv /\ [Next]_vars => HostInv'
  BY HostNext
<1> QED
  BY <1>1, <1>2, PTL DEF Spec

(* The exclusive claim is given back (start's failure path, join) only by a  *)
(* host that has left nothing behind: no worker, no work, nobody presenting. *)
THEOREM HostReleasedClean == Spec => []ReleasedClean
<1>1. HostInv => ReleasedClean
  <2> SUFFICES ASSUME HostInv, ~exclusive
               PROVE  worker.pc = "done" /\ Quiescent /\ \A t \in Threads : ~InBackend(t)
    BY DEF ReleasedClean
  <2>1. worker.pc = "done" /\ Quiescent
    BY DEF HostInv
  <2>2. ASSUME NEW t \in Threads PROVE ~Starting(t) /\ ~Pumping(t) /\ ~IsOwner(t)
    BY DEF HostInv, StartAlone, OwnerPumps, IsOwner
  <2> QED
    BY <2>1, <2>2, BackendIs
<1> QED
  BY <1>1, HostInvariant, PTL

(* One thread at a time is in the presenter's part of the lane, and no pump  *)
(* runs while a join does (owner, presenter_running, join_started).          *)
THEOREM HostPresenterExclusive == Spec => []PresenterExclusive
<1>1. HostInv => PresenterExclusive
  <2> SUFFICES ASSUME HostInv PROVE PresenterExclusive
    OBVIOUS
  <2>1. ASSUME NEW t \in Threads, NEW u \in Threads, InBackend(t), InBackend(u)
        PROVE  t = u
    <3>1. CASE Starting(t) \/ Starting(u)
      <4>1. ASSUME NEW v \in Threads, NEW w \in Threads, Starting(v), InBackend(w) PROVE v = w
        <5>1. w # v => todo[w] \in Quiet
          BY <4>1 DEF HostInv, StartAlone
        <5>2. todo[w] \in Quiet => ~Starting(w) /\ ~Pumping(w) /\ todo[w] \notin Joins
          BY Kinds DEF Starting, Pumping
        <5>3. <<"joinDrain", "finish", "broadcast">> \in Joins
          BY DEF Joins, Stopped, Awaited
        <5> QED
          BY <4>1, <5>1, <5>2, <5>3, BackendIs
      <4> QED
        BY <2>1, <3>1, <4>1
    <3>2. CASE ~Starting(t) /\ ~Starting(u)
      <4>1. IsOwner(t) /\ IsOwner(u)
        BY <2>1, <3>2, BackendIs DEF HostInv, OwnerPumps
      <4> QED
        BY <4>1 DEF IsOwner
    <3> QED
      BY <3>1, <3>2
  <2>2. joinStarted /\ ~joinComplete /\ presenterRunning => "rebind" \in fault
    BY DEF HostInv, OneJoin
  <2> QED
    BY <2>1, <2>2 DEF PresenterExclusive
<1> QED
  BY <1>1, HostInvariant, PTL

(* The outcome of a host is due to what happened to it: a join that closed   *)
(* the lane and kept its owner succeeds, a host fails for a reason, and one  *)
(* whose clock failed is not reported joined.                                *)
THEOREM HostJudged == Spec => []HostIsJudged
<1>1. HostInv => HostIsJudged
  BY DEF HostInv, JoinIsDue, FaultsKnown, HostIsJudged
<1> QED
  BY <1>1, HostInvariant, PTL

=============================================================================
