----------------------- MODULE OriginReconciliationProofs -----------------------
(***************************************************************************)
(* Proofs about OriginReconciliation for any versions, handlers, delays    *)
(* and limits.  HandlingInv relates a running handler to its entry; on it  *)
(* rest OnceInv (a version marked is a version emitted once), EndsInv (a   *)
(* window keeps a job until it is closed), CurrentInv and ChainInv (one    *)
(* job per window, and one window that is not over), BudgetInv (the        *)
(* attempts of that job count the polls) and LastInv (what it compares     *)
(* the origin with).                                                       *)
(***************************************************************************)
EXTENDS OriginReconciliation, TLAPS

\* What the stage of a handler says about its job.
Fits(r) == r.pc \in {"admit", "fetch", "mark", "emit"} => r.job.attempt < MaxAttempts

\* The entry a handler works on is of the same window as its job.
OwnEntry(r) ==
    r.msg \in DOMAIN stream =>
        stream[r.msg].win = r.job.win /\ stream[r.msg].ends = r.job.ends

HandlingInv ==
    /\ TypeOK
    /\ \A w \in Workers : Busy(w) => Fits(h[w]) /\ OwnEntry(h[w])

-----------------------------------------------------------------------------
\* Each version once

\* Only the handler that marked a version enqueues the update for it.
OnceInv ==
    /\ \A v \in Versions \ applied : updates[v] = 0
    /\ EachVersionOnce
    /\ \A w \in Workers : At(w, "emit") =>
          /\ h[w].seen \in applied /\ updates[h[w].seen] = 0
          /\ \A u \in Workers : At(u, "emit") /\ h[u].seen = h[w].seen => u = w

-----------------------------------------------------------------------------
\* Windows end on purpose

\* A handler acknowledges its entry for good only when the window is closed.
EndsInv ==
    /\ \A w \in Workers : At(w, "ack") /\ h[w].then # "enqueue" => h[w].job.win \in closed
    /\ EndsOnPurpose

-----------------------------------------------------------------------------
\* One job per window, one window that is not over

\* A job that may still poll is of the window that has the claim.
Current(j) ==
    /\ j.win <= windows
    /\ now < j.ends => j.win = windows /\ claim = j.ends

CurrentInv ==
    /\ \A m \in DOMAIN stream : Current(stream[m])
    /\ \A w \in Workers : Busy(w) => Current(h[w].job)
    /\ opening # NoJob => opening.win = windows /\ Current(opening)

\* Unless an entry was redelivered to a second handler: handlers have
\* different entries, their own until they acknowledge it, and the job of a
\* window is in one place.
ChainInv ==
    "redelivered" \notin spoilt =>
        /\ \A v, w \in Workers : Busy(v) /\ Busy(w) /\ h[v].msg = h[w].msg => v = w
        /\ \A w \in Workers : Busy(w) =>
              (h[w].msg \in DOMAIN stream <=> h[w].pc \notin {"enqueue", "dlq"})
        /\ \A m, n \in DOMAIN stream : stream[m].win = stream[n].win => m = n
        /\ \A v, w \in Workers :
              At(v, "enqueue") /\ At(w, "enqueue") /\ h[v].job.win = h[w].job.win => v = w
        /\ \A m \in DOMAIN stream, w \in Workers :
              At(w, "enqueue") => stream[m].win # h[w].job.win
        /\ \A m \in DOMAIN stream : stream[m].win # opening.win
        /\ \A w \in Workers : At(w, "enqueue") => h[w].job.win # opening.win

-----------------------------------------------------------------------------
\* Polls are counted

Held(m) == \E w \in Workers : Busy(w) /\ h[w].msg = m

\* The job and the entry of the handler r fit the polls made so far.
Accounts(r) ==
    /\ r.pc \in {"admit", "fetch", "mark", "emit"} => r.job.attempt = stream[r.msg].attempt
    /\ r.pc \in {"admit", "fetch", "enqueue"} \/ (r.pc = "ack" /\ r.then = "enqueue")
       => polls[r.job.win] <= r.job.attempt + mishaps

\* A job has an attempt for each poll but the one in hand and those that a
\* mishap undid.
BudgetInv ==
    "redelivered" \notin spoilt =>
        /\ \A n \in 1 .. MaxWindows : polls[n] <= MaxAttempts + mishaps
        /\ \A n \in 1 .. MaxWindows : n > windows \/ n = opening.win => polls[n] = 0
        /\ \A m \in DOMAIN stream :
              polls[stream[m].win] <= stream[m].attempt + mishaps + (IF Held(m) THEN 1 ELSE 0)
        /\ \A w \in Workers : Accounts(h[w])

-----------------------------------------------------------------------------
\* What a job compares the origin with

\* A handler of the newest window has the version of local in its job, and in
\* its entry as long as a mishap brings that back; the job of one that is
\* about to enqueue an update is about to change.
Compares(r) ==
    r.job.win = windows =>
        /\ r.pc \notin {"emit", "dlq"} => r.job.last = local
        /\ r.pc \in {"admit", "fetch", "mark", "emit"} \/ (r.pc = "ack" /\ r.then # "enqueue")
           => stream[r.msg].last = local

\* So has its job, wherever it is.
LastInv ==
    spoilt \subseteq {"chain"} =>
        /\ opening # NoJob => opening.last = local
        /\ \A m \in DOMAIN stream : stream[m].win = windows /\ ~Held(m) => stream[m].last = local
        /\ \A w \in Workers : Busy(w) => Compares(h[w])

-----------------------------------------------------------------------------
\* Steps of a handler

\* The variables of TypeOK but h.
RestOK ==
    /\ now \in 0 .. MaxTime
    /\ {origin, local} \cup applied \subseteq Versions
    /\ claim \in 0 .. MaxTime + Window
    /\ opening \in Job \cup {NoJob}
    /\ DOMAIN stream \subseteq MsgIds
    /\ stream \in [DOMAIN stream -> Job]
    /\ updates \in [Versions -> 0 .. 2]
    /\ dlq \subseteq 1 .. MaxWindows /\ closed \subseteq 1 .. MaxWindows
    /\ windows \in 0 .. MaxWindows
    /\ polls \in [1 .. MaxWindows -> 0 .. TooMany]
    /\ spoilt \subseteq Spoils
    /\ edits \in 0 .. MaxEdits /\ mishaps \in 0 .. MaxMishaps

\* The handler goes on with the entry it has and a job of the same window.
Continues(q, r) ==
    /\ q \in Handler /\ q.msg = r.msg
    /\ q.job.win = r.job.win /\ q.job.ends = r.job.ends
    /\ Fits(q)

\* It acknowledges its entry and writes back a job with k more attempts that
\* compares the origin with v.
WritesBack(q, r, k, v) ==
    /\ Continues(q, r) /\ q.pc = "ack" /\ q.then = "enqueue"
    /\ q.job.attempt = r.job.attempt + k /\ q.job.last = v

LEMMA Bounds ==
    /\ MaxAttempts \in Nat /\ MaxTime \in Nat /\ MaxWindows \in Nat /\ MaxEdits \in Nat
    /\ MaxMishaps \in Nat /\ Window \in Nat /\ Window > 0 /\ MaxUnchanged \in Nat
    /\ MaxUnchanged > 0 /\ Delays \subseteq Nat
  BY ConstantsAssumption

LEMMA BusyLemma ==
    ASSUME TypeOK, NEW w \in Workers, Busy(w)
    PROVE  /\ h[w] \in Handler /\ h[w].job \in Job /\ h[w].msg \in MsgIds
           /\ h[w].job.win \in 1 .. MaxWindows /\ h[w].seen \in Versions
           /\ h[w].job.attempt \in 0 .. MaxAttempts
  BY DEF TypeOK, Busy, Idle, Handler, Job

LEMMA GoLemma ==
    ASSUME TypeOK, NEW w \in Workers, NEW q, Go(w, q)
    PROVE  h'[w] = q /\ \A v \in Workers : v # w => h'[v] = h[v]
  BY DEF TypeOK, Go

LEMMA LaterLemma ==
    ASSUME now \in 0 .. MaxTime, NEW d \in Delays
    PROVE  Later(d) \in 0 .. MaxTime
  BY Bounds DEF Later

LEMMA AckThenLemma ==
    ASSUME NEW r \in Handler, NEW then \in {"done", "enqueue", "dlq"}
    PROVE  /\ AckThen(r, then) \in Handler /\ Continues(AckThen(r, then), r)
           /\ AckThen(r, then).pc = "ack" /\ AckThen(r, then).then = then
           /\ AckThen(r, then).job = r.job
  BY DEF AckThen, Handler, Continues, Fits

LEMMA RescheduleLemma ==
    ASSUME NEW r \in Handler, NEW j \in Job, j.win = r.job.win, j.ends = r.job.ends
    PROVE  /\ Continues(Reschedule(r, j), r)
           /\ Reschedule(r, j).pc = "ack" /\ Reschedule(r, j).then = "enqueue"
           /\ Reschedule(r, j).job = j
  <1> DEFINE a == AckThen(r, "enqueue")
  <1>1. a \in Handler /\ a.pc = "ack" /\ a.then = "enqueue" /\ a.msg = r.msg
    BY AckThenLemma DEF Continues
  <1>2. Reschedule(r, j) = [a EXCEPT !.job = j]
    BY DEF Reschedule
  <1> HIDE DEF a
  <1> DEFINE q == [a EXCEPT !.job = j]
  <1>3. q \in Handler /\ q.pc = "ack" /\ q.then = "enqueue" /\ q.job = j /\ q.msg = r.msg
    BY <1>1 DEF Handler
  <1> HIDE DEF q
  <1>4. Continues(q, r)
    BY <1>3 DEF Continues, Fits
  <1>5. Reschedule(r, j) = q
    BY <1>2 DEF q
  <1> QED BY <1>3, <1>4, <1>5

LEMMA FollowingLemma ==
    ASSUME now \in 0 .. MaxTime, NEW d \in Delays, NEW j \in Job, j.attempt < MaxAttempts
    PROVE  /\ Following(j, d) \in Job
           /\ Following(j, d).attempt = j.attempt + 1 /\ Following(j, d).last = j.last
           /\ Following(j, d).win = j.win /\ Following(j, d).ends = j.ends
           /\ Following(j, d).unchanged = j.unchanged
  <1>1. j.attempt + 1 \in 0 .. MaxAttempts /\ Later(d) \in 0 .. MaxTime
    BY Bounds, LaterLemma DEF Job
  <1> QED BY <1>1 DEF Following, Job

LEMMA ResetLemma ==
    ASSUME NEW f \in Job, NEW v \in Versions
    PROVE  \E j \in Job :
              /\ j = [f EXCEPT !.unchanged = 0, !.missing = 0, !.last = v]
              /\ j.attempt = f.attempt /\ j.win = f.win /\ j.ends = f.ends /\ j.last = v
  <1> DEFINE g == [f EXCEPT !.unchanged = 0]
             k == [g EXCEPT !.missing = 0]
             j == [k EXCEPT !.last = v]
  <1>1. j = [f EXCEPT !.unchanged = 0, !.missing = 0, !.last = v]
    OBVIOUS
  <1>2. g \in Job
    BY Bounds DEF Job
  <1>3. g.attempt = f.attempt /\ g.win = f.win /\ g.ends = f.ends
    BY DEF Job
  <1> HIDE DEF g
  <1>4. k \in Job
    BY <1>2 DEF Job
  <1>5. k.attempt = f.attempt /\ k.win = f.win /\ k.ends = f.ends
    BY <1>2, <1>3 DEF Job
  <1> HIDE DEF k
  <1>6. j \in Job
    BY <1>4 DEF Job
  <1>7. j.attempt = f.attempt /\ j.win = f.win /\ j.ends = f.ends /\ j.last = v
    BY <1>4, <1>5 DEF Job
  <1> HIDE DEF j
  <1> QED BY <1>1, <1>6, <1>7

LEMMA PolledLemma ==
    ASSUME now \in 0 .. MaxTime, NEW d \in Delays, NEW r \in Handler,
           r.job.attempt < MaxAttempts
    PROVE  WritesBack(Polled(r, d), r, 1, r.seen)
  <1>1. r.job \in Job /\ r.seen \in Versions
    BY DEF Handler
  <1>2. PICK f \in Job : /\ f = Following(r.job, d) /\ f.attempt = r.job.attempt + 1
                         /\ f.win = r.job.win /\ f.ends = r.job.ends
    BY <1>1, FollowingLemma
  <1>3. PICK j \in Job :
              /\ j = [f EXCEPT !.unchanged = 0, !.missing = 0, !.last = r.seen]
              /\ j.attempt = f.attempt /\ j.win = f.win /\ j.ends = f.ends /\ j.last = r.seen
    BY <1>1, ResetLemma
  <1>4. Polled(r, d) = Reschedule(r, j)
    BY <1>2, <1>3 DEF Polled
  <1>5. j.win = r.job.win /\ j.ends = r.job.ends /\ j.attempt = r.job.attempt + 1
    BY <1>2, <1>3
  <1>6. PICK q : /\ q = Polled(r, d) /\ Continues(q, r)
                 /\ q.pc = "ack" /\ q.then = "enqueue" /\ q.job = j
    BY <1>4, <1>5, RescheduleLemma
  <1>7. WritesBack(q, r, 1, r.seen)
    BY <1>3, <1>5, <1>6 DEF WritesBack
  <1> QED BY <1>6, <1>7

LEMMA ReplyLemma ==
    ASSUME TypeOK, NEW w \in Workers, NEW r, Reply(w, r)
    PROVE  /\ mishaps' \in 0 .. MaxMishaps
           /\ \/ Go(w, r) /\ mishaps' = mishaps
              \/ Go(w, Idle) /\ mishaps' = mishaps + 1
  BY Bounds DEF Reply, TypeOK

LEMMA EnqueueLemma ==
    ASSUME TypeOK, NEW W, NEW j \in Job, Enqueue(j, W)
    PROVE  \E m \in MsgIds :
              /\ m \notin DOMAIN stream /\ \A v \in W : Busy(v) => h[v].msg # m
              /\ DOMAIN stream' = DOMAIN stream \cup {m} /\ stream'[m] = j
              /\ \A n \in DOMAIN stream : stream'[n] = stream[n] /\ n # m
              /\ DOMAIN stream' \subseteq MsgIds /\ stream' \in [DOMAIN stream' -> Job]
  <1> DEFINE m == CHOOSE m \in FreshIds(W) : TRUE
  <1>1. m \in FreshIds(W)
    BY DEF Enqueue
  <1>2. m \in MsgIds /\ m \notin DOMAIN stream /\ \A v \in W : Busy(v) => h[v].msg # m
    BY <1>1 DEF FreshIds
  <1>3. stream' = [x \in DOMAIN stream \cup {m} |-> IF x = m THEN j ELSE stream[x]]
    BY DEF Enqueue
  <1> HIDE DEF m
  <1> QED BY <1>2, <1>3 DEF TypeOK

-----------------------------------------------------------------------------
\* Where the steps of processJob lead

LEMMA AdmitLeads ==
    ASSUME HandlingInv, NEW w \in Workers, Admit(w)
    PROVE  /\ mishaps' \in 0 .. MaxMishaps
           /\ \E q : /\ Go(w, q)
                     /\ \/ q = Idle /\ mishaps' = mishaps + 1
                        \/ /\ mishaps' = mishaps
                           /\ Continues(q, h[w]) /\ q.pc = "fetch" /\ q.job = h[w].job
                        \/ /\ mishaps' = mishaps
                           /\ WritesBack(q, h[w], 0, h[w].job.last)
  <1>1. /\ Busy(w) /\ TypeOK /\ Fits(h[w]) /\ h[w] \in Handler /\ h[w].job \in Job
        /\ h[w].job.attempt < MaxAttempts
    BY BusyLemma DEF Admit, At, Busy, HandlingInv, Fits
  <1>2. CASE Reply(w, [h[w] EXCEPT !.pc = "fetch"])
    <2> DEFINE q == [h[w] EXCEPT !.pc = "fetch"]
    <2>1. q \in Handler /\ q.pc = "fetch" /\ q.msg = h[w].msg /\ q.job = h[w].job
      BY <1>1 DEF Handler
    <2>2. Reply(w, q)
      BY <1>2
    <2> HIDE DEF q
    <2>3. Continues(q, h[w])
      BY <1>1, <2>1 DEF Continues, Fits
    <2> QED BY <1>1, <2>1, <2>2, <2>3, ReplyLemma
  <1>3. ASSUME NEW d \in Delays,
               Reply(w, Reschedule(h[w], [h[w].job EXCEPT !.notBefore = Later(d)]))
        PROVE  \E q : Reply(w, q) /\ WritesBack(q, h[w], 0, h[w].job.last)
    <2> DEFINE j == [h[w].job EXCEPT !.notBefore = Later(d)]
    <2>1. Later(d) \in 0 .. MaxTime
      BY <1>1, LaterLemma DEF TypeOK
    <2>2. /\ j \in Job /\ j.win = h[w].job.win /\ j.ends = h[w].job.ends
          /\ j.attempt = h[w].job.attempt + 0 /\ j.last = h[w].job.last
      BY <1>1, <2>1, Bounds DEF Job
    <2>3. Reply(w, Reschedule(h[w], j))
      BY <1>3
    <2> HIDE DEF j
    <2> QED BY <1>1, <2>2, <2>3, RescheduleLemma DEF WritesBack
  <1> QED BY <1>1, <1>2, <1>3, ReplyLemma DEF Admit

LEMMA FetchLeads ==
    ASSUME HandlingInv, NEW w \in Workers, Fetch(w)
    PROVE  \E q :
              /\ Go(w, q)
              /\ \/ /\ Continues(q, h[w]) /\ q.pc = "mark" /\ q.job = h[w].job
                    /\ closed' = closed
                 \/ WritesBack(q, h[w], 1, h[w].job.last) /\ closed' = closed
                 \/ /\ Continues(q, h[w]) /\ q.pc = "ack" /\ q.then # "enqueue"
                    /\ q.job = h[w].job /\ closed' = closed \cup {h[w].job.win}
  <1>1. /\ Busy(w) /\ TypeOK /\ h[w] \in Handler /\ h[w].job \in Job
        /\ h[w].job.attempt < MaxAttempts /\ now \in 0 .. MaxTime /\ origin \in Versions
    BY BusyLemma DEF Fetch, At, Busy, HandlingInv, Fits, TypeOK
  <1>2. ASSUME NEW then \in {"done", "dlq"}, Close(w, then)
        PROVE  \E q : /\ Go(w, q) /\ Continues(q, h[w]) /\ q.pc = "ack" /\ q.then # "enqueue"
                      /\ q.job = h[w].job /\ closed' = closed \cup {h[w].job.win}
    BY <1>1, <1>2, AckThenLemma DEF Close
  <1>3. ASSUME NEW d \in Delays, NEW j \in Job, j.win = h[w].job.win, j.ends = h[w].job.ends,
               j.attempt = h[w].job.attempt + 1, j.last = h[w].job.last,
               Go(w, Reschedule(h[w], j))
        PROVE  \E q : Go(w, q) /\ WritesBack(q, h[w], 1, h[w].job.last)
    BY <1>1, <1>3, RescheduleLemma DEF WritesBack
  <1>4. CASE origin # h[w].job.last /\ Go(w, [h[w] EXCEPT !.pc = "mark", !.seen = origin])
             /\ UNCHANGED closed
    <2> DEFINE q == [h[w] EXCEPT !.pc = "mark", !.seen = origin]
    <2>1. q \in Handler /\ q.pc = "mark" /\ q.msg = h[w].msg /\ q.job = h[w].job
      BY <1>1 DEF Handler
    <2>2. Go(w, q)
      BY <1>4
    <2> HIDE DEF q
    <2>3. Continues(q, h[w])
      BY <1>1, <2>1 DEF Continues, Fits
    <2> QED BY <1>4, <2>1, <2>2, <2>3
  <1>5. ASSUME NEW d \in Delays
        PROVE  LET j == Following(h[w].job, d) IN
               /\ j \in Job /\ j.win = h[w].job.win /\ j.ends = h[w].job.ends
               /\ j.attempt = h[w].job.attempt + 1 /\ j.last = h[w].job.last
               /\ j.unchanged = h[w].job.unchanged
    BY <1>1, FollowingLemma
  <1>6. ASSUME NEW d \in Delays, Unchanged(w, d)
        PROVE  \/ Close(w, "done")
               \/ closed' = closed /\ \E q : Go(w, q) /\ WritesBack(q, h[w], 1, h[w].job.last)
    <2>1. CASE h[w].job.unchanged + 1 >= MaxUnchanged
      BY <1>6, <2>1 DEF Unchanged
    <2>2. CASE ~(h[w].job.unchanged + 1 >= MaxUnchanged)
      <3> DEFINE j == [Following(h[w].job, d) EXCEPT !.unchanged = @ + 1]
      <3>1. h[w].job.unchanged + 1 \in 0 .. MaxUnchanged
        BY <1>1, <2>2, Bounds DEF Job
      <3>2. /\ j \in Job /\ j.win = h[w].job.win /\ j.ends = h[w].job.ends
            /\ j.attempt = h[w].job.attempt + 1 /\ j.last = h[w].job.last
        BY <1>5, <3>1 DEF Job
      <3>3. Go(w, Reschedule(h[w], j)) /\ closed' = closed
        BY <1>6, <2>2 DEF Unchanged
      <3> HIDE DEF j
      <3> QED BY <1>3, <3>2, <3>3
    <2> QED BY <2>1, <2>2
  <1>7. ASSUME NEW d \in Delays, NotFound(w, d)
        PROVE  \/ Close(w, "done")
               \/ closed' = closed /\ \E q : Go(w, q) /\ WritesBack(q, h[w], 1, h[w].job.last)
    <2>1. CASE h[w].job.missing = 0 /\ now + d < h[w].job.ends
      <3> DEFINE j == [Following(h[w].job, d) EXCEPT !.missing = 1]
      <3>2. /\ j \in Job /\ j.win = h[w].job.win /\ j.ends = h[w].job.ends
            /\ j.attempt = h[w].job.attempt + 1 /\ j.last = h[w].job.last
        BY <1>5 DEF Job
      <3>3. Go(w, Reschedule(h[w], j)) /\ closed' = closed
        BY <1>7, <2>1 DEF NotFound
      <3> HIDE DEF j
      <3> QED BY <1>3, <3>2, <3>3
    <2>2. CASE ~(h[w].job.missing = 0 /\ now + d < h[w].job.ends)
      BY <1>7, <2>2 DEF NotFound
    <2> QED BY <2>1, <2>2
  <1>8. ASSUME NEW d \in Delays, Go(w, AfterTransient(h[w], d))
        PROVE  \E q : Go(w, q) /\ WritesBack(q, h[w], 1, h[w].job.last)
    BY <1>3, <1>5, <1>8 DEF AfterTransient
  <1> QED BY <1>2, <1>4, <1>6, <1>7, <1>8 DEF Fetch

LEMMA MarkLeads ==
    ASSUME HandlingInv, NEW w \in Workers, Mark(w)
    PROVE  /\ mishaps' \in 0 .. MaxMishaps
           /\ \E q : /\ Go(w, q)
                     /\ \/ q = Idle /\ mishaps' = mishaps + 1
                        \/ /\ mishaps' = mishaps /\ h[w].seen \notin applied
                           /\ Continues(q, h[w]) /\ q.pc = "emit" /\ q.job = h[w].job
                           /\ q.seen = h[w].seen
                        \/ /\ mishaps' = mishaps /\ h[w].seen \in applied
                           /\ WritesBack(q, h[w], 1, h[w].seen)
  <1>1. /\ Busy(w) /\ TypeOK /\ Fits(h[w]) /\ h[w] \in Handler /\ now \in 0 .. MaxTime
        /\ h[w].job.attempt < MaxAttempts
    BY BusyLemma DEF Mark, At, Busy, HandlingInv, Fits, TypeOK
  <1>2. PICK d \in Delays : Reply(w, AfterMark(h[w], d))
    BY DEF Mark
  <1>3. CASE h[w].seen \notin applied
    <2> DEFINE q == [h[w] EXCEPT !.pc = "emit"]
    <2>1. /\ q \in Handler /\ q.pc = "emit" /\ q.msg = h[w].msg /\ q.job = h[w].job
          /\ q.seen = h[w].seen
      BY <1>1 DEF Handler
    <2>2. Reply(w, q)
      BY <1>2, <1>3 DEF AfterMark, ShouldApply
    <2> HIDE DEF q
    <2>3. Continues(q, h[w])
      BY <1>1, <2>1 DEF Continues, Fits
    <2> QED BY <1>1, <1>3, <2>1, <2>2, <2>3, ReplyLemma
  <1>4. CASE h[w].seen \in applied
    <2>1. PICK q : q = Polled(h[w], d)
      OBVIOUS
    <2>2. Reply(w, q)
      BY <1>2, <1>4, <2>1 DEF AfterMark, ShouldApply
    <2>3. WritesBack(q, h[w], 1, h[w].seen)
      BY <1>1, <2>1, PolledLemma
    <2> QED BY <1>1, <1>4, <2>2, <2>3, ReplyLemma
  <1> QED BY <1>3, <1>4

LEMMA EmitLeads ==
    ASSUME HandlingInv, NEW w \in Workers, Emit(w)
    PROVE  /\ mishaps' \in 0 .. MaxMishaps
           /\ \E q : /\ Go(w, q)
                     /\ \/ q = Idle /\ mishaps' = mishaps + 1
                        \/ mishaps' = mishaps /\ WritesBack(q, h[w], 1, h[w].seen)
  <1>1. /\ Busy(w) /\ TypeOK /\ h[w] \in Handler /\ now \in 0 .. MaxTime
        /\ h[w].job.attempt < MaxAttempts
    BY BusyLemma DEF Emit, At, Busy, HandlingInv, Fits, TypeOK
  <1>2. PICK d \in Delays : Reply(w, Polled(h[w], d))
    BY DEF Emit
  <1>3. PICK q : q = Polled(h[w], d)
    OBVIOUS
  <1>4. WritesBack(q, h[w], 1, h[w].seen)
    BY <1>1, <1>3, PolledLemma
  <1> QED BY <1>1, <1>2, <1>3, <1>4, ReplyLemma

LEMMA AckLeads ==
    ASSUME HandlingInv, NEW w \in Workers, Ack(w)
    PROVE  /\ mishaps' \in 0 .. MaxMishaps
           /\ \E q : /\ Go(w, q)
                     /\ \/ q = Idle /\ mishaps' = mishaps + 1
                        \/ q = Idle /\ mishaps' = mishaps /\ h[w].then = "done"
                        \/ /\ mishaps' = mishaps /\ h[w].then # "done"
                           /\ Continues(q, h[w]) /\ q.pc = h[w].then /\ q.job = h[w].job
  <1>1. Busy(w) /\ TypeOK /\ h[w] \in Handler
    BY BusyLemma DEF Ack, At, Busy, HandlingInv
  <1>2. Reply(w, IF h[w].then = "done" THEN Idle ELSE [h[w] EXCEPT !.pc = h[w].then])
    BY DEF Ack
  <1>3. CASE h[w].then = "done"
    BY <1>1, <1>2, <1>3, ReplyLemma
  <1>4. CASE h[w].then # "done"
    <2> DEFINE q == [h[w] EXCEPT !.pc = h[w].then]
    <2>1. h[w].then \in {"enqueue", "dlq"}
      BY <1>1, <1>4 DEF Handler
    <2>2. q \in Handler /\ q.pc = h[w].then /\ q.msg = h[w].msg /\ q.job = h[w].job
      BY <1>1, <2>1 DEF Handler
    <2>3. Reply(w, q)
      BY <1>2, <1>4
    <2> HIDE DEF q
    <2>4. Continues(q, h[w])
      BY <1>1, <2>1, <2>2 DEF Continues, Fits
    <2> QED BY <1>1, <1>4, <2>2, <2>3, <2>4, ReplyLemma
  <1> QED BY <1>3, <1>4

LEMMA WriteBackLeads ==
    ASSUME HandlingInv, NEW w \in Workers, WriteBack(w)
    PROVE  /\ Busy(w) /\ Go(w, Idle) /\ mishaps' \in {mishaps, mishaps + 1} \cap (0 .. MaxMishaps)
           /\ \E m \in MsgIds :
                /\ m \notin DOMAIN stream
                /\ \A v \in Workers \ {w} : Busy(v) => h[v].msg # m
                /\ DOMAIN stream' = DOMAIN stream \cup {m} /\ stream'[m] = h[w].job
                /\ \A n \in DOMAIN stream : stream'[n] = stream[n] /\ n # m
                /\ DOMAIN stream' \subseteq MsgIds /\ stream' \in [DOMAIN stream' -> Job]
  <1>1. Busy(w) /\ TypeOK /\ h[w].job \in Job
    BY BusyLemma DEF WriteBack, At, Busy, HandlingInv
  <1>2. Enqueue(h[w].job, Workers \ {w}) /\ Reply(w, Idle)
    BY DEF WriteBack
  <1>3. Go(w, Idle) /\ mishaps' \in {mishaps, mishaps + 1} \cap (0 .. MaxMishaps)
    BY <1>1, <1>2, ReplyLemma
  <1> DEFINE W == Workers \ {w}
  <1>6. PICK j \in Job : j = h[w].job
    BY <1>1
  <1>4. Enqueue(j, W)
    BY <1>2, <1>6
  <1> HIDE DEF W
  <1>5. \E m \in MsgIds :
           /\ m \notin DOMAIN stream /\ \A v \in W : Busy(v) => h[v].msg # m
           /\ DOMAIN stream' = DOMAIN stream \cup {m} /\ stream'[m] = j
           /\ \A n \in DOMAIN stream : stream'[n] = stream[n] /\ n # m
           /\ DOMAIN stream' \subseteq MsgIds /\ stream' \in [DOMAIN stream' -> Job]
    BY <1>1, <1>4, EnqueueLemma
  <1> QED BY <1>1, <1>3, <1>6, <1>5 DEF W

\* The three ways Receive goes on with the entry m.
LEMMA ReceiveLeads ==
    ASSUME HandlingInv, NEW w \in Workers, NEW m \in MsgIds, Receive(w, m)
    PROVE  /\ ~Busy(w) /\ m \in DOMAIN stream /\ stream[m] \in Job
           /\ \/ /\ \A v \in Workers : Busy(v) => h[v].msg # m
                 /\ mishaps' = mishaps /\ spoilt' = spoilt
              \/ /\ mishaps' = mishaps + 1 /\ mishaps < MaxMishaps
                 /\ spoilt' = spoilt \cup {"redelivered"}
           /\ \E q : /\ Go(w, q) /\ q \in Handler /\ q.msg = m /\ q.job = stream[m] /\ Fits(q)
                     /\ \/ q.pc = "admit" /\ closed' = closed
                        \/ q.pc = "ack" /\ q.then = "enqueue" /\ closed' = closed
                        \/ /\ q.pc = "ack" /\ q.then = "done"
                           /\ closed' = closed \cup {stream[m].win}
  <1>1. /\ ~Busy(w) /\ m \in DOMAIN stream /\ stream[m] \in Job /\ stream[m].last \in Versions
        /\ stream[m].attempt \in 0 .. MaxAttempts
    BY DEF Receive, HandlingInv, TypeOK, Job
  <1>2. PICK r : r = [pc |-> "admit", msg |-> m, job |-> stream[m], seen |-> stream[m].last,
                      then |-> "done"]
    OBVIOUS
  <1>3. r \in Handler /\ r.pc = "admit" /\ r.msg = m /\ r.job = stream[m]
    BY <1>1, <1>2 DEF Handler
  <1>4. \/ Go(w, Reschedule(r, stream[m])) /\ closed' = closed
        \/ Go(w, AckThen(r, "done")) /\ closed' = closed \cup {stream[m].win}
        \/ ~Over(stream[m]) /\ Go(w, r) /\ closed' = closed
    BY <1>2 DEF Receive
  <1>5. \/ /\ \A v \in Workers : Busy(v) => h[v].msg # m
           /\ mishaps' = mishaps /\ spoilt' = spoilt
        \/ /\ mishaps' = mishaps + 1 /\ mishaps < MaxMishaps
           /\ spoilt' = spoilt \cup {"redelivered"}
    BY DEF Receive
  <1>6. CASE Go(w, Reschedule(r, stream[m])) /\ closed' = closed
    BY <1>1, <1>3, <1>5, <1>6, RescheduleLemma DEF Continues
  <1>7. CASE Go(w, AckThen(r, "done")) /\ closed' = closed \cup {stream[m].win}
    BY <1>1, <1>3, <1>5, <1>7, AckThenLemma DEF Continues
  <1>8. CASE ~Over(stream[m]) /\ Go(w, r) /\ closed' = closed
    BY <1>1, <1>3, <1>5, <1>8, Bounds DEF Over, Fits
  <1> QED BY <1>1, <1>4, <1>6, <1>7, <1>8

LEMMA ActivityLeads ==
    ASSUME HandlingInv, NEW u \in Versions, Activity(u)
    PROVE  /\ opening = NoJob /\ local' = u
           /\ \/ /\ claim = 0 /\ claim' = now + Window /\ windows < MaxWindows
                 /\ windows' = windows + 1 /\ opening' \in Job
                 /\ opening'.win = windows + 1 /\ opening'.ends = now + Window
                 /\ opening'.last = u /\ spoilt' = spoilt
              \/ /\ u # local /\ claim' = claim /\ windows' = windows /\ opening' = opening
                 /\ spoilt' = spoilt \cup {"overtaken"}
  <1>1. /\ now \in 0 .. MaxTime /\ windows \in 0 .. MaxWindows
    BY DEF HandlingInv, TypeOK
  <1>2. CASE Unclaimed /\ spoilt' = spoilt /\ claim' = now + Window /\ windows' = windows + 1
             /\ \E d \in Delays :
                  opening' = [win |-> windows + 1, attempt |-> 0, notBefore |-> Later(d),
                              ends |-> now + Window, last |-> u, unchanged |-> 0,
                              missing |-> 0]
    <2>1. PICK d \in Delays :
               opening' = [win |-> windows + 1, attempt |-> 0, notBefore |-> Later(d),
                           ends |-> now + Window, last |-> u, unchanged |-> 0, missing |-> 0]
      BY <1>2
    <2>2. windows < MaxWindows
      BY DEF Activity
    <2>3. /\ windows + 1 \in 1 .. MaxWindows /\ now + Window \in 0 .. MaxTime + Window
          /\ Later(d) \in 0 .. MaxTime /\ 0 \in 0 .. MaxAttempts /\ 0 \in 0 .. MaxUnchanged
          /\ 0 \in 0 .. 1
      BY <1>1, <2>2, Bounds, LaterLemma
    <2>4. opening' \in Job
      BY <2>1, <2>3 DEF Job
    <2> QED BY <1>2, <2>1, <2>2, <2>4 DEF Activity, Unclaimed
  <1>3. CASE u # local /\ claim' = claim /\ windows' = windows /\ opening' = opening
             /\ spoilt' = spoilt \cup {"overtaken"}
    BY <1>3 DEF Activity
  <1> QED BY <1>2, <1>3 DEF Activity

LEMMA OpenWindowLeads ==
    ASSUME HandlingInv, OpenWindow
    PROVE  /\ opening \in Job /\ opening' = NoJob /\ mishaps' \in 0 .. MaxMishaps
           /\ \/ /\ mishaps' = mishaps + 1 /\ spoilt' = spoilt \cup {"chain"}
                 /\ stream' = stream
              \/ /\ mishaps' = mishaps /\ spoilt' = spoilt
                 /\ \E m \in MsgIds :
                      /\ m \notin DOMAIN stream
                      /\ \A v \in Workers : Busy(v) => h[v].msg # m
                      /\ DOMAIN stream' = DOMAIN stream \cup {m} /\ stream'[m] = opening
                      /\ \A n \in DOMAIN stream : stream'[n] = stream[n] /\ n # m
                      /\ DOMAIN stream' \subseteq MsgIds /\ stream' \in [DOMAIN stream' -> Job]
  <1>1. TypeOK /\ opening \in Job /\ mishaps \in 0 .. MaxMishaps
    BY DEF OpenWindow, HandlingInv, TypeOK
  <1>2. CASE Enqueue(opening, Workers) /\ mishaps' = mishaps /\ spoilt' = spoilt
    <2>1. PICK j \in Job : j = opening
      BY <1>1
    <2>2. PICK W : W = Workers
      OBVIOUS
    <2>3. Enqueue(j, W)
      BY <1>2, <2>1, <2>2
    <2>4. \E m \in MsgIds :
             /\ m \notin DOMAIN stream /\ \A v \in W : Busy(v) => h[v].msg # m
             /\ DOMAIN stream' = DOMAIN stream \cup {m} /\ stream'[m] = j
             /\ \A n \in DOMAIN stream : stream'[n] = stream[n] /\ n # m
             /\ DOMAIN stream' \subseteq MsgIds /\ stream' \in [DOMAIN stream' -> Job]
      BY <1>1, <2>3, EnqueueLemma
    <2> QED BY <1>1, <1>2, <2>1, <2>2, <2>4 DEF OpenWindow
  <1>3. CASE mishaps < MaxMishaps /\ mishaps' = mishaps + 1 /\ stream' = stream
             /\ spoilt' = spoilt \cup {"chain"}
    BY <1>1, <1>3, Bounds DEF OpenWindow
  <1> QED BY <1>2, <1>3 DEF OpenWindow

-----------------------------------------------------------------------------
\* HandlingInv is inductive

\* A handler goes on to q, other handlers keep their entries.
LEMMA HandlingStep ==
    ASSUME HandlingInv, RestOK', NEW w \in Workers, NEW q, Go(w, q),
           q = Idle \/ (q \in Handler /\ Fits(q)),
           \A n \in DOMAIN stream' :
              /\ n \in DOMAIN stream => stream'[n] = stream[n]
              /\ n \notin DOMAIN stream => \A v \in Workers \ {w} : Busy(v) => h[v].msg # n,
           q # Idle /\ q.msg \in DOMAIN stream' =>
              stream'[q.msg].win = q.job.win /\ stream'[q.msg].ends = q.job.ends
    PROVE  HandlingInv'
  <1>1. TypeOK /\ h' = [h EXCEPT ![w] = q]
    BY DEF HandlingInv, Go
  <1>2. h'[w] = q /\ \A v \in Workers : v # w => h'[v] = h[v]
    BY <1>1, GoLemma
  <1>3. TypeOK'
    BY <1>1 DEF TypeOK, RestOK
  <1>4. ASSUME NEW v \in Workers, Busy(v)'
        PROVE  (Fits(h[v]) /\ OwnEntry(h[v]))'
    <2>1. CASE v = w
      BY <1>2, <1>4, <2>1 DEF Busy, Idle, Fits, OwnEntry
    <2>2. CASE v # w
      BY <1>2, <1>4, <2>2 DEF Busy, Fits, OwnEntry, HandlingInv
    <2> QED BY <2>1, <2>2
  <1> QED BY <1>3, <1>4 DEF HandlingInv

\* ... and the Stream is unchanged.
LEMMA HandlingContinues ==
    ASSUME HandlingInv, RestOK', NEW w \in Workers, NEW q, Busy(w), Go(w, q),
           q = Idle \/ Continues(q, h[w]), stream' = stream
    PROVE  HandlingInv'
  <1>1. q # Idle /\ q.msg \in DOMAIN stream =>
           stream[q.msg].win = q.job.win /\ stream[q.msg].ends = q.job.ends
    BY DEF HandlingInv, OwnEntry, Continues
  <1>2. q = Idle \/ (q \in Handler /\ Fits(q))
    BY DEF Continues
  <1> QED BY <1>1, <1>2, HandlingStep

\* The handlers and the Stream are unchanged, but for a new entry.
LEMMA HandlingQuiet ==
    ASSUME HandlingInv, RestOK', h' = h,
           \A n \in DOMAIN stream' :
              /\ n \in DOMAIN stream => stream'[n] = stream[n]
              /\ n \notin DOMAIN stream => \A v \in Workers : Busy(v) => h[v].msg # n
    PROVE  HandlingInv'
  <1>1. TypeOK'
    BY DEF TypeOK, RestOK, HandlingInv
  <1>2. ASSUME NEW v \in Workers, Busy(v)'
        PROVE  (Fits(h[v]) /\ OwnEntry(h[v]))'
    BY <1>2 DEF Busy, Fits, OwnEntry, HandlingInv
  <1> QED BY <1>1, <1>2 DEF HandlingInv

LEMMA HandlingInit == Init => HandlingInv
  <1> SUFFICES ASSUME Init PROVE HandlingInv
    OBVIOUS
  <1>1. /\ 0 \in 0 .. MaxTime /\ 0 \in 0 .. MaxTime + Window /\ 0 \in 0 .. 2
        /\ 0 \in 0 .. MaxWindows /\ 0 \in 0 .. TooMany /\ 0 \in 0 .. MaxEdits
        /\ 0 \in 0 .. MaxMishaps
    BY Bounds DEF TooMany
  <1>2. stream \in [DOMAIN stream -> Job] /\ DOMAIN stream = {}
    BY DEF Init
  <1>3. TypeOK
    BY <1>1, <1>2, ConstantsAssumption DEF Init, TypeOK
  <1> QED BY <1>3 DEF Init, HandlingInv, Busy, Idle

LEMMA RestLemma == HandlingInv => RestOK
  BY DEF HandlingInv, TypeOK, RestOK

LEMMA HandlingProcess ==
    ASSUME HandlingInv, NEW w \in Workers, Process(w)
    PROVE  HandlingInv'
  <1>1. RestOK
    BY RestLemma
  <1>2. CASE Admit(w)
    <2>1. RestOK' /\ stream' = stream /\ Busy(w)
      BY <1>1, <1>2, AdmitLeads DEF RestOK, Admit, clocks, At, Busy
    <2> QED BY <1>2, <2>1, AdmitLeads, HandlingContinues DEF WritesBack
  <1>3. CASE Fetch(w)
    <2>1. /\ stream' = stream /\ Busy(w) /\ TypeOK
          /\ polls' = [polls EXCEPT ![h[w].job.win] =
                         IF @ = TooMany \/ "redelivered" \in spoilt THEN @ ELSE @ + 1]
      BY <1>3 DEF Fetch, At, Busy, HandlingInv
    <2>2. h[w].job.win \in 1 .. MaxWindows
      BY <2>1, BusyLemma
    <2>3. polls' \in [1 .. MaxWindows -> 0 .. TooMany]
      <3>1. PICK x : /\ x = IF polls[h[w].job.win] = TooMany \/ "redelivered" \in spoilt
                            THEN polls[h[w].job.win] ELSE polls[h[w].job.win] + 1
                     /\ polls' = [polls EXCEPT ![h[w].job.win] = x]
        BY <2>1
      <3>2. polls \in [1 .. MaxWindows -> 0 .. TooMany] /\ TooMany \in Nat
        BY <1>1, Bounds DEF RestOK, TooMany
      <3>3. x \in 0 .. TooMany
        BY <2>2, <3>1, <3>2
      <3> QED BY <2>2, <3>1, <3>2, <3>3
    <2>4. closed' \subseteq 1 .. MaxWindows
      BY <1>1, <1>3, <2>2, FetchLeads DEF RestOK
    <2>5. RestOK'
      BY <1>1, <1>3, <2>3, <2>4 DEF RestOK, Fetch, clocks
    <2> QED BY <1>3, <2>1, <2>5, FetchLeads, HandlingContinues DEF WritesBack
  <1>4. CASE Mark(w)
    <2>1. stream' = stream /\ Busy(w) /\ TypeOK
      BY <1>4 DEF Mark, At, Busy, HandlingInv
    <2>2. h[w].seen \in Versions
      BY <2>1, BusyLemma
    <2>3. spoilt' \subseteq Spoils
      BY <1>1, <1>4 DEF RestOK, Mark, Spoil, LosesAfter, Spoils
    <2>4. RestOK'
      BY <1>1, <1>4, <2>2, <2>3, MarkLeads DEF RestOK, Mark, clocks
    <2> QED BY <1>4, <2>1, <2>4, MarkLeads, HandlingContinues DEF WritesBack
  <1>5. CASE Emit(w)
    <2>1. stream' = stream /\ Busy(w) /\ TypeOK
      BY <1>5 DEF Emit, At, Busy, HandlingInv
    <2>2. h[w].seen \in Versions
      BY <2>1, BusyLemma
    <2>3. spoilt' \subseteq Spoils
      BY <1>1, <1>5 DEF RestOK, Emit, Spoil, LosesAfter, Spoils
    <2>4. updates' \in [Versions -> 0 .. 2]
      BY <1>1, <1>5, <2>2 DEF RestOK, Emit
    <2>5. RestOK'
      BY <1>1, <1>5, <2>2, <2>3, <2>4, EmitLeads DEF RestOK, Emit, clocks
    <2> QED BY <1>5, <2>1, <2>5, EmitLeads, HandlingContinues DEF WritesBack
  <1>6. CASE Ack(w)
    <2>1. Busy(w) /\ stream' = [m \in DOMAIN stream \ {h[w].msg} |-> stream[m]]
      BY <1>6 DEF Ack, At, Busy
    <2>2. spoilt' \subseteq Spoils
      BY <1>1, <1>6 DEF RestOK, Ack, Spoil, LosesAfter, Spoils
    <2>3. /\ DOMAIN stream' \subseteq MsgIds /\ stream' \in [DOMAIN stream' -> Job]
          /\ \A n \in DOMAIN stream' : n \in DOMAIN stream /\ stream'[n] = stream[n]
          /\ h[w].msg \notin DOMAIN stream'
      BY <1>1, <2>1 DEF RestOK
    <2>4. RestOK'
      BY <1>1, <1>6, <2>2, <2>3, AckLeads DEF RestOK, Ack, clocks
    <2>5. PICK q : Go(w, q) /\ (q = Idle \/ Continues(q, h[w]))
      BY <1>6, AckLeads
    <2>6. (q = Idle \/ (q \in Handler /\ Fits(q))) /\ (q # Idle => q.msg \notin DOMAIN stream')
      BY <2>3, <2>5 DEF Continues
    <2> QED BY <2>3, <2>4, <2>5, <2>6, HandlingStep
  <1>7. CASE WriteBack(w)
    <2>1. spoilt' \subseteq Spoils
      BY <1>1, <1>7 DEF RestOK, WriteBack
    <2>2. RestOK'
      BY <1>1, <1>7, WriteBackLeads DEF RestOK, WriteBack, clocks
    <2>3. PICK q : q = Idle /\ Go(w, q)
      BY <1>7, WriteBackLeads
    <2>4. \A n \in DOMAIN stream' :
             /\ n \in DOMAIN stream => stream'[n] = stream[n]
             /\ n \notin DOMAIN stream => \A v \in Workers \ {w} : Busy(v) => h[v].msg # n
      BY <1>7, WriteBackLeads
    <2> QED BY <2>2, <2>3, <2>4, HandlingStep
  <1>8. CASE MoveToDlq(w)
    <2>1. Busy(w) /\ stream' = stream /\ TypeOK /\ Reply(w, Idle)
      BY <1>8 DEF MoveToDlq, At, Busy, HandlingInv
    <2>2. h[w].job.win \in 1 .. MaxWindows
      BY <2>1, BusyLemma
    <2>3. Go(w, Idle) /\ mishaps' \in 0 .. MaxMishaps
      BY <2>1, ReplyLemma
    <2>4. RestOK'
      BY <1>1, <1>8, <2>2, <2>3 DEF RestOK, MoveToDlq, clocks
    <2> QED BY <2>1, <2>3, <2>4, HandlingContinues
  <1> QED BY <1>2, <1>3, <1>4, <1>5, <1>6, <1>7, <1>8 DEF Process

LEMMA HandlingNext == HandlingInv /\ [Next]_vars => HandlingInv'
  <1> SUFFICES ASSUME HandlingInv, [Next]_vars PROVE HandlingInv'
    OBVIOUS
  <1>1. RestOK /\ TypeOK
    BY RestLemma DEF HandlingInv
  <1>2. ASSUME NEW u \in Versions, Edit(u)
        PROVE  HandlingInv'
    <2>1. RestOK'
      BY <1>1, <1>2, Bounds DEF RestOK, Edit
    <2> QED BY <1>2, <2>1, HandlingQuiet DEF Edit
  <1>3. ASSUME NEW u \in Versions, Activity(u)
        PROVE  HandlingInv'
    <2>1. now + Window \in 0 .. MaxTime + Window
      BY <1>1, Bounds DEF RestOK
    <2>2. /\ claim' \in 0 .. MaxTime + Window /\ windows' \in 0 .. MaxWindows
          /\ opening' \in Job \cup {NoJob} /\ spoilt' \subseteq Spoils /\ local' \in Versions
      BY <1>1, <1>3, <2>1, Bounds, ActivityLeads DEF RestOK, Spoils
    <2>3. RestOK'
      BY <1>1, <1>3, <2>2 DEF RestOK, Activity, clocks
    <2> QED BY <1>3, <2>3, HandlingQuiet DEF Activity
  <1>4. CASE OpenWindow
    <2>1. RestOK'
      BY <1>1, <1>4, OpenWindowLeads DEF RestOK, OpenWindow, clocks, Spoils
    <2> QED BY <1>4, <2>1, OpenWindowLeads, HandlingQuiet DEF OpenWindow
  <1>5. ASSUME NEW w \in Workers, Process(w)
        PROVE  HandlingInv'
    BY <1>5, HandlingProcess
  <1>6. ASSUME NEW w \in Workers, CallFails(w)
        PROVE  HandlingInv'
    <2>1. RestOK'
      BY <1>1, <1>6, Bounds DEF RestOK, CallFails, clocks, Loses, Spoils
    <2> QED BY <1>6, <2>1, HandlingContinues DEF CallFails
  <1>7. ASSUME NEW w \in Workers, NEW m \in MsgIds, Receive(w, m)
        PROVE  HandlingInv'
    <2>1. stream[m].win \in 1 .. MaxWindows /\ stream' = stream
      BY <1>7, ReceiveLeads DEF Job, Receive
    <2>2. spoilt' = spoilt \/ spoilt' = spoilt \cup {"redelivered"}
      BY <1>7, ReceiveLeads
    <2>3. spoilt' \subseteq Spoils
      BY <1>1, <2>2 DEF RestOK, Spoils
    <2>4. mishaps' = mishaps \/ (mishaps < MaxMishaps /\ mishaps' = mishaps + 1)
      BY <1>7, ReceiveLeads
    <2>5. mishaps' \in 0 .. MaxMishaps
      BY <1>1, <2>4, Bounds DEF RestOK
    <2>6. closed' \subseteq 1 .. MaxWindows
      BY <1>1, <1>7, <2>1, ReceiveLeads DEF RestOK
    <2>7. RestOK'
      BY <1>1, <1>7, <2>3, <2>5, <2>6 DEF RestOK, Receive, clocks
    <2> QED BY <1>7, <2>1, <2>7, ReceiveLeads, HandlingStep
  <1>8. CASE Tick
    <2>1. RestOK'
      BY <1>1, <1>8, Bounds DEF RestOK, Tick
    <2> QED BY <1>8, <2>1, HandlingQuiet DEF Tick
  <1>9. CASE Crash
    <2>1. PICK W \in SUBSET {w \in Workers : Busy(w)} :
              /\ h' = [w \in Workers |-> IF w \in W THEN Idle ELSE h[w]]
              /\ spoilt' = spoilt \cup UNION {Loses(h[w]) : w \in W}
      BY <1>9 DEF Crash
    <2>2. \A w \in W : Loses(h[w]) \subseteq Spoils
      BY DEF Loses, Spoils
    <2>3. RestOK'
      <3>1. spoilt' \subseteq Spoils
        BY <1>1, <2>1, <2>2 DEF RestOK
      <3>2. mishaps' \in 0 .. MaxMishaps
        BY <1>1, <1>9, Bounds DEF RestOK, Crash
      <3> QED BY <1>1, <1>9, <3>1, <3>2 DEF RestOK, Crash, clocks
    <2>4. TypeOK'
      BY <1>1, <2>1, <2>3 DEF TypeOK, RestOK
    <2>5. ASSUME NEW v \in Workers, Busy(v)'
          PROVE  (Fits(h[v]) /\ OwnEntry(h[v]))'
      <3>1. h'[v] = h[v] /\ Busy(v) /\ stream' = stream
        BY <1>9, <2>1, <2>5 DEF Busy, Idle, Crash
      <3> QED BY <3>1 DEF Fits, OwnEntry, HandlingInv
    <2> QED BY <2>4, <2>5 DEF HandlingInv
  <1>10. CASE UNCHANGED vars
    <2>1. RestOK'
      BY <1>1, <1>10 DEF RestOK, vars, clocks
    <2> QED BY <1>10, <2>1, HandlingQuiet DEF vars
  <1> QED BY <1>2, <1>3, <1>4, <1>5, <1>6, <1>7, <1>8, <1>9, <1>10 DEF Next

\* Handlers work on their own entries: the common part of what follows.
THEOREM HandlingInvariant == Spec => []HandlingInv
  BY HandlingInit, HandlingNext, PTL DEF Spec

\* Every variable keeps its type whatever the handlers, the origin, the clock
\* and the failures do; the bounds on attempts and polls are part of it.
THEOREM TypeCorrect == Spec => []TypeOK
  <1>1. HandlingInv => TypeOK
    BY DEF HandlingInv
  <1> QED BY <1>1, HandlingInvariant, PTL

-----------------------------------------------------------------------------
\* OnceInv is inductive

\* No handler begins to enqueue an update.
LEMMA OnceQuiet ==
    ASSUME OnceInv, updates' = updates, applied' = applied,
           \A v \in Workers : h'[v].pc = "emit" => h'[v] = h[v]
    PROVE  OnceInv'
  BY DEF OnceInv, EachVersionOnce, At

\* A handler w goes on to q, which does not enqueue an update.
LEMMA OnceGo ==
    ASSUME TypeOK, OnceInv, updates' = updates, applied' = applied,
           NEW w \in Workers, NEW q, Go(w, q), q.pc # "emit"
    PROVE  OnceInv'
  <1>1. h'[w] = q /\ \A v \in Workers : v # w => h'[v] = h[v]
    BY GoLemma
  <1>2. \A v \in Workers : h'[v].pc = "emit" => h'[v] = h[v]
    BY <1>1
  <1> QED BY <1>2, OnceQuiet

LEMMA OnceMark ==
    ASSUME HandlingInv, OnceInv, NEW w \in Workers, Mark(w)
    PROVE  OnceInv'
  <1>1. TypeOK /\ Busy(w) /\ updates' = updates /\ applied' = applied \cup {h[w].seen}
    BY DEF HandlingInv, Mark, At, Busy
  <1>2. PICK q : /\ Go(w, q)
                 /\ \/ q.pc # "emit"
                    \/ h[w].seen \notin applied /\ q.pc = "emit" /\ q.seen = h[w].seen
    BY MarkLeads DEF WritesBack, Idle
  <1>3. h'[w] = q /\ \A v \in Workers : v # w => h'[v] = h[v]
    BY <1>1, <1>2, GoLemma
  <1>4. \A v \in Versions \ applied' : updates'[v] = 0
    BY <1>1 DEF OnceInv
  <1>5. EachVersionOnce'
    BY <1>1 DEF OnceInv, EachVersionOnce
  <1>6. h[w].seen \in Versions
    BY <1>1, BusyLemma
  <1>7. ASSUME NEW v \in Workers, h'[v].pc = "emit"
        PROVE  /\ h'[v].seen \in applied' /\ updates'[h'[v].seen] = 0
               /\ \A u \in Workers : h'[u].pc = "emit" /\ h'[u].seen = h'[v].seen => u = v
    <2>1. CASE v = w
      BY <1>1, <1>2, <1>3, <1>6, <1>7, <2>1 DEF OnceInv, At
    <2>2. CASE v # w
      BY <1>1, <1>2, <1>3, <1>7, <2>2 DEF OnceInv, At
    <2> QED BY <2>1, <2>2
  <1> QED BY <1>4, <1>5, <1>7 DEF OnceInv, At

LEMMA OnceEmit ==
    ASSUME HandlingInv, OnceInv, NEW w \in Workers, Emit(w)
    PROVE  OnceInv'
  <1>1. /\ TypeOK /\ Busy(w) /\ At(w, "emit") /\ applied' = applied
        /\ updates' = [updates EXCEPT ![h[w].seen] = IF @ = 2 THEN 2 ELSE @ + 1]
    BY DEF HandlingInv, Emit, At, Busy
  <1>2. PICK q : Go(w, q) /\ q.pc # "emit"
    BY EmitLeads DEF WritesBack, Idle
  <1>3. h'[w] = q /\ \A v \in Workers : v # w => h'[v] = h[v]
    BY <1>1, <1>2, GoLemma
  <1>4. h[w].seen \in applied /\ updates[h[w].seen] = 0 /\ h[w].seen \in Versions
    BY <1>1, BusyLemma DEF OnceInv
  <1>5. /\ updates'[h[w].seen] = 1
        /\ \A v \in Versions : v # h[w].seen => updates'[v] = updates[v]
    BY <1>1, <1>4 DEF TypeOK
  <1>6. EachVersionOnce'
    BY <1>5 DEF OnceInv, EachVersionOnce
  <1>7. \A v \in Versions \ applied' : updates'[v] = 0
    BY <1>1, <1>4, <1>5 DEF OnceInv
  <1>8. ASSUME NEW v \in Workers, h'[v].pc = "emit"
        PROVE  /\ h'[v].seen \in applied' /\ updates'[h'[v].seen] = 0
               /\ \A u \in Workers : h'[u].pc = "emit" /\ h'[u].seen = h'[v].seen => u = v
    <2>1. v # w /\ h'[v] = h[v] /\ At(v, "emit") /\ Busy(v)
      BY <1>2, <1>3, <1>8 DEF At, Busy
    <2>2. h[v].seen # h[w].seen /\ h[v].seen \in Versions
      BY <1>1, <2>1, BusyLemma DEF OnceInv
    <2>3. updates'[h[v].seen] = 0 /\ h[v].seen \in applied'
      BY <1>1, <1>5, <2>1, <2>2 DEF OnceInv
    <2>4. \A u \in Workers : h'[u].pc = "emit" /\ h'[u].seen = h'[v].seen => u = v
      BY <1>2, <1>3, <2>1 DEF OnceInv, At
    <2> QED BY <2>1, <2>3, <2>4
  <1> QED BY <1>6, <1>7, <1>8 DEF OnceInv, At

LEMMA OnceNext == HandlingInv /\ OnceInv /\ [Next]_vars => OnceInv'
  <1> SUFFICES ASSUME HandlingInv, OnceInv, [Next]_vars PROVE OnceInv'
    OBVIOUS
  <1>1. TypeOK
    BY DEF HandlingInv
  <1>2. ASSUME NEW u \in Versions, Edit(u) \/ Activity(u)
        PROVE  OnceInv'
    BY <1>2, OnceQuiet DEF Edit, Activity
  <1>3. CASE OpenWindow \/ Tick \/ UNCHANGED vars
    BY <1>3, OnceQuiet DEF OpenWindow, Tick, vars
  <1>4. ASSUME NEW w \in Workers, Admit(w)
        PROVE  OnceInv'
    <2>1. PICK q : Go(w, q) /\ q.pc # "emit"
      BY <1>4, AdmitLeads DEF WritesBack, Idle
    <2> QED BY <1>1, <1>4, <2>1, OnceGo DEF Admit
  <1>5. ASSUME NEW w \in Workers, Fetch(w)
        PROVE  OnceInv'
    <2>1. PICK q : Go(w, q) /\ q.pc # "emit"
      BY <1>5, FetchLeads DEF WritesBack
    <2> QED BY <1>1, <1>5, <2>1, OnceGo DEF Fetch
  <1>6. ASSUME NEW w \in Workers, Ack(w)
        PROVE  OnceInv'
    <2>1. h[w] \in Handler
      BY <1>1, <1>6, BusyLemma DEF Ack, At, Busy
    <2>2. PICK q : Go(w, q) /\ q.pc # "emit"
      BY <1>6, <2>1, AckLeads DEF Handler, Idle
    <2> QED BY <1>1, <1>6, <2>2, OnceGo DEF Ack
  <1>7. ASSUME NEW w \in Workers, WriteBack(w)
        PROVE  OnceInv'
    BY <1>1, <1>7, WriteBackLeads, OnceGo DEF WriteBack, Idle
  <1>8. ASSUME NEW w \in Workers, MoveToDlq(w)
        PROVE  OnceInv'
    <2>1. PICK q : q = Idle /\ Reply(w, q)
      BY <1>8 DEF MoveToDlq
    <2> QED BY <1>1, <1>8, <2>1, ReplyLemma, OnceGo DEF MoveToDlq, Idle
  <1>9. ASSUME NEW w \in Workers, CallFails(w)
        PROVE  OnceInv'
    BY <1>1, <1>9, OnceGo DEF CallFails, Idle
  <1>10. ASSUME NEW w \in Workers, NEW m \in MsgIds, Receive(w, m)
         PROVE  OnceInv'
    <2>1. PICK q : Go(w, q) /\ q.pc # "emit"
      BY <1>10, ReceiveLeads
    <2> QED BY <1>1, <1>10, <2>1, OnceGo DEF Receive
  <1>11. CASE Crash
    BY <1>11, OnceQuiet DEF Crash, Idle
  <1> QED
    BY <1>2, <1>3, <1>4, <1>5, <1>6, <1>7, <1>8, <1>9, <1>10, <1>11, OnceMark, OnceEmit
       DEF Next, Process

\* A version that is not marked has no update yet, and at most one handler is
\* between the mark of a version and its update.
THEOREM OnceInvariant == Spec => []OnceInv
  <1>1. Init => OnceInv
    BY DEF Init, OnceInv, EachVersionOnce, At, Idle
  <1> QED BY <1>1, OnceNext, HandlingInvariant, PTL DEF Spec

\* markOriginReconciliationApplied before enqueueSyntheticUpdate: a version of
\* the object is handed to the inbound pipeline at most once, whichever
\* handlers poll it, fail, crash and are redelivered.
THEOREM VersionsOnce == Spec => []EachVersionOnce
  <1>1. OnceInv => EachVersionOnce
    BY DEF OnceInv
  <1> QED BY <1>1, OnceInvariant, PTL

-----------------------------------------------------------------------------
\* EndsInv is inductive

\* No window leaves Pending but closed, or with a job lost.
LEMMA EndsStep ==
    ASSUME EndsInv, windows' = windows, closed \subseteq closed', spoilt \subseteq spoilt',
           \A v \in Workers : h'[v].pc = "ack" /\ h'[v].then # "enqueue" =>
              h'[v].job.win \in closed',
           "chain" \notin spoilt' => \A n \in 1 .. windows : n \in Pending => n \in Pending' \cup closed'
    PROVE  EndsInv'
  <1>1. ASSUME NEW n \in 1 .. windows', "chain" \notin spoilt'
        PROVE  n \in Pending' \cup closed'
    <2>1. n \in Pending \cup closed
      BY <1>1 DEF EndsInv, EndsOnPurpose
    <2> QED BY <1>1, <2>1
  <1> QED BY <1>1 DEF EndsInv, EndsOnPurpose, At

\* A handler w goes on to q; the Stream is unchanged.
LEMMA EndsGo ==
    ASSUME TypeOK, EndsInv, NEW w \in Workers, NEW q, Go(w, q),
           windows' = windows, stream' = stream, opening' = opening,
           closed \subseteq closed', spoilt \subseteq spoilt',
           h[w].pc = "enqueue" => "chain" \in spoilt',
           q.pc = "ack" /\ q.then # "enqueue" => q.job.win \in closed'
    PROVE  EndsInv'
  <1>1. h'[w] = q /\ \A v \in Workers : v # w => h'[v] = h[v]
    BY GoLemma
  <1>2. \A v \in Workers : h'[v].pc = "ack" /\ h'[v].then # "enqueue" => h'[v].job.win \in closed'
    BY <1>1 DEF EndsInv, At
  <1>3. ASSUME "chain" \notin spoilt', NEW n \in 1 .. windows, n \in Pending
        PROVE  n \in Pending'
    BY <1>1, <1>3 DEF Pending, At, Busy
  <1> QED BY <1>2, <1>3, EndsStep

LEMMA EndsQuiet ==
    ASSUME EndsInv, h' = h, windows' = windows, stream' = stream, opening' = opening,
           closed' = closed, spoilt \subseteq spoilt'
    PROVE  EndsInv'
  <1>1. Pending' = Pending
    BY DEF Pending, At, Busy
  <1>2. \A v \in Workers : h'[v].pc = "ack" /\ h'[v].then # "enqueue" => h'[v].job.win \in closed'
    BY DEF EndsInv, At
  <1> QED BY <1>1, <1>2, EndsStep

LEMMA EndsAck ==
    ASSUME HandlingInv, EndsInv, NEW w \in Workers, Ack(w)
    PROVE  EndsInv'
  <1>1. /\ TypeOK /\ Busy(w) /\ h[w].pc = "ack" /\ windows' = windows /\ opening' = opening
        /\ closed' = closed /\ stream' = [m \in DOMAIN stream \ {h[w].msg} |-> stream[m]]
        /\ spoilt' = spoilt \cup (IF mishaps' > mishaps THEN LosesAfter(h[w]) ELSE {})
    BY DEF HandlingInv, Ack, At, Busy, Spoil
  <1>2. h[w] \in Handler /\ mishaps \in Nat
    BY <1>1, BusyLemma DEF TypeOK
  <1>3. PICK q : /\ Go(w, q) /\ q.pc # "ack"
                 /\ \/ mishaps' = mishaps + 1
                    \/ h[w].then # "enqueue"
                    \/ q.pc = "enqueue" /\ q.job = h[w].job
    BY <1>2, AckLeads DEF Handler, Idle
  <1>4. h'[w] = q /\ \A v \in Workers : v # w => h'[v] = h[v]
    BY <1>1, <1>3, GoLemma
  <1>5. \A v \in Workers : h'[v].pc = "ack" /\ h'[v].then # "enqueue" => h'[v].job.win \in closed'
    BY <1>1, <1>3, <1>4 DEF EndsInv, At
  <1>6. ASSUME "chain" \notin spoilt', NEW n \in 1 .. windows, n \in Pending
        PROVE  n \in Pending' \cup closed'
    <2>1. CASE \E m \in DOMAIN stream' : stream[m].win = n
      BY <1>1, <2>1 DEF Pending
    <2>2. CASE n = opening.win
      BY <1>1, <2>2 DEF Pending
    <2>3. CASE \E v \in Workers : h[v].pc = "enqueue" /\ h[v].job.win = n
      BY <1>1, <1>4, <2>3 DEF Pending, At, Busy
    <2>4. CASE h[w].msg \in DOMAIN stream /\ stream[h[w].msg].win = n
      <3>1. h[w].job.win = n
        BY <1>1, <2>4 DEF HandlingInv, OwnEntry
      <3>2. CASE h[w].then # "enqueue"
        BY <1>1, <3>1, <3>2 DEF EndsInv, At
      <3>3. CASE h[w].then = "enqueue"
        <4>1. mishaps' # mishaps + 1
          BY <1>1, <1>2, <1>6, <3>3 DEF LosesAfter
        <4> QED BY <1>3, <1>4, <3>1, <3>3, <4>1 DEF Pending, At, Busy
      <3> QED BY <3>2, <3>3
    <2> QED BY <1>1, <1>6, <2>1, <2>2, <2>3, <2>4 DEF Pending, At, Busy
  <1> QED BY <1>1, <1>5, <1>6, EndsStep

LEMMA EndsWriteBack ==
    ASSUME HandlingInv, EndsInv, NEW w \in Workers, WriteBack(w)
    PROVE  EndsInv'
  <1>1. /\ TypeOK /\ windows' = windows /\ opening' = opening /\ closed' = closed
        /\ spoilt' = spoilt
    BY DEF HandlingInv, WriteBack
  <1>2. PICK q : Go(w, q) /\ q.pc = "idle"
    BY WriteBackLeads DEF Idle
  <1>3. h'[w] = q /\ \A v \in Workers : v # w => h'[v] = h[v]
    BY <1>1, <1>2, GoLemma
  <1>4. PICK m \in MsgIds : /\ DOMAIN stream' = DOMAIN stream \cup {m} /\ stream'[m] = h[w].job
                            /\ \A n \in DOMAIN stream : stream'[n] = stream[n]
    BY WriteBackLeads
  <1>5. \A v \in Workers : h'[v].pc = "ack" /\ h'[v].then # "enqueue" => h'[v].job.win \in closed'
    BY <1>1, <1>2, <1>3 DEF EndsInv, At
  <1>6. ASSUME NEW n \in 1 .. windows, n \in Pending
        PROVE  n \in Pending'
    BY <1>1, <1>3, <1>4, <1>6 DEF Pending, At, Busy
  <1> QED BY <1>1, <1>5, <1>6, EndsStep

LEMMA EndsOpenWindow ==
    ASSUME HandlingInv, EndsInv, OpenWindow
    PROVE  EndsInv'
  <1>1. windows' = windows /\ closed' = closed /\ h' = h /\ spoilt \subseteq spoilt'
    BY OpenWindowLeads DEF OpenWindow
  <1>2. \A v \in Workers : h'[v].pc = "ack" /\ h'[v].then # "enqueue" => h'[v].job.win \in closed'
    BY <1>1 DEF EndsInv, At
  <1>3. ASSUME "chain" \notin spoilt', NEW n \in 1 .. windows, n \in Pending
        PROVE  n \in Pending'
    <2>1. PICK m \in MsgIds : /\ DOMAIN stream' = DOMAIN stream \cup {m} /\ stream'[m] = opening
                              /\ \A k \in DOMAIN stream : stream'[k] = stream[k]
      BY <1>3, OpenWindowLeads
    <2> QED BY <1>1, <1>3, <2>1 DEF Pending, At, Busy
  <1> QED BY <1>1, <1>2, <1>3, EndsStep

LEMMA EndsActivity ==
    ASSUME HandlingInv, EndsInv, NEW u \in Versions, Activity(u)
    PROVE  EndsInv'
  <1>1. /\ stream' = stream /\ h' = h /\ closed' = closed /\ windows \in Nat
        /\ opening.win = 0
    BY ActivityLeads DEF HandlingInv, TypeOK, Activity, NoJob
  <1>2. CASE windows' = windows /\ opening' = opening /\ spoilt' = spoilt \cup {"overtaken"}
    BY <1>1, <1>2, EndsQuiet
  <1>3. CASE windows' = windows + 1 /\ opening'.win = windows + 1 /\ spoilt' = spoilt
    <2>1. ASSUME NEW n \in 1 .. windows', "chain" \notin spoilt'
          PROVE  n \in Pending' \cup closed'
      <3>1. CASE n = windows + 1
        BY <1>3, <3>1 DEF Pending
      <3>2. CASE n # windows + 1
        <4>1. n \in 1 .. windows
          BY <1>1, <1>3, <3>2
        <4>2. n \in Pending \cup closed /\ n # opening.win
          BY <1>1, <1>3, <2>1, <4>1 DEF EndsInv, EndsOnPurpose
        <4> QED BY <1>1, <4>2 DEF Pending, At, Busy
      <3> QED BY <3>1, <3>2
    <2> QED BY <1>1, <2>1 DEF EndsInv, EndsOnPurpose, At
  <1> QED BY <1>2, <1>3, ActivityLeads

LEMMA EndsNext == HandlingInv /\ EndsInv /\ [Next]_vars => EndsInv'
  <1> SUFFICES ASSUME HandlingInv, EndsInv, [Next]_vars PROVE EndsInv'
    OBVIOUS
  <1>1. TypeOK
    BY DEF HandlingInv
  <1>2. ASSUME NEW u \in Versions, Edit(u)
        PROVE  EndsInv'
    BY <1>2, EndsQuiet DEF Edit
  <1>3. CASE Tick \/ UNCHANGED vars
    BY <1>3, EndsQuiet DEF Tick, vars
  <1>4. ASSUME NEW w \in Workers, Admit(w)
        PROVE  EndsInv'
    <2>1. PICK q : Go(w, q) /\ (q.pc # "ack" \/ q.then = "enqueue")
      BY <1>4, AdmitLeads DEF WritesBack, Idle
    <2> QED BY <1>1, <1>4, <2>1, EndsGo DEF Admit, At
  <1>5. ASSUME NEW w \in Workers, Fetch(w)
        PROVE  EndsInv'
    <2>1. PICK q : /\ Go(w, q) /\ closed \subseteq closed'
                   /\ q.pc # "ack" \/ q.then = "enqueue" \/ q.job.win \in closed'
      BY <1>5, FetchLeads DEF WritesBack
    <2> QED BY <1>1, <1>5, <2>1, EndsGo DEF Fetch, At
  <1>6. ASSUME NEW w \in Workers, Mark(w)
        PROVE  EndsInv'
    <2>1. PICK q : Go(w, q) /\ (q.pc # "ack" \/ q.then = "enqueue")
      BY <1>6, MarkLeads DEF WritesBack, Idle
    <2>2. spoilt \subseteq spoilt'
      BY <1>6 DEF Mark, Spoil
    <2> QED BY <1>1, <1>6, <2>1, <2>2, EndsGo DEF Mark, At
  <1>7. ASSUME NEW w \in Workers, Emit(w)
        PROVE  EndsInv'
    <2>1. PICK q : Go(w, q) /\ (q.pc # "ack" \/ q.then = "enqueue")
      BY <1>7, EmitLeads DEF WritesBack, Idle
    <2>2. spoilt \subseteq spoilt'
      BY <1>7 DEF Emit, Spoil
    <2> QED BY <1>1, <1>7, <2>1, <2>2, EndsGo DEF Emit, At
  <1>8. ASSUME NEW w \in Workers, MoveToDlq(w)
        PROVE  EndsInv'
    <2>1. PICK q : q = Idle /\ Reply(w, q)
      BY <1>8 DEF MoveToDlq
    <2> QED BY <1>1, <1>8, <2>1, ReplyLemma, EndsGo DEF MoveToDlq, Idle, At
  <1>9. ASSUME NEW w \in Workers, CallFails(w)
        PROVE  EndsInv'
    <2>1. spoilt \subseteq spoilt' /\ (h[w].pc = "enqueue" => "chain" \in spoilt')
      BY <1>9 DEF CallFails, Loses
    <2>2. PICK q : q = Idle /\ Go(w, q)
      BY <1>9 DEF CallFails
    <2> QED BY <1>1, <1>9, <2>1, <2>2, EndsGo DEF CallFails, Idle
  <1>10. ASSUME NEW w \in Workers, NEW m \in MsgIds, Receive(w, m)
         PROVE  EndsInv'
    <2>1. PICK q : /\ Go(w, q) /\ closed \subseteq closed'
                   /\ q.pc # "ack" \/ q.then = "enqueue" \/ q.job.win \in closed'
      BY <1>10, ReceiveLeads
    <2>2. spoilt \subseteq spoilt' /\ h[w].pc # "enqueue"
      BY <1>10, ReceiveLeads DEF Busy
    <2> QED BY <1>1, <1>10, <2>1, <2>2, EndsGo DEF Receive
  <1>11. CASE Crash
    <2>1. PICK W \in SUBSET {w \in Workers : Busy(w)} :
              /\ h' = [w \in Workers |-> IF w \in W THEN Idle ELSE h[w]]
              /\ spoilt' = spoilt \cup UNION {Loses(h[w]) : w \in W}
      BY <1>11 DEF Crash
    <2>2. /\ windows' = windows /\ stream' = stream /\ opening' = opening /\ closed' = closed
          /\ spoilt \subseteq spoilt'
      BY <1>11, <2>1 DEF Crash, clocks
    <2>3. \A v \in Workers : h'[v].pc = "ack" /\ h'[v].then # "enqueue" => h'[v].job.win \in closed'
      BY <2>1, <2>2 DEF EndsInv, At, Idle
    <2>4. ASSUME "chain" \notin spoilt', NEW n \in 1 .. windows, n \in Pending
          PROVE  n \in Pending'
      <3>1. \A w \in W : h[w].pc # "enqueue"
        BY <2>1, <2>4 DEF Loses
      <3> QED BY <2>1, <2>2, <2>4, <3>1 DEF Pending, At, Busy
    <2> QED BY <2>2, <2>3, <2>4, EndsStep
  <1> QED
    BY <1>2, <1>3, <1>4, <1>5, <1>6, <1>7, <1>8, <1>9, <1>10, <1>11, EndsAck, EndsWriteBack,
       EndsOpenWindow, EndsActivity DEF Next, Process

\* A handler acknowledges an entry without a successor only when a stop condition
\* has closed its window.
THEOREM EndsInvariant == Spec => []EndsInv
  <1>1. Init => EndsInv
    BY DEF Init, EndsInv, EndsOnPurpose, At, Idle
  <1> QED BY <1>1, EndsNext, HandlingInvariant, PTL DEF Spec

\* A window stops polling only by a stop condition of processJob (expired,
\* polls used up, unchanged, gone, refused), or because its job was lost
\* between the acknowledgement and the write-back, or before its first job.
THEOREM WindowsEndOnPurpose == Spec => []EndsOnPurpose
  <1>1. EndsInv => EndsOnPurpose
    BY DEF EndsInv
  <1> QED BY <1>1, EndsInvariant, PTL

-----------------------------------------------------------------------------
\* CurrentInv is inductive

\* A handler w goes on to q with the job it had or takes an entry; it may
\* write its job back.
LEMMA CurrentGo ==
    ASSUME TypeOK, CurrentInv, NEW w \in Workers, NEW q, Go(w, q),
           now' = now, claim' = claim, windows' = windows, opening' = opening,
           \A m \in DOMAIN stream' :
              \/ m \in DOMAIN stream /\ stream'[m] = stream[m]
              \/ Busy(w) /\ stream'[m] = h[w].job,
           \/ q = Idle
           \/ Busy(w) /\ Continues(q, h[w])
           \/ \E m \in DOMAIN stream : q.job = stream[m]
    PROVE  CurrentInv'
  <1>1. h'[w] = q /\ \A v \in Workers : v # w => h'[v] = h[v]
    BY GoLemma
  <1>2. \A m \in DOMAIN stream' : Current(stream[m])'
    BY DEF CurrentInv, Current
  <1>3. ASSUME NEW v \in Workers, Busy(v)'
        PROVE  Current(h[v].job)'
    <2>1. CASE v # w
      BY <1>1, <1>3, <2>1 DEF CurrentInv, Current, Busy
    <2>2. CASE v = w
      BY <1>1, <1>3, <2>2 DEF CurrentInv, Current, Busy, Idle, Continues
    <2> QED BY <2>1, <2>2
  <1>4. (opening # NoJob => opening.win = windows /\ Current(opening))'
    BY DEF CurrentInv, Current
  <1> QED BY <1>2, <1>3, <1>4 DEF CurrentInv

LEMMA CurrentQuiet ==
    ASSUME CurrentInv, now' = now, claim' = claim, windows' = windows, opening' = opening,
           stream' = stream, \A v \in Workers : h'[v] = h[v] \/ h'[v] = Idle
    PROVE  CurrentInv'
  <1>1. \A m \in DOMAIN stream' : Current(stream[m])'
    BY DEF CurrentInv, Current
  <1>2. \A v \in Workers : Busy(v)' => Current(h[v].job)'
    BY DEF CurrentInv, Current, Busy, Idle
  <1>3. (opening # NoJob => opening.win = windows /\ Current(opening))'
    BY DEF CurrentInv, Current
  <1> QED BY <1>1, <1>2, <1>3 DEF CurrentInv

LEMMA CurrentTick ==
    ASSUME TypeOK, CurrentInv, Tick
    PROVE  CurrentInv'
  <1>1. /\ now \in Nat /\ now' = now + 1 /\ claim' = (IF claim <= now + 1 THEN 0 ELSE claim)
        /\ windows' = windows /\ opening' = opening /\ stream' = stream /\ h' = h
        /\ claim \in Nat
    BY Bounds DEF TypeOK, Tick
  <1>2. ASSUME NEW j \in Job, Current(j)
        PROVE  Current(j)'
    <2>1. j.ends \in Nat
      BY Bounds DEF Job
    <2> QED BY <1>1, <1>2, <2>1 DEF Current
  <1>3. ASSUME NEW m \in DOMAIN stream'
        PROVE  Current(stream[m])'
    <2>1. PICK j \in Job : j = stream[m] /\ Current(j)
      BY <1>1, <1>3 DEF CurrentInv, TypeOK
    <2> QED BY <1>1, <1>2, <2>1 DEF Current
  <1>4. ASSUME NEW v \in Workers, Busy(v)'
        PROVE  Current(h[v].job)'
    <2>1. PICK j \in Job : j = h[v].job /\ Current(j)
      BY <1>1, <1>4, BusyLemma DEF CurrentInv, Busy
    <2> QED BY <1>1, <1>2, <2>1 DEF Current
  <1>5. ASSUME opening # NoJob
        PROVE  (opening.win = windows /\ Current(opening))'
    <2>1. PICK j \in Job : j = opening /\ Current(j) /\ j.win = windows
      BY <1>1, <1>5 DEF CurrentInv, TypeOK
    <2> QED BY <1>1, <1>2, <2>1 DEF Current
  <1> QED BY <1>1, <1>3, <1>4, <1>5 DEF CurrentInv

LEMMA CurrentActivity ==
    ASSUME HandlingInv, CurrentInv, NEW u \in Versions, Activity(u)
    PROVE  CurrentInv'
  <1>0. now' = now /\ stream' = stream /\ h' = h /\ TypeOK
    BY DEF HandlingInv, Activity, clocks
  <1>1. now \in Nat /\ windows \in Nat
    BY <1>0, Bounds DEF TypeOK
  <1>2. CASE claim' = claim /\ windows' = windows /\ opening' = opening
    BY <1>0, <1>2, CurrentQuiet
  <1>3. CASE /\ claim = 0 /\ claim' = now + Window /\ windows' = windows + 1 /\ opening' \in Job
             /\ opening'.win = windows + 1 /\ opening'.ends = now + Window
    <2>1. ASSUME NEW j \in Job, Current(j)
          PROVE  Current(j)'
      <3>1. j.ends \in Nat /\ j.win \in Nat
        BY Bounds DEF Job
      <3> QED BY <1>0, <1>1, <1>3, <2>1, <3>1 DEF Current
    <2>2. ASSUME NEW m \in DOMAIN stream'
          PROVE  Current(stream[m])'
      <3>1. PICK j \in Job : j = stream[m] /\ Current(j)
        BY <1>0, <2>2 DEF CurrentInv, TypeOK
      <3> QED BY <1>0, <2>1, <3>1 DEF Current
    <2>3. ASSUME NEW v \in Workers, Busy(v)'
          PROVE  Current(h[v].job)'
      <3>1. PICK j \in Job : j = h[v].job /\ Current(j)
        BY <1>0, <2>3, BusyLemma DEF CurrentInv, Busy
      <3> QED BY <1>0, <2>1, <3>1 DEF Current
    <2>4. (opening.win = windows /\ Current(opening))'
      BY <1>0, <1>1, <1>3 DEF Current
    <2> QED BY <2>2, <2>3, <2>4 DEF CurrentInv
  <1> QED BY <1>2, <1>3, ActivityLeads

LEMMA CurrentOpenWindow ==
    ASSUME HandlingInv, CurrentInv, OpenWindow
    PROVE  CurrentInv'
  <1>1. /\ now' = now /\ claim' = claim /\ windows' = windows /\ h' = h
        /\ opening \in Job /\ opening' = NoJob
    BY OpenWindowLeads DEF OpenWindow, clocks
  <1>2. opening # NoJob
    BY DEF OpenWindow
  <1>3. ASSUME NEW m \in DOMAIN stream'
        PROVE  Current(stream[m])'
    <2>1. \/ m \in DOMAIN stream /\ stream'[m] = stream[m]
          \/ stream'[m] = opening
      BY <1>3, OpenWindowLeads
    <2> QED BY <1>1, <1>2, <2>1 DEF CurrentInv, Current
  <1>4. \A v \in Workers : Busy(v)' => Current(h[v].job)'
    BY <1>1 DEF CurrentInv, Current, Busy
  <1> QED BY <1>1, <1>3, <1>4 DEF CurrentInv

LEMMA CurrentNext == HandlingInv /\ CurrentInv /\ [Next]_vars => CurrentInv'
  <1> SUFFICES ASSUME HandlingInv, CurrentInv, [Next]_vars PROVE CurrentInv'
    OBVIOUS
  <1>1. TypeOK
    BY DEF HandlingInv
  <1>2. ASSUME NEW u \in Versions, Edit(u)
        PROVE  CurrentInv'
    BY <1>2, CurrentQuiet DEF Edit
  <1>3. CASE UNCHANGED vars
    BY <1>3, CurrentQuiet DEF vars, clocks
  <1>4. ASSUME NEW w \in Workers, Admit(w)
        PROVE  CurrentInv'
    BY <1>1, <1>4, AdmitLeads, CurrentGo DEF WritesBack, Admit, clocks, At, Busy
  <1>5. ASSUME NEW w \in Workers, Fetch(w)
        PROVE  CurrentInv'
    BY <1>1, <1>5, FetchLeads, CurrentGo DEF WritesBack, Fetch, clocks, At, Busy
  <1>6. ASSUME NEW w \in Workers, Mark(w)
        PROVE  CurrentInv'
    BY <1>1, <1>6, MarkLeads, CurrentGo DEF WritesBack, Mark, clocks, At, Busy
  <1>7. ASSUME NEW w \in Workers, Emit(w)
        PROVE  CurrentInv'
    BY <1>1, <1>7, EmitLeads, CurrentGo DEF WritesBack, Emit, clocks, At, Busy
  <1>8. ASSUME NEW w \in Workers, Ack(w)
        PROVE  CurrentInv'
    <2>1. \A m \in DOMAIN stream' : m \in DOMAIN stream /\ stream'[m] = stream[m]
      BY <1>8 DEF Ack
    <2>2. PICK q : Go(w, q) /\ (q = Idle \/ Continues(q, h[w]))
      BY <1>8, AckLeads
    <2> QED BY <1>1, <1>8, <2>1, <2>2, CurrentGo DEF Ack, clocks, At, Busy
  <1>9. ASSUME NEW w \in Workers, WriteBack(w)
        PROVE  CurrentInv'
    <2>1. \A m \in DOMAIN stream' : \/ m \in DOMAIN stream /\ stream'[m] = stream[m]
                                    \/ Busy(w) /\ stream'[m] = h[w].job
      BY <1>9, WriteBackLeads
    <2>2. PICK q : Go(w, q) /\ q = Idle
      BY <1>9, WriteBackLeads
    <2> QED BY <1>1, <1>9, <2>1, <2>2, CurrentGo DEF WriteBack, clocks
  <1>10. ASSUME NEW w \in Workers, MoveToDlq(w)
         PROVE  CurrentInv'
    <2>1. PICK q : q = Idle /\ Reply(w, q)
      BY <1>10 DEF MoveToDlq
    <2> QED BY <1>1, <1>10, <2>1, ReplyLemma, CurrentGo DEF MoveToDlq, clocks
  <1>11. ASSUME NEW w \in Workers, CallFails(w)
         PROVE  CurrentInv'
    <2>1. PICK q : q = Idle /\ Go(w, q)
      BY <1>11 DEF CallFails
    <2> QED BY <1>1, <1>11, <2>1, CurrentGo DEF CallFails, clocks
  <1>12. ASSUME NEW w \in Workers, NEW m \in MsgIds, Receive(w, m)
         PROVE  CurrentInv'
    BY <1>1, <1>12, ReceiveLeads, CurrentGo DEF Receive, clocks
  <1>13. CASE Crash
    <2>1. \A v \in Workers : h'[v] = h[v] \/ h'[v] = Idle
      BY <1>13 DEF Crash
    <2> QED BY <1>13, <2>1, CurrentQuiet DEF Crash, clocks
  <1> QED
    BY <1>1, <1>2, <1>3, <1>4, <1>5, <1>6, <1>7, <1>8, <1>9, <1>10, <1>11, <1>12, <1>13,
       CurrentTick, CurrentActivity, CurrentOpenWindow DEF Next, Process

\* A job whose window is not over is of the newest window, whose claim it has:
\* the claim keeps a second window from opening as long as polls may come.
THEOREM CurrentInvariant == Spec => []CurrentInv
  <1>1. Init => CurrentInv
    BY DEF Init, CurrentInv, Busy, Idle
  <1> QED BY <1>1, CurrentNext, HandlingInvariant, PTL DEF Spec

-----------------------------------------------------------------------------
\* ChainInv is inductive

\* Handlers go on idle, everything else that ChainInv is about is unchanged.
LEMMA ChainQuiet ==
    ASSUME ChainInv, spoilt \subseteq spoilt', opening' = opening, stream' = stream,
           \A v \in Workers : h'[v] = h[v] \/ h'[v] = Idle
    PROVE  ChainInv'
  <1> SUFFICES ASSUME "redelivered" \notin spoilt' PROVE ChainInv'
    BY DEF ChainInv
  <1>1. \A v \in Workers : h'[v].pc # "idle" => h'[v] = h[v]
    BY DEF Idle
  <1>2. "redelivered" \notin spoilt
    OBVIOUS
  <1> QED BY <1>1, <1>2 DEF ChainInv, Busy, At

\* A handler w goes on to q with its entry and does not acknowledge it yet.
LEMMA ChainGo ==
    ASSUME TypeOK, ChainInv, NEW w \in Workers, NEW q, Busy(w), Go(w, q),
           spoilt \subseteq spoilt', opening' = opening, stream' = stream,
           \/ q = Idle
           \/ /\ Continues(q, h[w])
              /\ h[w].pc \notin {"enqueue", "dlq"} /\ q.pc \notin {"enqueue", "dlq"}
    PROVE  ChainInv'
  <1> SUFFICES ASSUME "redelivered" \notin spoilt' PROVE ChainInv'
    BY DEF ChainInv
  <1>1. h'[w] = q /\ \A v \in Workers : v # w => h'[v] = h[v]
    BY GoLemma
  <1>2. "redelivered" \notin spoilt
    OBVIOUS
  <1>3. CASE q = Idle
    <2>1. \A v \in Workers : h'[v] = h[v] \/ h'[v] = Idle
      BY <1>1, <1>3
    <2> QED BY <2>1, ChainQuiet
  <1>4. CASE /\ Continues(q, h[w])
             /\ h[w].pc \notin {"enqueue", "dlq"} /\ q.pc \notin {"enqueue", "dlq"}
    <2>1. /\ \A v \in Workers : Busy(v)' => Busy(v) /\ h'[v].msg = h[v].msg
          /\ \A v \in Workers : h'[v].pc = "enqueue" => h[v].pc = "enqueue" /\ h'[v] = h[v]
          /\ \A v \in Workers :
                h'[v].pc \notin {"enqueue", "dlq"} <=> h[v].pc \notin {"enqueue", "dlq"}
      BY <1>1, <1>4 DEF Continues, Busy
    <2> QED BY <1>2, <2>1 DEF ChainInv, Busy, At
  <1> QED BY <1>3, <1>4

LEMMA ChainReceive ==
    ASSUME HandlingInv, ChainInv, NEW w \in Workers, NEW m \in MsgIds, Receive(w, m)
    PROVE  ChainInv'
  <1> SUFFICES ASSUME "redelivered" \notin spoilt' PROVE ChainInv'
    BY DEF ChainInv
  <1>1. /\ ~Busy(w) /\ m \in DOMAIN stream /\ \A v \in Workers : Busy(v) => h[v].msg # m
        /\ "redelivered" \notin spoilt
    BY ReceiveLeads
  <1>2. PICK q : Go(w, q) /\ q.msg = m /\ q.pc \in {"admit", "ack"}
    BY ReceiveLeads
  <1>3. h'[w] = q /\ \A v \in Workers : v # w => h'[v] = h[v]
    BY <1>2, GoLemma DEF HandlingInv
  <1>4. stream' = stream /\ opening' = opening
    BY DEF Receive
  <1>5. \A u, v \in Workers : Busy(u)' /\ Busy(v)' /\ h'[u].msg = h'[v].msg => u = v
    BY <1>1, <1>2, <1>3 DEF ChainInv, Busy
  <1>6. \A v \in Workers : Busy(v)' => (h'[v].msg \in DOMAIN stream' <=> h'[v].pc \notin {"enqueue", "dlq"})
    BY <1>1, <1>2, <1>3, <1>4 DEF ChainInv, Busy
  <1>7. \A v \in Workers : h'[v].pc = "enqueue" => h'[v] = h[v]
    BY <1>2, <1>3
  <1> QED BY <1>1, <1>4, <1>5, <1>6, <1>7 DEF ChainInv, At

LEMMA ChainAck ==
    ASSUME HandlingInv, ChainInv, NEW w \in Workers, Ack(w)
    PROVE  ChainInv'
  <1> SUFFICES ASSUME "redelivered" \notin spoilt' PROVE ChainInv'
    BY DEF ChainInv
  <1>1. /\ TypeOK /\ Busy(w) /\ h[w].pc = "ack" /\ "redelivered" \notin spoilt
        /\ opening' = opening /\ stream' = [m \in DOMAIN stream \ {h[w].msg} |-> stream[m]]
    BY DEF HandlingInv, Ack, At, Busy, Spoil
  <1>2. h[w] \in Handler
    BY <1>1, BusyLemma
  <1>3. PICK q : /\ Go(w, q)
                 /\ \/ q = Idle
                    \/ q.pc \in {"enqueue", "dlq"} /\ q.job = h[w].job /\ q.msg = h[w].msg
    BY <1>2, AckLeads DEF Handler, Continues
  <1>4. h'[w] = q /\ \A v \in Workers : v # w => h'[v] = h[v]
    BY <1>1, <1>3, GoLemma
  <1>5. h[w].msg \in DOMAIN stream /\ stream[h[w].msg].win = h[w].job.win
    BY <1>1 DEF HandlingInv, OwnEntry, ChainInv
  <1>6. \A v \in Workers : h'[v].pc # "idle" => h[v].pc # "idle" /\ h'[v].msg = h[v].msg
    BY <1>1, <1>3, <1>4 DEF Idle, Busy
  <1>7. \A u, v \in Workers : Busy(u)' /\ Busy(v)' /\ h'[u].msg = h'[v].msg => u = v
    BY <1>1, <1>6 DEF ChainInv, Busy
  <1>8. ASSUME NEW v \in Workers, Busy(v)'
        PROVE  h'[v].msg \in DOMAIN stream' <=> h'[v].pc \notin {"enqueue", "dlq"}
    <2>1. CASE v = w
      BY <1>1, <1>3, <1>4, <1>6, <1>8, <2>1 DEF Busy, Idle
    <2>2. CASE v # w
      <3>1. h'[v] = h[v] /\ Busy(v) /\ h[v].msg # h[w].msg
        BY <1>1, <1>4, <1>8, <2>2 DEF ChainInv, Busy
      <3>2. h[v].msg \in DOMAIN stream <=> h[v].pc \notin {"enqueue", "dlq"}
        BY <1>1, <3>1 DEF ChainInv
      <3> QED BY <1>1, <3>1, <3>2
    <2> QED BY <2>1, <2>2
  <1>9. \A m \in DOMAIN stream' : m \in DOMAIN stream /\ stream'[m] = stream[m] /\ m # h[w].msg
    BY <1>1
  <1>10. \A v \in Workers : h'[v].pc = "enqueue" =>
            h'[v].job.win = h[v].job.win /\ (v = w \/ h[v].pc = "enqueue")
    BY <1>3, <1>4 DEF Idle
  <1>11. \A m, n \in DOMAIN stream' : stream'[m].win = stream'[n].win => m = n
    BY <1>1, <1>9 DEF ChainInv
  <1>12. \A u, v \in Workers :
            h'[u].pc = "enqueue" /\ h'[v].pc = "enqueue" /\ h'[u].job.win = h'[v].job.win => u = v
    BY <1>1, <1>5, <1>10 DEF ChainInv, At
  <1>13. \A m \in DOMAIN stream', v \in Workers :
            h'[v].pc = "enqueue" => stream'[m].win # h'[v].job.win
    BY <1>1, <1>5, <1>9, <1>10 DEF ChainInv, At
  <1>14. \A v \in Workers : h'[v].pc = "enqueue" => h'[v].job.win # opening'.win
    BY <1>1, <1>5, <1>10 DEF ChainInv, At
  <1>15. \A m \in DOMAIN stream' : stream'[m].win # opening'.win
    BY <1>1, <1>9 DEF ChainInv
  <1> QED BY <1>7, <1>8, <1>11, <1>12, <1>13, <1>14, <1>15 DEF ChainInv, At

\* A job j of a window that had none enters the Stream.
LEMMA ChainEntry ==
    ASSUME ChainInv, "redelivered" \notin spoilt, NEW j, NEW m,
           m \notin DOMAIN stream, DOMAIN stream' = DOMAIN stream \cup {m}, stream'[m] = j,
           \A n \in DOMAIN stream : stream'[n] = stream[n],
           \A v \in Workers : h'[v] = h[v] \/ h'[v] = Idle,
           \A v \in Workers : h'[v].pc # "idle" => h'[v].msg # m,
           \A n \in DOMAIN stream : stream[n].win # j.win,
           \A v \in Workers : h'[v].pc = "enqueue" => h'[v].job.win # j.win,
           j.win # opening'.win,
           \A n \in DOMAIN stream : stream[n].win # opening'.win,
           \A v \in Workers : h'[v].pc = "enqueue" => h'[v].job.win # opening'.win
    PROVE  ChainInv'
  <1>1. \A v \in Workers : h'[v].pc # "idle" => h'[v] = h[v]
    BY DEF Idle
  <1>2. \A u, v \in Workers : Busy(u)' /\ Busy(v)' /\ h'[u].msg = h'[v].msg => u = v
    BY <1>1 DEF ChainInv, Busy
  <1>3. \A v \in Workers : Busy(v)' => (h'[v].msg \in DOMAIN stream' <=> h'[v].pc \notin {"enqueue", "dlq"})
    BY <1>1 DEF ChainInv, Busy
  <1>4. \A k, n \in DOMAIN stream' : stream'[k].win = stream'[n].win => k = n
    BY DEF ChainInv
  <1>5. \A u, v \in Workers :
            h'[u].pc = "enqueue" /\ h'[v].pc = "enqueue" /\ h'[u].job.win = h'[v].job.win => u = v
    BY <1>1 DEF ChainInv, At
  <1>6. \A n \in DOMAIN stream', v \in Workers :
            h'[v].pc = "enqueue" => stream'[n].win # h'[v].job.win
    BY <1>1 DEF ChainInv, At
  <1>7. \A n \in DOMAIN stream' : stream'[n].win # opening'.win
    OBVIOUS
  <1> QED BY <1>2, <1>3, <1>4, <1>5, <1>6, <1>7 DEF ChainInv, At

LEMMA ChainWriteBack ==
    ASSUME HandlingInv, ChainInv, NEW w \in Workers, WriteBack(w)
    PROVE  ChainInv'
  <1> SUFFICES ASSUME "redelivered" \notin spoilt' PROVE ChainInv'
    BY DEF ChainInv
  <1>1. /\ TypeOK /\ At(w, "enqueue") /\ Busy(w) /\ "redelivered" \notin spoilt
        /\ opening' = opening
    BY DEF HandlingInv, WriteBack, At, Busy
  <1>2. PICK q : q = Idle /\ Go(w, q)
    BY WriteBackLeads
  <1>3. h'[w] = Idle /\ \A v \in Workers : v # w => h'[v] = h[v]
    BY <1>1, <1>2, GoLemma
  <1>4. PICK m \in MsgIds :
            /\ m \notin DOMAIN stream
            /\ \A v \in Workers \ {w} : Busy(v) => h[v].msg # m
            /\ DOMAIN stream' = DOMAIN stream \cup {m} /\ stream'[m] = h[w].job
            /\ \A n \in DOMAIN stream : stream'[n] = stream[n]
    BY WriteBackLeads
  <1>5. PICK j : j = h[w].job
    OBVIOUS
  <1>6. \A v \in Workers : h'[v].pc # "idle" => v # w /\ h'[v] = h[v] /\ h'[v].msg # m
    BY <1>3, <1>4 DEF Idle, Busy
  <1>7. /\ \A n \in DOMAIN stream : stream[n].win # j.win /\ stream[n].win # opening'.win
        /\ \A v \in Workers : h'[v].pc = "enqueue" =>
              h'[v].job.win # j.win /\ h'[v].job.win # opening'.win
        /\ j.win # opening'.win
    BY <1>1, <1>5, <1>6 DEF ChainInv, At
  <1> QED BY <1>1, <1>3, <1>4, <1>5, <1>6, <1>7, ChainEntry

LEMMA ChainOpenWindow ==
    ASSUME HandlingInv, ChainInv, OpenWindow
    PROVE  ChainInv'
  <1> SUFFICES ASSUME "redelivered" \notin spoilt' PROVE ChainInv'
    BY DEF ChainInv
  <1>1. /\ TypeOK /\ "redelivered" \notin spoilt /\ opening \in Job /\ opening'.win = 0
        /\ h' = h
    BY OpenWindowLeads DEF HandlingInv, OpenWindow, NoJob
  <1>2. /\ \A n \in DOMAIN stream : stream[n].win # 0
        /\ \A v \in Workers : h[v].pc = "enqueue" => h[v].job.win # 0
        /\ opening.win # 0
    <2>1. \A k \in Job : k.win # 0
      BY DEF Job
    <2> QED BY <1>1, <2>1, BusyLemma DEF TypeOK, Busy
  <1>3. CASE stream' = stream
    BY <1>1, <1>2, <1>3 DEF ChainInv, At, Busy
  <1>4. ASSUME NEW m \in MsgIds, m \notin DOMAIN stream,
               \A v \in Workers : Busy(v) => h[v].msg # m,
               DOMAIN stream' = DOMAIN stream \cup {m}, stream'[m] = opening,
               \A n \in DOMAIN stream : stream'[n] = stream[n]
        PROVE  ChainInv'
    <2>1. PICK j : j = opening
      OBVIOUS
    <2>2. /\ \A n \in DOMAIN stream : stream[n].win # j.win
          /\ \A v \in Workers : h[v].pc = "enqueue" => h[v].job.win # j.win
      BY <1>1, <2>1 DEF ChainInv, At
    <2>3. \A v \in Workers : h'[v].pc # "idle" => h'[v].msg # m
      BY <1>1, <1>4 DEF Busy
    <2> QED BY <1>1, <1>2, <1>4, <2>1, <2>2, <2>3, ChainEntry
  <1> QED BY <1>3, <1>4, OpenWindowLeads

LEMMA ChainActivity ==
    ASSUME HandlingInv, CurrentInv, ChainInv, NEW u \in Versions, Activity(u)
    PROVE  ChainInv'
  <1> SUFFICES ASSUME "redelivered" \notin spoilt' PROVE ChainInv'
    BY DEF ChainInv
  <1>1. /\ TypeOK /\ windows \in Nat /\ "redelivered" \notin spoilt /\ stream' = stream /\ h' = h
    BY ActivityLeads DEF HandlingInv, TypeOK, Activity
  <1>2. \/ opening' = opening
        \/ opening'.win = windows + 1
    BY ActivityLeads
  <1>3. \A j \in Job : j.win \in Nat
    BY DEF Job
  <1>4. \A m \in DOMAIN stream : stream[m].win # windows + 1
    <2>1. \A m \in DOMAIN stream : stream[m].win <= windows /\ stream[m].win \in Nat
      BY <1>1, <1>3 DEF CurrentInv, Current, TypeOK
    <2> QED BY <1>1, <2>1
  <1>5. \A v \in Workers : At(v, "enqueue") => h[v].job.win # windows + 1
    <2>1. \A v \in Workers : At(v, "enqueue") => h[v].job.win <= windows /\ h[v].job.win \in Nat
      BY <1>1, <1>3, BusyLemma DEF CurrentInv, Current, At, Busy
    <2> QED BY <1>1, <2>1
  <1> QED BY <1>1, <1>2, <1>4, <1>5 DEF ChainInv, At, Busy

LEMMA ChainNext ==
    HandlingInv /\ CurrentInv /\ ChainInv /\ [Next]_vars => ChainInv'
  <1> SUFFICES ASSUME HandlingInv, CurrentInv, ChainInv, [Next]_vars PROVE ChainInv'
    OBVIOUS
  <1>1. TypeOK
    BY DEF HandlingInv
  <1>2. ASSUME NEW u \in Versions, Edit(u)
        PROVE  ChainInv'
    BY <1>2, ChainQuiet DEF Edit
  <1>3. CASE Tick \/ UNCHANGED vars
    BY <1>3, ChainQuiet DEF Tick, vars
  <1>4. ASSUME NEW w \in Workers, Admit(w)
        PROVE  ChainInv'
    <2>1. PICK q : Go(w, q) /\ (q = Idle \/ (Continues(q, h[w]) /\ q.pc \in {"fetch", "ack"}))
      BY <1>4, AdmitLeads DEF WritesBack
    <2>2. Busy(w) /\ h[w].pc = "admit"
      BY <1>4 DEF Admit, At, Busy
    <2> QED BY <1>1, <1>4, <2>1, <2>2, ChainGo DEF Admit
  <1>5. ASSUME NEW w \in Workers, Fetch(w)
        PROVE  ChainInv'
    <2>1. PICK q : Go(w, q) /\ Continues(q, h[w]) /\ q.pc \in {"mark", "ack"}
      BY <1>5, FetchLeads DEF WritesBack
    <2>2. Busy(w) /\ h[w].pc = "fetch"
      BY <1>5 DEF Fetch, At, Busy
    <2> QED BY <1>1, <1>5, <2>1, <2>2, ChainGo DEF Fetch
  <1>6. ASSUME NEW w \in Workers, Mark(w)
        PROVE  ChainInv'
    <2>1. PICK q : Go(w, q) /\ (q = Idle \/ (Continues(q, h[w]) /\ q.pc \in {"emit", "ack"}))
      BY <1>6, MarkLeads DEF WritesBack
    <2>2. Busy(w) /\ h[w].pc = "mark" /\ spoilt \subseteq spoilt'
      BY <1>6 DEF Mark, At, Busy, Spoil
    <2> QED BY <1>1, <1>6, <2>1, <2>2, ChainGo DEF Mark
  <1>7. ASSUME NEW w \in Workers, Emit(w)
        PROVE  ChainInv'
    <2>1. PICK q : Go(w, q) /\ (q = Idle \/ (Continues(q, h[w]) /\ q.pc = "ack"))
      BY <1>7, EmitLeads DEF WritesBack
    <2>2. Busy(w) /\ h[w].pc = "emit" /\ spoilt \subseteq spoilt'
      BY <1>7 DEF Emit, At, Busy, Spoil
    <2> QED BY <1>1, <1>7, <2>1, <2>2, ChainGo DEF Emit
  <1>8. ASSUME NEW w \in Workers, MoveToDlq(w)
        PROVE  ChainInv'
    <2>1. PICK q : q = Idle /\ Reply(w, q)
      BY <1>8 DEF MoveToDlq
    <2> QED BY <1>1, <1>8, <2>1, ReplyLemma, ChainGo DEF MoveToDlq, At, Busy
  <1>9. ASSUME NEW w \in Workers, CallFails(w)
        PROVE  ChainInv'
    <2>1. PICK q : q = Idle /\ Go(w, q)
      BY <1>9 DEF CallFails
    <2> QED BY <1>1, <1>9, <2>1, ChainGo DEF CallFails
  <1>10. CASE Crash
    <2>1. \A v \in Workers : h'[v] = h[v] \/ h'[v] = Idle
      BY <1>10 DEF Crash
    <2> QED BY <1>10, <2>1, ChainQuiet DEF Crash
  <1> QED
    BY <1>2, <1>3, <1>4, <1>5, <1>6, <1>7, <1>8, <1>9, <1>10, ChainReceive, ChainAck,
       ChainWriteBack, ChainOpenWindow, ChainActivity DEF Next, Process

\* Until an entry is redelivered to a second handler, the job of a window is
\* in one place.
THEOREM ChainInvariant == Spec => []ChainInv
  <1>1. Init => ChainInv
    BY DEF Init, ChainInv, Busy, At, Idle
  <1> QED BY <1>1, ChainNext, CurrentInvariant, HandlingInvariant, PTL DEF Spec

\* The claim lets one window poll at a time, and each window has one job: two
\* jobs from which polls may come need an entry redelivered to two handlers.
THEOREM OneJobPolls == Spec => []SingleFlight
  <1>1. CurrentInv /\ ChainInv => SingleFlight
    BY DEF CurrentInv, Current, ChainInv, SingleFlight
  <1> QED BY <1>1, CurrentInvariant, ChainInvariant, PTL

-----------------------------------------------------------------------------
\* BudgetInv is inductive

LEMMA Counters ==
    ASSUME TypeOK
    PROVE  /\ mishaps \in Nat /\ MaxAttempts \in Nat
           /\ \A n \in 1 .. MaxWindows : polls[n] \in Nat
           /\ \A j \in Job : j.win \in 1 .. MaxWindows /\ j.attempt \in Nat
           /\ \A m \in DOMAIN stream : stream[m] \in Job /\ polls[stream[m].win] \in Nat
           /\ \A w \in Workers : Busy(w) => h[w].job \in Job /\ polls[h[w].job.win] \in Nat
  <1>1. /\ mishaps \in Nat /\ MaxAttempts \in Nat /\ TooMany \in Nat
        /\ polls \in [1 .. MaxWindows -> 0 .. TooMany]
    BY Bounds DEF TypeOK, TooMany
  <1>2. \A j \in Job : j.win \in 1 .. MaxWindows /\ j.attempt \in Nat
    BY Bounds DEF Job
  <1>3. \A n \in 1 .. MaxWindows : polls[n] \in Nat
    BY <1>1
  <1>4. \A m \in DOMAIN stream : stream[m] \in Job
    BY DEF TypeOK
  <1> QED BY <1>1, <1>2, <1>3, <1>4, BusyLemma

\* The entry and the window of a handler are its own.
LEMMA OwnWindow ==
    ASSUME HandlingInv, ChainInv, "redelivered" \notin spoilt,
           NEW w \in Workers, Busy(w), h[w].pc \notin {"enqueue", "dlq"}
    PROVE  /\ h[w].msg \in DOMAIN stream /\ stream[h[w].msg].win = h[w].job.win
           /\ h[w].job.win # opening.win
           /\ \A m \in DOMAIN stream : stream[m].win = h[w].job.win => m = h[w].msg
           /\ \A v \in Workers :
                 Busy(v) /\ h[v].pc # "dlq" /\ h[v].job.win = h[w].job.win => v = w
  <1>1. h[w].msg \in DOMAIN stream /\ stream[h[w].msg].win = h[w].job.win
    BY DEF ChainInv, HandlingInv, OwnEntry
  <1>2. \A m \in DOMAIN stream : stream[m].win = h[w].job.win => m = h[w].msg
    BY <1>1 DEF ChainInv
  <1>3. ASSUME NEW v \in Workers, Busy(v), h[v].pc # "dlq", h[v].job.win = h[w].job.win
        PROVE  v = w
    <2>1. h[v].pc # "enqueue"
      BY <1>1, <1>3 DEF ChainInv, At
    <2>2. h[v].msg \in DOMAIN stream /\ stream[h[v].msg].win = h[v].job.win
      BY <1>3, <2>1 DEF ChainInv, HandlingInv, OwnEntry
    <2>3. h[v].msg = h[w].msg
      BY <1>2, <1>3, <2>2
    <2> QED BY <1>3, <2>3 DEF ChainInv
  <1>4. h[w].job.win # opening.win
    BY <1>1 DEF ChainInv
  <1> QED BY <1>1, <1>2, <1>3, <1>4

\* No poll, no new entry: an entry is let go only by a mishap.
LEMMA BudgetStep ==
    ASSUME TypeOK, TypeOK', BudgetInv, spoilt \subseteq spoilt', polls' = polls, stream' = stream,
           windows' = windows, opening' = opening, mishaps' \in {mishaps, mishaps + 1},
           \A m \in DOMAIN stream : Held(m) => Held(m)' \/ mishaps' = mishaps + 1,
           \A v \in Workers : h'[v] = h[v] \/ h'[v] = Idle \/ Accounts(h[v])'
    PROVE  BudgetInv'
  <1> SUFFICES ASSUME "redelivered" \notin spoilt' PROVE BudgetInv'
    BY DEF BudgetInv
  <1>1. "redelivered" \notin spoilt /\ mishaps <= mishaps' /\ mishaps' \in Nat /\ mishaps \in Nat
    BY Counters
  <1>2. \A n \in 1 .. MaxWindows : polls'[n] <= MaxAttempts + mishaps'
    BY <1>1, Counters DEF BudgetInv
  <1>3. \A n \in 1 .. MaxWindows : n > windows' \/ n = opening'.win => polls'[n] = 0
    BY <1>1 DEF BudgetInv
  <1>4. ASSUME NEW m \in DOMAIN stream'
        PROVE  polls'[stream'[m].win] <= stream'[m].attempt + mishaps' + (IF Held(m)' THEN 1 ELSE 0)
    <2>1. polls[stream[m].win] <= stream[m].attempt + mishaps + (IF Held(m) THEN 1 ELSE 0)
      BY <1>1, <1>4 DEF BudgetInv
    <2>2. stream[m].attempt \in Nat /\ polls[stream[m].win] \in Nat
      BY <1>4, Counters
    <2>3. Held(m) => Held(m)' \/ mishaps' = mishaps + 1
      BY <1>4
    <2>4. polls'[stream'[m].win] = polls[stream[m].win] /\ stream'[m].attempt = stream[m].attempt
      OBVIOUS
    <2> QED BY <1>1, <2>1, <2>2, <2>3, <2>4
  <1>5. ASSUME NEW v \in Workers
        PROVE  Accounts(h[v])'
    <2>1. CASE h'[v] = h[v] /\ Busy(v)
      <3>1. Accounts(h[v])
        BY <1>1 DEF BudgetInv
      <3>2. h[v].job.attempt \in Nat /\ polls[h[v].job.win] \in Nat
        BY <2>1, Counters
      <3> QED BY <1>1, <2>1, <3>1, <3>2 DEF Accounts
    <2>2. CASE h'[v] = Idle \/ (h'[v] = h[v] /\ ~Busy(v))
      BY <2>2 DEF Accounts, Idle, Busy
    <2> QED BY <2>1, <2>2
  <1> QED BY <1>2, <1>3, <1>4, <1>5 DEF BudgetInv

\* A handler w goes on to q with its entry.
LEMMA BudgetGo ==
    ASSUME TypeOK, TypeOK', BudgetInv, spoilt \subseteq spoilt', polls' = polls, stream' = stream,
           windows' = windows, opening' = opening, mishaps' \in {mishaps, mishaps + 1},
           NEW w \in Workers, NEW q, Busy(w), Go(w, q),
           \/ q = Idle /\ mishaps' = mishaps + 1
           \/ q = Idle /\ h[w].msg \notin DOMAIN stream
           \/ q # Idle /\ q \in Handler /\ q.msg = h[w].msg /\ Accounts(q)'
    PROVE  BudgetInv'
  <1>1. h'[w] = q /\ \A v \in Workers : v # w => h'[v] = h[v]
    BY GoLemma
  <1>2. \A v \in Workers : h'[v] = h[v] \/ h'[v] = Idle \/ Accounts(h[v])'
    BY <1>1 DEF Accounts
  <1>3. q \in Handler => q.pc # "idle"
    BY DEF Handler
  <1>4. ASSUME NEW m \in DOMAIN stream, Held(m)
        PROVE  Held(m)' \/ mishaps' = mishaps + 1
    <2>1. PICK v \in Workers : Busy(v) /\ h[v].msg = m
      BY <1>4 DEF Held
    <2>2. CASE v # w
      BY <1>1, <2>1, <2>2 DEF Held, Busy
    <2>3. CASE v = w
      BY <1>1, <1>3, <1>4, <2>1, <2>3 DEF Held, Busy
    <2> QED BY <2>2, <2>3
  <1> QED BY <1>2, <1>4, BudgetStep

\* Nothing that BudgetInv counts changes, but a handler may be lost.
LEMMA BudgetQuiet ==
    ASSUME TypeOK, TypeOK', BudgetInv, spoilt \subseteq spoilt', polls' = polls, stream' = stream,
           windows' = windows, opening' = opening,
           \/ mishaps' = mishaps /\ h' = h
           \/ mishaps' = mishaps + 1 /\ \A v \in Workers : h'[v] = h[v] \/ h'[v] = Idle
    PROVE  BudgetInv'
  <1>1. \A v \in Workers : h'[v] = h[v] \/ h'[v] = Idle \/ Accounts(h[v])'
    OBVIOUS
  <1>2. \A m \in DOMAIN stream : Held(m) => Held(m)' \/ mishaps' = mishaps + 1
    BY DEF Held, Busy
  <1> QED BY <1>1, <1>2, BudgetStep

LEMMA BudgetFetch ==
    ASSUME HandlingInv, HandlingInv', CurrentInv, ChainInv, BudgetInv,
           NEW w \in Workers, Fetch(w)
    PROVE  BudgetInv'
  <1> SUFFICES ASSUME "redelivered" \notin spoilt' PROVE BudgetInv'
    BY DEF BudgetInv
  <1>1. /\ TypeOK /\ TypeOK' /\ Busy(w) /\ h[w].pc = "fetch" /\ "redelivered" \notin spoilt
        /\ stream' = stream /\ windows' = windows /\ opening' = opening /\ mishaps' = mishaps
        /\ polls' = [polls EXCEPT ![h[w].job.win] =
                       IF @ = TooMany \/ "redelivered" \in spoilt THEN @ ELSE @ + 1]
    BY DEF HandlingInv, Fetch, At, Busy
  <1>2. PICK c : c = h[w].job.win
    OBVIOUS
  <1>3. PICK a : a = h[w].job.attempt
    OBVIOUS
  <1>4. c \in 1 .. MaxWindows /\ a \in Nat /\ a < MaxAttempts /\ polls[c] <= a + mishaps
    BY <1>1, <1>2, <1>3, BusyLemma, Counters DEF HandlingInv, Fits, BudgetInv, Accounts
  <1>5. /\ polls'[c] \in Nat /\ polls'[c] <= a + 1 + mishaps
        /\ \A n \in 1 .. MaxWindows : n # c => polls'[n] = polls[n]
    <2>1. polls \in [1 .. MaxWindows -> 0 .. TooMany]
      BY <1>1 DEF TypeOK
    <2>2. /\ polls'[c] = IF polls[c] = TooMany \/ "redelivered" \in spoilt THEN polls[c]
                         ELSE polls[c] + 1
          /\ \A n \in 1 .. MaxWindows : n # c => polls'[n] = polls[n]
      BY <1>1, <1>2, <1>4, <2>1
    <2> QED BY <1>1, <1>4, <2>2, Counters
  <1>6. PICK q : Go(w, q) /\ \/ Continues(q, h[w]) /\ q.pc = "mark" /\ q.job = h[w].job
                             \/ WritesBack(q, h[w], 1, h[w].job.last)
                             \/ Continues(q, h[w]) /\ q.pc = "ack" /\ q.then # "enqueue"
    BY FetchLeads
  <1>7. h'[w] = q /\ \A v \in Workers : v # w => h'[v] = h[v]
    BY <1>1, <1>6, GoLemma
  <1>8. /\ h[w].msg \in DOMAIN stream /\ stream[h[w].msg].win = c
        /\ c # opening.win
        /\ \A m \in DOMAIN stream : stream[m].win = c => m = h[w].msg
        /\ \A v \in Workers : Busy(v) /\ h[v].pc # "dlq" /\ h[v].job.win = c => v = w
    BY <1>1, <1>2, OwnWindow
  <1>9. \A n \in 1 .. MaxWindows : polls'[n] <= MaxAttempts + mishaps'
    <2>1. ASSUME NEW n \in 1 .. MaxWindows
          PROVE  polls'[n] <= MaxAttempts + mishaps'
      <3>1. CASE n = c
        BY <1>1, <1>4, <1>5, <3>1, Counters
      <3>2. CASE n # c
        BY <1>1, <1>5, <3>2 DEF BudgetInv
      <3> QED BY <3>1, <3>2
    <2> QED BY <2>1
  <1>10. \A n \in 1 .. MaxWindows : n > windows' \/ n = opening'.win => polls'[n] = 0
    <2>1. c <= windows /\ windows \in Nat
      BY <1>1, <1>2, Bounds DEF CurrentInv, Current, TypeOK
    <2>2. ASSUME NEW n \in 1 .. MaxWindows, n > windows' \/ n = opening'.win
          PROVE  n # c
      BY <1>1, <1>4, <1>8, <2>1, <2>2
    <2> QED BY <1>1, <1>5, <2>2 DEF BudgetInv
  <1>11. ASSUME NEW m \in DOMAIN stream'
         PROVE  polls'[stream'[m].win] <= stream'[m].attempt + mishaps' + (IF Held(m)' THEN 1 ELSE 0)
    <2>1. CASE m = h[w].msg
      <3>1. Held(m)'
        BY <1>6, <1>7, <2>1 DEF Held, Busy, Continues, WritesBack
      <3>2. stream[m].attempt = a /\ stream[m].win = c
        BY <1>1, <1>3, <1>8, <2>1 DEF BudgetInv, Accounts
      <3>3. polls'[c] <= a + mishaps' + 1
        BY <1>1, <1>4, <1>5, Counters
      <3> QED BY <1>1, <3>1, <3>2, <3>3
    <2>2. CASE m # h[w].msg
      <3>1. stream[m].win # c /\ stream[m].win \in 1 .. MaxWindows
        BY <1>1, <1>8, <1>11, <2>2, Counters
      <3>2. Held(m)' <=> Held(m)
        BY <1>1, <1>6, <1>7, <2>2 DEF Held, Busy, Continues, WritesBack
      <3>3. polls[stream[m].win] <= stream[m].attempt + mishaps + (IF Held(m) THEN 1 ELSE 0)
        BY <1>1, <1>11 DEF BudgetInv
      <3> QED BY <1>1, <1>5, <3>1, <3>2, <3>3
    <2> QED BY <2>1, <2>2
  <1>12. ASSUME NEW v \in Workers
         PROVE  Accounts(h[v])'
    <2>1. CASE v = w
      BY <1>1, <1>2, <1>3, <1>4, <1>5, <1>6, <1>7, <1>8, <2>1, Counters
         DEF Accounts, BudgetInv, Continues, WritesBack
    <2>2. CASE v # w
      <3>1. h'[v] = h[v] /\ Accounts(h[v])
        BY <1>1, <1>7, <2>2 DEF BudgetInv
      <3>2. CASE h[v].pc \in {"idle", "dlq"}
        BY <3>1, <3>2 DEF Accounts
      <3>3. CASE h[v].pc \notin {"idle", "dlq"}
        <4>1. h[v].job.win # c /\ h[v].job.win \in 1 .. MaxWindows
          BY <1>1, <1>8, <2>2, <3>3, BusyLemma DEF Busy
        <4> QED BY <1>1, <1>5, <3>1, <4>1 DEF Accounts
      <3> QED BY <3>2, <3>3
    <2> QED BY <2>1, <2>2
  <1> QED BY <1>9, <1>10, <1>11, <1>12 DEF BudgetInv

LEMMA BudgetAck ==
    ASSUME HandlingInv, HandlingInv', ChainInv, BudgetInv, NEW w \in Workers, Ack(w)
    PROVE  BudgetInv'
  <1> SUFFICES ASSUME "redelivered" \notin spoilt' PROVE BudgetInv'
    BY DEF BudgetInv
  <1>1. /\ TypeOK /\ Busy(w) /\ h[w].pc = "ack" /\ "redelivered" \notin spoilt
        /\ windows' = windows /\ opening' = opening /\ polls' = polls
        /\ stream' = [m \in DOMAIN stream \ {h[w].msg} |-> stream[m]]
    BY DEF HandlingInv, Ack, At, Busy, Spoil
  <1>2. h[w] \in Handler
    BY <1>1, BusyLemma
  <1>3. PICK q : /\ Go(w, q) /\ mishaps' \in {mishaps, mishaps + 1}
                 /\ \/ q = Idle \/ q.pc = "dlq"
                    \/ q.pc = "enqueue" /\ h[w].then = "enqueue" /\ q.job = h[w].job
    BY <1>2, AckLeads DEF Handler
  <1>4. h'[w] = q /\ \A v \in Workers : v # w => h'[v] = h[v]
    BY <1>1, <1>3, GoLemma
  <1>5. mishaps <= mishaps' /\ mishaps' \in Nat /\ mishaps \in Nat
    BY <1>1, <1>3, Counters
  <1>6. \A n \in 1 .. MaxWindows : polls'[n] <= MaxAttempts + mishaps'
    BY <1>1, <1>5, Counters DEF BudgetInv
  <1>7. \A n \in 1 .. MaxWindows : n > windows' \/ n = opening'.win => polls'[n] = 0
    BY <1>1 DEF BudgetInv
  <1>8. ASSUME NEW m \in DOMAIN stream'
        PROVE  polls'[stream'[m].win] <= stream'[m].attempt + mishaps' + (IF Held(m)' THEN 1 ELSE 0)
    <2>1. m \in DOMAIN stream /\ stream'[m] = stream[m] /\ m # h[w].msg
      BY <1>1, <1>8
    <2>2. Held(m) => Held(m)'
      BY <1>4, <2>1 DEF Held, Busy
    <2>3. polls[stream[m].win] <= stream[m].attempt + mishaps + (IF Held(m) THEN 1 ELSE 0)
      BY <1>1, <2>1 DEF BudgetInv
    <2>4. stream[m].attempt \in Nat /\ polls[stream[m].win] \in Nat
      BY <1>1, <2>1, Counters
    <2> QED BY <1>1, <1>5, <2>1, <2>2, <2>3, <2>4
  <1>9. ASSUME NEW v \in Workers
        PROVE  Accounts(h[v])'
    <2>1. CASE v = w
      <3>1. CASE q = Idle \/ q.pc = "dlq"
        BY <1>4, <2>1, <3>1 DEF Accounts, Idle
      <3>2. CASE q.pc = "enqueue" /\ h[w].then = "enqueue" /\ q.job = h[w].job
        <4>1. polls[h[w].job.win] <= h[w].job.attempt + mishaps
          BY <1>1, <3>2 DEF BudgetInv, Accounts
        <4>2. h[w].job.attempt \in Nat /\ polls[h[w].job.win] \in Nat
          BY <1>1, Counters
        <4>3. polls[h[w].job.win] <= h[w].job.attempt + mishaps'
          BY <1>5, <4>1, <4>2
        <4> QED BY <1>1, <1>4, <2>1, <3>2, <4>3 DEF Accounts
      <3> QED BY <1>3, <3>1, <3>2
    <2>2. CASE v # w /\ ~Busy(v)
      BY <1>4, <2>2 DEF Accounts, Busy
    <2>3. CASE v # w /\ Busy(v)
      <3>1. h'[v] = h[v] /\ Accounts(h[v]) /\ h[v].msg # h[w].msg
        BY <1>1, <1>4, <2>3 DEF BudgetInv, ChainInv
      <3>2. h[v].job.attempt \in Nat /\ polls[h[v].job.win] \in Nat
        BY <1>1, <2>3, Counters
      <3>3. h[v].pc \in {"admit", "fetch", "mark", "emit"} =>
               stream'[h[v].msg] = stream[h[v].msg]
        BY <1>1, <2>3, <3>1 DEF ChainInv
      <3> QED BY <1>1, <1>5, <3>1, <3>2, <3>3 DEF Accounts
    <2> QED BY <2>1, <2>2, <2>3
  <1> QED BY <1>6, <1>7, <1>8, <1>9 DEF BudgetInv

\* A job j that has an attempt for each poll of its window enters the Stream.
LEMMA BudgetEntry ==
    ASSUME HandlingInv, ChainInv, BudgetInv, "redelivered" \notin spoilt,
           NEW j \in Job, NEW m, polls[j.win] <= j.attempt + mishaps,
           m \notin DOMAIN stream, DOMAIN stream' = DOMAIN stream \cup {m}, stream'[m] = j,
           \A n \in DOMAIN stream : stream'[n] = stream[n],
           \A v \in Workers : h'[v] = h[v] \/ (h'[v] = Idle /\ h[v].pc = "enqueue"),
           polls' = polls, windows' = windows, opening' = opening \/ opening' = NoJob,
           mishaps' \in {mishaps, mishaps + 1}
    PROVE  BudgetInv'
  <1>1. /\ TypeOK /\ mishaps <= mishaps' /\ mishaps' \in Nat /\ mishaps \in Nat
        /\ polls[j.win] \in Nat /\ j.attempt \in Nat
    BY Counters DEF HandlingInv
  <1>2. \A n \in 1 .. MaxWindows : polls'[n] <= MaxAttempts + mishaps'
    BY <1>1, Counters DEF BudgetInv
  <1>3. \A n \in 1 .. MaxWindows : n > windows' \/ n = opening'.win => polls'[n] = 0
    BY DEF BudgetInv, NoJob
  <1>4. ASSUME NEW n \in DOMAIN stream'
        PROVE  polls'[stream'[n].win] <= stream'[n].attempt + mishaps' + (IF Held(n)' THEN 1 ELSE 0)
    <2>1. CASE n = m
      BY <1>1, <2>1
    <2>2. CASE n # m
      <3>1. n \in DOMAIN stream /\ stream'[n] = stream[n]
        BY <1>4, <2>2
      <3>2. Held(n) => Held(n)'
        BY <3>1 DEF Held, Busy, ChainInv
      <3>3. polls[stream[n].win] <= stream[n].attempt + mishaps + (IF Held(n) THEN 1 ELSE 0)
        BY <3>1 DEF BudgetInv
      <3>4. stream[n].attempt \in Nat /\ polls[stream[n].win] \in Nat
        BY <1>1, <3>1, Counters
      <3> QED BY <1>1, <3>1, <3>2, <3>3, <3>4
    <2> QED BY <2>1, <2>2
  <1>5. ASSUME NEW v \in Workers
        PROVE  Accounts(h[v])'
    <2>1. CASE h'[v] = h[v] /\ Busy(v)
      <3>1. Accounts(h[v])
        BY DEF BudgetInv
      <3>2. h[v].job.attempt \in Nat /\ polls[h[v].job.win] \in Nat
        BY <1>1, <2>1, Counters
      <3>3. h[v].pc \in {"admit", "fetch", "mark", "emit"} =>
               stream'[h[v].msg] = stream[h[v].msg]
        BY <2>1 DEF ChainInv
      <3> QED BY <1>1, <2>1, <3>1, <3>2, <3>3 DEF Accounts
    <2>2. CASE h'[v] = Idle \/ (h'[v] = h[v] /\ ~Busy(v))
      BY <2>2 DEF Accounts, Idle, Busy
    <2> QED BY <2>1, <2>2
  <1> QED BY <1>2, <1>3, <1>4, <1>5 DEF BudgetInv

LEMMA BudgetWriteBack ==
    ASSUME HandlingInv, ChainInv, BudgetInv, NEW w \in Workers, WriteBack(w)
    PROVE  BudgetInv'
  <1> SUFFICES ASSUME "redelivered" \notin spoilt' PROVE BudgetInv'
    BY DEF BudgetInv
  <1>1. /\ TypeOK /\ Busy(w) /\ h[w].pc = "enqueue" /\ "redelivered" \notin spoilt
        /\ opening' = opening /\ windows' = windows /\ polls' = polls
        /\ mishaps' \in {mishaps, mishaps + 1}
    BY WriteBackLeads DEF HandlingInv, WriteBack, At, Busy
  <1>2. PICK q : q = Idle /\ Go(w, q)
    BY WriteBackLeads
  <1>3. \A v \in Workers : h'[v] = h[v] \/ (h'[v] = Idle /\ h[v].pc = "enqueue")
    BY <1>1, <1>2, GoLemma
  <1>4. PICK m \in MsgIds :
            /\ m \notin DOMAIN stream
            /\ DOMAIN stream' = DOMAIN stream \cup {m} /\ stream'[m] = h[w].job
            /\ \A n \in DOMAIN stream : stream'[n] = stream[n]
    BY WriteBackLeads
  <1>5. PICK j \in Job : j = h[w].job
    BY <1>1, BusyLemma
  <1>6. polls[j.win] <= j.attempt + mishaps
    BY <1>1, <1>5 DEF BudgetInv, Accounts
  <1> QED BY <1>1, <1>3, <1>4, <1>5, <1>6, BudgetEntry

LEMMA BudgetOpenWindow ==
    ASSUME HandlingInv, HandlingInv', ChainInv, BudgetInv, OpenWindow
    PROVE  BudgetInv'
  <1> SUFFICES ASSUME "redelivered" \notin spoilt' PROVE BudgetInv'
    BY DEF BudgetInv
  <1>1. /\ TypeOK /\ TypeOK' /\ "redelivered" \notin spoilt /\ opening \in Job
        /\ opening' = NoJob /\ h' = h /\ windows' = windows /\ polls' = polls
    BY OpenWindowLeads DEF HandlingInv, OpenWindow
  <1>2. PICK j \in Job : j = opening
    BY <1>1
  <1>3. polls[j.win] <= j.attempt + mishaps
    <2>1. polls[j.win] = 0
      BY <1>1, <1>2, Counters DEF BudgetInv
    <2> QED BY <1>1, <2>1, Counters
  <1>4. CASE stream' = stream /\ mishaps' = mishaps + 1
    <2>1. \A n \in 1 .. MaxWindows : n # opening'.win
      BY <1>1 DEF NoJob
    <2>2. mishaps \in Nat /\ mishaps' \in Nat
      BY <1>1, <1>4, Counters
    <2>3. \A n \in 1 .. MaxWindows : polls'[n] <= MaxAttempts + mishaps'
      BY <1>1, <1>4, <2>2, Counters DEF BudgetInv
    <2>4. \A n \in 1 .. MaxWindows : n > windows' \/ n = opening'.win => polls'[n] = 0
      BY <1>1, <2>1 DEF BudgetInv
    <2>5. ASSUME NEW m \in DOMAIN stream'
          PROVE  polls'[stream'[m].win] <= stream'[m].attempt + mishaps' + (IF Held(m)' THEN 1 ELSE 0)
      <3>1. Held(m)' <=> Held(m)
        BY <1>1 DEF Held, Busy
      <3>2. polls[stream[m].win] <= stream[m].attempt + mishaps + (IF Held(m) THEN 1 ELSE 0)
        BY <1>1, <1>4, <2>5 DEF BudgetInv
      <3>3. stream[m].attempt \in Nat /\ polls[stream[m].win] \in Nat
        BY <1>1, <1>4, <2>5, Counters
      <3> QED BY <1>1, <1>4, <2>2, <3>1, <3>2, <3>3
    <2>6. ASSUME NEW v \in Workers
          PROVE  Accounts(h[v])'
      <3>1. CASE Busy(v)
        <4>1. h[v].job.attempt \in Nat /\ polls[h[v].job.win] \in Nat /\ Accounts(h[v])
          BY <1>1, <3>1, Counters DEF BudgetInv
        <4> QED BY <1>1, <1>4, <2>2, <4>1 DEF Accounts
      <3>2. CASE ~Busy(v)
        BY <1>1, <3>2 DEF Accounts, Busy
      <3> QED BY <3>1, <3>2
    <2> QED BY <2>3, <2>4, <2>5, <2>6 DEF BudgetInv
  <1>5. ASSUME NEW m \in MsgIds, m \notin DOMAIN stream, mishaps' = mishaps,
               DOMAIN stream' = DOMAIN stream \cup {m}, stream'[m] = opening,
               \A n \in DOMAIN stream : stream'[n] = stream[n]
        PROVE  BudgetInv'
    BY <1>1, <1>2, <1>3, <1>5, BudgetEntry
  <1> QED BY <1>4, <1>5, OpenWindowLeads

LEMMA BudgetActivity ==
    ASSUME HandlingInv, HandlingInv', BudgetInv, NEW u \in Versions, Activity(u)
    PROVE  BudgetInv'
  <1> SUFFICES ASSUME "redelivered" \notin spoilt' PROVE BudgetInv'
    BY DEF BudgetInv
  <1>0. windows \in Nat
    <2>1. TypeOK
      BY DEF HandlingInv
    <2> QED BY <2>1, Bounds DEF TypeOK
  <1>1. /\ "redelivered" \notin spoilt /\ h' = h /\ stream' = stream
        /\ polls' = polls /\ mishaps' = mishaps
    BY ActivityLeads DEF Activity
  <1>2. \/ opening' = opening /\ windows' = windows
        \/ opening'.win = windows + 1 /\ windows' = windows + 1
    BY ActivityLeads
  <1>3. \A n \in 1 .. MaxWindows : n > windows' \/ n = opening'.win => polls'[n] = 0
    BY <1>0, <1>1, <1>2 DEF BudgetInv
  <1>4. /\ \A m \in DOMAIN stream : Held(m)' <=> Held(m)
        /\ \A v \in Workers : Accounts(h[v])' <=> Accounts(h[v])
    BY <1>1 DEF Held, Busy, Accounts
  <1> QED BY <1>1, <1>3, <1>4 DEF BudgetInv

LEMMA BudgetReceive ==
    ASSUME HandlingInv, HandlingInv', BudgetInv, NEW w \in Workers, NEW m \in MsgIds, Receive(w, m)
    PROVE  BudgetInv'
  <1> SUFFICES ASSUME "redelivered" \notin spoilt' PROVE BudgetInv'
    BY DEF BudgetInv
  <1>1. /\ TypeOK /\ TypeOK' /\ ~Busy(w) /\ m \in DOMAIN stream
        /\ \A v \in Workers : Busy(v) => h[v].msg # m
        /\ mishaps' = mishaps /\ spoilt' = spoilt /\ "redelivered" \notin spoilt
    BY ReceiveLeads DEF HandlingInv
  <1>2. PICK q : Go(w, q) /\ q.job = stream[m] /\ q.msg = m /\ q.pc \in {"admit", "ack"}
    BY ReceiveLeads
  <1>3. h'[w] = q /\ \A v \in Workers : v # w => h'[v] = h[v]
    BY <1>1, <1>2, GoLemma
  <1>4. /\ polls' = polls /\ stream' = stream /\ windows' = windows /\ opening' = opening
    BY DEF Receive
  <1>5. ~Held(m)
    BY <1>1 DEF Held
  <1>6. polls[stream[m].win] <= stream[m].attempt + mishaps
    BY <1>1, <1>5, Counters DEF BudgetInv
  <1>7. \A v \in Workers : h'[v] = h[v] \/ Accounts(h[v])'
    BY <1>1, <1>2, <1>3, <1>4, <1>6 DEF Accounts
  <1>8. \A n \in DOMAIN stream : Held(n) => Held(n)'
    BY <1>1, <1>3 DEF Held, Busy
  <1> QED BY <1>1, <1>4, <1>7, <1>8, BudgetStep

LEMMA BudgetNext ==
    /\ HandlingInv /\ HandlingInv' /\ CurrentInv /\ ChainInv /\ BudgetInv /\ [Next]_vars
    => BudgetInv'
  <1> SUFFICES ASSUME HandlingInv, HandlingInv', CurrentInv, ChainInv, BudgetInv, [Next]_vars
               PROVE  BudgetInv'
    OBVIOUS
  <1>1. TypeOK /\ TypeOK'
    BY DEF HandlingInv
  <1>2. ASSUME NEW u \in Versions, Edit(u)
        PROVE  BudgetInv'
    BY <1>1, <1>2, BudgetQuiet DEF Edit
  <1>3. CASE Tick \/ UNCHANGED vars
    BY <1>1, <1>3, BudgetQuiet DEF Tick, vars
  <1>4. ASSUME NEW w \in Workers, Admit(w)
        PROVE  BudgetInv'
    <2>1. /\ Busy(w) /\ h[w].pc = "admit" /\ polls' = polls /\ stream' = stream
          /\ windows' = windows /\ opening' = opening /\ spoilt' = spoilt
      BY <1>4 DEF Admit, At, Busy
    <2>2. PICK q : /\ Go(w, q)
                   /\ \/ q = Idle /\ mishaps' = mishaps + 1
                      \/ /\ mishaps' = mishaps /\ Continues(q, h[w])
                         /\ q.pc = "fetch" \/ (q.pc = "ack" /\ q.then = "enqueue")
                         /\ q.job.attempt = h[w].job.attempt
      BY <1>1, <1>4, <2>1, AdmitLeads, Counters DEF WritesBack
    <2>3. Continues(q, h[w]) => q # Idle
      BY DEF Continues, Handler, Idle
    <2>4. "redelivered" \notin spoilt => Accounts(h[w])
      BY DEF BudgetInv
    <2>5. CASE "redelivered" \in spoilt
      BY <2>1, <2>5 DEF BudgetInv
    <2>6. CASE mishaps' = mishaps /\ "redelivered" \notin spoilt /\ Continues(q, h[w])
               /\ (q.pc = "fetch" \/ (q.pc = "ack" /\ q.then = "enqueue"))
               /\ q.job.attempt = h[w].job.attempt
      <3>1. Accounts(q)'
        BY <2>1, <2>4, <2>6 DEF Accounts, Continues
      <3> QED BY <1>1, <2>1, <2>2, <2>3, <2>6, <3>1, BudgetGo DEF Continues
    <2>7. CASE q = Idle /\ mishaps' = mishaps + 1
      BY <1>1, <2>1, <2>2, <2>7, BudgetGo
    <2> QED BY <2>2, <2>5, <2>6, <2>7
  <1>5. ASSUME NEW w \in Workers, Mark(w) \/ Emit(w)
        PROVE  BudgetInv'
    <2>1. /\ Busy(w) /\ h[w].pc \in {"mark", "emit"} /\ polls' = polls /\ stream' = stream
          /\ windows' = windows /\ opening' = opening /\ spoilt \subseteq spoilt'
      BY <1>5 DEF Mark, Emit, At, Busy, Spoil
    <2>2. PICK q : /\ Go(w, q)
                   /\ \/ q = Idle /\ mishaps' = mishaps + 1
                      \/ /\ mishaps' = mishaps /\ Continues(q, h[w])
                         /\ \/ q.pc = "emit" /\ q.job = h[w].job
                            \/ WritesBack(q, h[w], 1, h[w].seen)
      BY <1>5, MarkLeads, EmitLeads DEF WritesBack
    <2>3. Continues(q, h[w]) => q # Idle
      BY DEF Continues, Handler, Idle
    <2>4. CASE "redelivered" \in spoilt
      BY <2>1, <2>4 DEF BudgetInv
    <2>5. CASE mishaps' = mishaps /\ "redelivered" \notin spoilt /\ Continues(q, h[w])
               /\ ((q.pc = "emit" /\ q.job = h[w].job) \/ WritesBack(q, h[w], 1, h[w].seen))
      <3>1. /\ Accounts(h[w]) /\ h[w].msg \in DOMAIN stream
            /\ stream[h[w].msg].win = h[w].job.win
        BY <2>1, <2>5, OwnWindow DEF BudgetInv
      <3>2. polls[h[w].job.win] <= stream[h[w].msg].attempt + mishaps + 1
        <4>1. /\ polls[h[w].job.win] <= stream[h[w].msg].attempt + mishaps
                                        + (IF Held(h[w].msg) THEN 1 ELSE 0)
          BY <2>5, <3>1 DEF BudgetInv
        <4>2. Held(h[w].msg)
          BY <2>1 DEF Held
        <4> QED BY <4>1, <4>2
      <3>3. h[w].job.attempt = stream[h[w].msg].attempt /\ h[w].job.attempt \in Nat
        BY <1>1, <2>1, <3>1, Counters DEF Accounts
      <3>4. polls[h[w].job.win] <= h[w].job.attempt + 1 + mishaps
        BY <1>1, <3>2, <3>3, Counters
      <3>5. Accounts(q)'
        BY <2>1, <2>5, <3>3, <3>4 DEF Accounts, Continues, WritesBack
      <3> QED BY <1>1, <2>1, <2>2, <2>3, <2>5, <3>5, BudgetGo DEF Continues
    <2>6. CASE q = Idle /\ mishaps' = mishaps + 1
      BY <1>1, <2>1, <2>2, <2>6, BudgetGo
    <2> QED BY <2>2, <2>4, <2>5, <2>6
  <1>6. ASSUME NEW w \in Workers, MoveToDlq(w)
        PROVE  BudgetInv'
    <2>1. /\ Busy(w) /\ h[w].pc = "dlq" /\ polls' = polls /\ stream' = stream
          /\ windows' = windows /\ opening' = opening /\ spoilt' = spoilt
      BY <1>6 DEF MoveToDlq, At, Busy
    <2>2. PICK q : q = Idle /\ Reply(w, q)
      BY <1>6 DEF MoveToDlq
    <2>3. Go(w, q) /\ mishaps' \in {mishaps, mishaps + 1}
      BY <1>1, <2>2, ReplyLemma
    <2>4. CASE "redelivered" \in spoilt
      BY <2>1, <2>4 DEF BudgetInv
    <2>5. CASE "redelivered" \notin spoilt
      <3>1. h[w].msg \notin DOMAIN stream
        BY <2>1, <2>5 DEF ChainInv
      <3> QED BY <1>1, <2>1, <2>2, <2>3, <3>1, BudgetGo
    <2> QED BY <2>4, <2>5
  <1>7. ASSUME NEW w \in Workers, CallFails(w)
        PROVE  BudgetInv'
    <2>1. PICK q : q = Idle /\ Go(w, q)
      BY <1>7 DEF CallFails
    <2> QED BY <1>1, <1>7, <2>1, BudgetGo DEF CallFails
  <1>8. CASE Crash
    <2>1. \A v \in Workers : h'[v] = h[v] \/ h'[v] = Idle
      BY <1>8 DEF Crash
    <2> QED BY <1>1, <1>8, <2>1, BudgetQuiet DEF Crash
  <1> QED
    BY <1>2, <1>3, <1>4, <1>5, <1>6, <1>7, <1>8, BudgetFetch, BudgetReceive, BudgetAck,
       BudgetWriteBack, BudgetOpenWindow, BudgetActivity DEF Next, Process

\* Each poll of a window used up an attempt of its job, except those that a
\* failed call or a crash had repeated.
THEOREM BudgetInvariant == Spec => []BudgetInv
  <1>1. Init => BudgetInv
    <2> SUFFICES ASSUME Init PROVE BudgetInv
      OBVIOUS
    <2>1. \A n \in 1 .. MaxWindows : polls[n] <= MaxAttempts + mishaps
      BY Bounds DEF Init
    <2> QED BY <2>1 DEF Init, BudgetInv, Accounts, Idle
  <1> QED BY <1>1, BudgetNext, HandlingInvariant, CurrentInvariant, ChainInvariant, PTL DEF Spec

\* "Max polls per activation window" (maxAttempts): deferrals, rate limits and
\* requeues cost no poll, a failed call or a crash costs at most one.
THEOREM PollBudget == Spec => []PollsBounded
  <1>1. HandlingInv /\ BudgetInv => PollsBounded
    <2> SUFFICES ASSUME HandlingInv, BudgetInv, "redelivered" \notin spoilt,
                        NEW n \in 1 .. windows
                 PROVE  polls[n] <= MaxAttempts + mishaps
      BY DEF PollsBounded
    <2>1. windows \in 0 .. MaxWindows
      BY DEF HandlingInv, TypeOK
    <2>2. n \in 1 .. MaxWindows
      BY <2>1, Bounds
    <2> QED BY <2>2 DEF BudgetInv
  <1> QED BY <1>1, HandlingInvariant, BudgetInvariant, PTL

-----------------------------------------------------------------------------
\* LastInv is inductive

\* Neither the Stream nor local changes; a handler that lets go of its entry
\* leaves a job with the version of local.
LEMMA LastStep ==
    ASSUME LastInv, spoilt \subseteq spoilt', local' = local, stream' = stream,
           windows' = windows, opening' = opening,
           spoilt' \subseteq {"chain"} =>
              /\ \A m \in DOMAIN stream :
                    Held(m) /\ ~Held(m)' /\ stream[m].win = windows => stream[m].last = local
              /\ \A v \in Workers : h'[v] = h[v] \/ h'[v] = Idle \/ Compares(h[v])'
    PROVE  LastInv'
  <1> SUFFICES ASSUME spoilt' \subseteq {"chain"} PROVE LastInv'
    BY DEF LastInv
  <1>1. spoilt \subseteq {"chain"}
    OBVIOUS
  <1>2. opening' # NoJob => opening'.last = local'
    BY <1>1 DEF LastInv
  <1>3. \A m \in DOMAIN stream' : stream'[m].win = windows' /\ ~Held(m)' => stream'[m].last = local'
    BY <1>1 DEF LastInv
  <1>4. \A v \in Workers : Busy(v)' => Compares(h[v])'
    BY <1>1 DEF LastInv, Compares, Busy, Idle
  <1> QED BY <1>2, <1>3, <1>4 DEF LastInv

\* What a handler leaves when it stops and nothing is spoilt.
LEMMA LastLoss ==
    ASSUME HandlingInv, ChainInv, LastInv, spoilt \subseteq {"chain"},
           NEW w \in Workers, Busy(w), Loses(h[w]) \subseteq {"chain"},
           h[w].msg \in DOMAIN stream, stream[h[w].msg].win = windows
    PROVE  stream[h[w].msg].last = local
  <1>1. h[w] \in Handler /\ h[w].job.win = windows /\ Compares(h[w])
    BY BusyLemma DEF HandlingInv, OwnEntry, LastInv
  <1>2. h[w].pc \notin {"enqueue", "dlq"}
    BY DEF ChainInv
  <1>3. CASE h[w].pc \in {"admit", "fetch", "mark", "emit"}
    BY <1>1, <1>3 DEF Compares
  <1>4. CASE h[w].pc = "ack" /\ h[w].then # "enqueue"
    BY <1>1, <1>4 DEF Compares
  <1>5. CASE h[w].pc = "ack" /\ h[w].then = "enqueue"
    BY <1>1, <1>5 DEF Compares, Loses
  <1> QED BY <1>1, <1>2, <1>3, <1>4, <1>5 DEF Handler

\* A handler w goes on to q with its entry, or stops.
LEMMA LastGo ==
    ASSUME HandlingInv, ChainInv, LastInv, spoilt \subseteq spoilt', local' = local,
           stream' = stream, windows' = windows, opening' = opening,
           NEW w \in Workers, NEW q, Busy(w), Go(w, q),
           spoilt' \subseteq {"chain"} =>
              \/ q = Idle /\ Loses(h[w]) \subseteq {"chain"}
              \/ q \in Handler /\ q.msg = h[w].msg /\ Compares(q)'
    PROVE  LastInv'
  <1>1. h'[w] = q /\ \A v \in Workers : v # w => h'[v] = h[v]
    BY GoLemma DEF HandlingInv
  <1>2. ASSUME spoilt' \subseteq {"chain"}
        PROVE  \A v \in Workers : h'[v] = h[v] \/ h'[v] = Idle \/ Compares(h[v])'
    BY <1>1, <1>2 DEF Compares
  <1>3. ASSUME spoilt' \subseteq {"chain"}, NEW m \in DOMAIN stream,
               Held(m), ~Held(m)', stream[m].win = windows
        PROVE  stream[m].last = local
    <2>1. PICK v \in Workers : Busy(v) /\ h[v].msg = m
      BY <1>3 DEF Held
    <2>2. v = w
      BY <1>1, <1>3, <2>1 DEF Held, Busy
    <2>3. ~(q \in Handler /\ q.msg = h[w].msg)
      BY <1>1, <1>3, <2>1, <2>2 DEF Held, Busy, Handler
    <2> QED BY <1>3, <2>1, <2>2, <2>3, LastLoss
  <1> QED BY <1>2, <1>3, LastStep

LEMMA LastEmit ==
    ASSUME HandlingInv, CurrentInv, ChainInv, LastInv, NEW w \in Workers, Emit(w)
    PROVE  LastInv'
  <1> SUFFICES ASSUME spoilt' \subseteq {"chain"} PROVE LastInv'
    BY DEF LastInv
  <1>1. /\ TypeOK /\ Busy(w) /\ h[w].pc = "emit" /\ local' = h[w].seen
        /\ stream' = stream /\ windows' = windows /\ opening' = opening
    BY DEF HandlingInv, Emit, At, Busy
  <1>2. /\ spoilt \subseteq {"chain"} /\ h[w].job.win = windows
        /\ mishaps' > mishaps => "repeat" \in spoilt'
    BY <1>1 DEF Emit, Spoil, LosesAfter
  <1>3. PICK q : Go(w, q) /\ WritesBack(q, h[w], 1, h[w].seen)
    <2>1. mishaps \in Nat
      BY <1>1, Counters
    <2>2. mishaps' # mishaps + 1
      BY <1>2, <2>1
    <2> QED BY <2>2, EmitLeads
  <1>4. h'[w] = q /\ \A v \in Workers : v # w => h'[v] = h[v]
    BY <1>1, <1>3, GoLemma
  <1>5. /\ windows # opening.win
        /\ \A m \in DOMAIN stream : stream[m].win = windows => m = h[w].msg
        /\ \A v \in Workers : Busy(v) /\ h[v].pc # "dlq" /\ h[v].job.win = windows => v = w
    BY <1>1, <1>2, OwnWindow
  <1>6. opening' = NoJob
    BY <1>1, <1>5 DEF CurrentInv
  <1>7. \A m \in DOMAIN stream' : stream'[m].win = windows' => Held(m)'
    BY <1>1, <1>3, <1>4, <1>5 DEF Held, Busy, WritesBack, Continues
  <1>8. ASSUME NEW v \in Workers, Busy(v)'
        PROVE  Compares(h[v])'
    <2>1. CASE v = w
      BY <1>1, <1>3, <1>4, <2>1 DEF Compares, WritesBack
    <2>2. CASE v # w
      BY <1>1, <1>4, <1>5, <1>8, <2>2 DEF Compares, Busy
    <2> QED BY <2>1, <2>2
  <1> QED BY <1>6, <1>7, <1>8 DEF LastInv

LEMMA LastAck ==
    ASSUME HandlingInv, ChainInv, LastInv, NEW w \in Workers, Ack(w)
    PROVE  LastInv'
  <1> SUFFICES ASSUME spoilt' \subseteq {"chain"} PROVE LastInv'
    BY DEF LastInv
  <1>1. /\ TypeOK /\ Busy(w) /\ h[w].pc = "ack" /\ local' = local /\ windows' = windows
        /\ opening' = opening /\ stream' = [m \in DOMAIN stream \ {h[w].msg} |-> stream[m]]
        /\ spoilt \subseteq {"chain"}
    BY DEF HandlingInv, Ack, At, Busy, Spoil
  <1>2. h[w] \in Handler
    BY <1>1, BusyLemma
  <1>3. PICK q : /\ Go(w, q)
                 /\ \/ q = Idle \/ q.pc = "dlq"
                    \/ q.pc = "enqueue" /\ h[w].then = "enqueue" /\ q.job = h[w].job
    BY <1>2, AckLeads DEF Handler
  <1>4. h'[w] = q /\ \A v \in Workers : v # w => h'[v] = h[v]
    BY <1>1, <1>3, GoLemma
  <1>5. opening' # NoJob => opening'.last = local'
    BY <1>1 DEF LastInv
  <1>6. ASSUME NEW m \in DOMAIN stream', stream'[m].win = windows', ~Held(m)'
        PROVE  stream'[m].last = local'
    <2>1. m \in DOMAIN stream /\ stream'[m] = stream[m] /\ m # h[w].msg
      BY <1>1, <1>6
    <2>2. ~Held(m)
      BY <1>4, <1>6, <2>1 DEF Held, Busy
    <2> QED BY <1>1, <1>6, <2>1, <2>2 DEF LastInv
  <1>7. ASSUME NEW v \in Workers, Busy(v)'
        PROVE  Compares(h[v])'
    <2>1. CASE v = w
      BY <1>1, <1>3, <1>4, <1>7, <2>1 DEF Compares, LastInv, Busy, Idle
    <2>2. CASE v # w
      <3>1. h'[v] = h[v] /\ Busy(v) /\ h[v].msg # h[w].msg /\ Compares(h[v])
        BY <1>1, <1>4, <1>7, <2>2 DEF ChainInv, LastInv, Busy
      <3>2. h[v].pc \notin {"enqueue", "dlq"} => stream'[h[v].msg] = stream[h[v].msg]
        BY <1>1, <3>1 DEF ChainInv
      <3> QED BY <1>1, <3>1, <3>2 DEF Compares
    <2> QED BY <2>1, <2>2
  <1> QED BY <1>5, <1>6, <1>7 DEF LastInv

\* A job j enters the Stream; if it is of the newest window it has the version
\* of local.
LEMMA LastEntry ==
    ASSUME ChainInv, LastInv, spoilt \subseteq {"chain"}, NEW j, NEW m,
           j.win = windows => j.last = local,
           m \notin DOMAIN stream, DOMAIN stream' = DOMAIN stream \cup {m}, stream'[m] = j,
           \A n \in DOMAIN stream : stream'[n] = stream[n],
           \A v \in Workers : h'[v] = h[v] \/ (h'[v] = Idle /\ h[v].pc = "enqueue"),
           local' = local, windows' = windows, opening' = opening \/ opening' = NoJob
    PROVE  LastInv'
  <1>1. opening' # NoJob => opening'.last = local'
    BY DEF LastInv
  <1>2. ASSUME NEW n \in DOMAIN stream', stream'[n].win = windows', ~Held(n)'
        PROVE  stream'[n].last = local'
    <2>1. CASE n = m
      BY <1>2, <2>1
    <2>2. CASE n # m
      <3>1. n \in DOMAIN stream /\ stream'[n] = stream[n]
        BY <1>2, <2>2
      <3>2. ~Held(n)
        BY <1>2, <3>1 DEF Held, Busy, ChainInv
      <3> QED BY <1>2, <3>1, <3>2 DEF LastInv
    <2> QED BY <2>1, <2>2
  <1>3. ASSUME NEW v \in Workers, Busy(v)'
        PROVE  Compares(h[v])'
    <2>1. h'[v] = h[v] /\ Busy(v) /\ Compares(h[v])
      BY <1>3 DEF Busy, Idle, LastInv
    <2>2. h[v].pc \notin {"enqueue", "dlq"} => stream'[h[v].msg] = stream[h[v].msg]
      BY <2>1 DEF ChainInv
    <2> QED BY <2>1, <2>2 DEF Compares
  <1> QED BY <1>1, <1>2, <1>3 DEF LastInv

LEMMA LastWriteBack ==
    ASSUME HandlingInv, ChainInv, LastInv, NEW w \in Workers, WriteBack(w)
    PROVE  LastInv'
  <1> SUFFICES ASSUME spoilt' \subseteq {"chain"} PROVE LastInv'
    BY DEF LastInv
  <1>1. /\ TypeOK /\ Busy(w) /\ h[w].pc = "enqueue" /\ spoilt \subseteq {"chain"}
        /\ opening' = opening /\ windows' = windows /\ local' = local
    BY DEF HandlingInv, WriteBack, At, Busy
  <1>2. PICK q : q = Idle /\ Go(w, q)
    BY WriteBackLeads
  <1>3. \A v \in Workers : h'[v] = h[v] \/ (h'[v] = Idle /\ h[v].pc = "enqueue")
    BY <1>1, <1>2, GoLemma
  <1>4. PICK m \in MsgIds :
            /\ m \notin DOMAIN stream
            /\ DOMAIN stream' = DOMAIN stream \cup {m} /\ stream'[m] = h[w].job
            /\ \A n \in DOMAIN stream : stream'[n] = stream[n]
    BY WriteBackLeads
  <1>5. PICK j : j = h[w].job
    OBVIOUS
  <1>6. j.win = windows => j.last = local
    BY <1>1, <1>5 DEF LastInv, Compares
  <1> QED BY <1>1, <1>3, <1>4, <1>5, <1>6, LastEntry

LEMMA LastOpenWindow ==
    ASSUME HandlingInv, ChainInv, LastInv, OpenWindow
    PROVE  LastInv'
  <1> SUFFICES ASSUME spoilt' \subseteq {"chain"} PROVE LastInv'
    BY DEF LastInv
  <1>1. /\ opening # NoJob /\ opening' = NoJob /\ h' = h /\ windows' = windows /\ local' = local
        /\ spoilt \subseteq {"chain"}
    BY OpenWindowLeads DEF OpenWindow
  <1>2. CASE stream' = stream
    <2>1. \A m \in DOMAIN stream : Held(m)' <=> Held(m)
      BY <1>1 DEF Held, Busy
    <2> QED BY <1>1, <1>2, <2>1 DEF LastInv, Compares, Busy
  <1>3. ASSUME NEW m \in MsgIds, m \notin DOMAIN stream,
               DOMAIN stream' = DOMAIN stream \cup {m}, stream'[m] = opening,
               \A n \in DOMAIN stream : stream'[n] = stream[n]
        PROVE  LastInv'
    <2>1. PICK j : j = opening
      OBVIOUS
    <2>2. j.last = local
      BY <1>1, <2>1 DEF LastInv
    <2> QED BY <1>1, <1>3, <2>1, <2>2, LastEntry
  <1> QED BY <1>2, <1>3, OpenWindowLeads

LEMMA LastActivity ==
    ASSUME HandlingInv, CurrentInv, LastInv, NEW u \in Versions, Activity(u)
    PROVE  LastInv'
  <1> SUFFICES ASSUME spoilt' \subseteq {"chain"} PROVE LastInv'
    BY DEF LastInv
  <1>1. /\ opening'.last = u /\ local' = u /\ windows' = windows + 1
        /\ stream' = stream /\ h' = h
    BY ActivityLeads DEF Activity
  <1>2. TypeOK
    BY DEF HandlingInv
  <1>3. windows \in Nat
    BY <1>2, Bounds DEF TypeOK
  <1>4. \A m \in DOMAIN stream : stream[m].win # windows + 1
    <2>1. \A m \in DOMAIN stream : stream[m].win <= windows /\ stream[m].win \in Nat
      BY <1>2, Counters DEF CurrentInv, Current
    <2> QED BY <1>3, <2>1
  <1>5. \A v \in Workers : Busy(v) => h[v].job.win # windows + 1
    <2>1. \A v \in Workers : Busy(v) => h[v].job.win <= windows /\ h[v].job.win \in Nat
      BY <1>2, Counters DEF CurrentInv, Current
    <2> QED BY <1>3, <2>1
  <1> QED BY <1>1, <1>4, <1>5 DEF LastInv, Compares, Busy

LEMMA LastReceive ==
    ASSUME HandlingInv, LastInv, NEW w \in Workers, NEW m \in MsgIds, Receive(w, m)
    PROVE  LastInv'
  <1> SUFFICES ASSUME spoilt' \subseteq {"chain"} PROVE LastInv'
    BY DEF LastInv
  <1>1. /\ TypeOK /\ ~Busy(w) /\ m \in DOMAIN stream
        /\ \A v \in Workers : Busy(v) => h[v].msg # m
        /\ spoilt' = spoilt
    BY ReceiveLeads DEF HandlingInv
  <1>2. PICK q : Go(w, q) /\ q.job = stream[m] /\ q.msg = m
    BY ReceiveLeads
  <1>3. h'[w] = q /\ \A v \in Workers : v # w => h'[v] = h[v]
    BY <1>1, <1>2, GoLemma
  <1>4. local' = local /\ stream' = stream /\ windows' = windows /\ opening' = opening
    BY DEF Receive
  <1>5. stream[m].win = windows => stream[m].last = local
    BY <1>1 DEF LastInv, Held
  <1>6. \A v \in Workers : h'[v] = h[v] \/ Compares(h[v])'
    BY <1>2, <1>3, <1>4, <1>5 DEF Compares
  <1>7. \A n \in DOMAIN stream : Held(n) => Held(n)'
    BY <1>1, <1>3 DEF Held, Busy
  <1> QED BY <1>1, <1>4, <1>6, <1>7, LastStep

LEMMA LastNext ==
    HandlingInv /\ CurrentInv /\ ChainInv /\ LastInv /\ [Next]_vars => LastInv'
  <1> SUFFICES ASSUME HandlingInv, CurrentInv, ChainInv, LastInv, [Next]_vars PROVE LastInv'
    OBVIOUS
  <1>1. /\ TypeOK /\ \A w \in Workers : Busy(w) => h[w] \in Handler
        /\ spoilt \subseteq {"chain"} => \A w \in Workers : Busy(w) => Compares(h[w])
    BY BusyLemma DEF HandlingInv, LastInv
  <1>2. \A w \in Workers : \A q : Continues(q, h[w]) => q \in Handler /\ q.msg = h[w].msg
    BY DEF Continues
  <1>3. ASSUME NEW u \in Versions, Edit(u)
        PROVE  LastInv'
    BY <1>3, LastStep DEF Edit, Held, Busy
  <1>4. CASE Tick \/ UNCHANGED vars
    BY <1>4, LastStep DEF Tick, vars, Held, Busy
  <1>5. ASSUME NEW w \in Workers, Admit(w)
        PROVE  LastInv'
    <2>1. /\ Busy(w) /\ h[w].pc = "admit" /\ local' = local /\ stream' = stream
          /\ windows' = windows /\ opening' = opening /\ spoilt' = spoilt
      BY <1>5 DEF Admit, At, Busy
    <2>2. PICK q : /\ Go(w, q)
                   /\ \/ q = Idle
                      \/ /\ Continues(q, h[w]) /\ q.job.last = h[w].job.last
                         /\ q.pc = "fetch" \/ (q.pc = "ack" /\ q.then = "enqueue")
      BY <1>5, AdmitLeads DEF WritesBack
    <2>3. Loses(h[w]) = {}
      BY <2>1 DEF Loses
    <2>4. Compares(h[w]) /\ Continues(q, h[w]) /\ q.job.last = h[w].job.last
          /\ (q.pc = "fetch" \/ (q.pc = "ack" /\ q.then = "enqueue")) => Compares(q)'
      BY <2>1 DEF Compares, Continues
    <2> QED BY <1>1, <1>2, <2>1, <2>2, <2>3, <2>4, LastGo
  <1>6. ASSUME NEW w \in Workers, Fetch(w)
        PROVE  LastInv'
    <2>1. /\ Busy(w) /\ h[w].pc = "fetch" /\ local' = local /\ stream' = stream
          /\ windows' = windows /\ opening' = opening /\ spoilt' = spoilt
      BY <1>6 DEF Fetch, At, Busy
    <2>2. PICK q : Go(w, q) /\ Continues(q, h[w]) /\ q.job.last = h[w].job.last
      BY <1>6, FetchLeads DEF WritesBack
    <2>3. Compares(h[w]) => Compares(q)'
      BY <2>1, <2>2 DEF Compares, Continues
    <2> QED BY <1>1, <1>2, <2>1, <2>2, <2>3, LastGo
  <1>7. ASSUME NEW w \in Workers, Mark(w)
        PROVE  LastInv'
    <2>1. /\ Busy(w) /\ h[w].pc = "mark" /\ local' = local /\ stream' = stream
          /\ windows' = windows /\ opening' = opening /\ spoilt \subseteq spoilt'
      BY <1>7 DEF Mark, At, Busy, Spoil
    <2>2. PICK q : /\ Go(w, q)
                   /\ \/ q = Idle /\ mishaps' = mishaps + 1
                      \/ Continues(q, h[w]) /\ q.pc = "emit" /\ q.job = h[w].job
                      \/ h[w].seen \in applied /\ WritesBack(q, h[w], 1, h[w].seen)
      BY <1>7, MarkLeads
    <2>3. mishaps' = mishaps + 1 => "update" \in spoilt'
      <3>1. mishaps \in Nat
        BY <1>1, Counters
      <3> QED BY <1>7, <2>1, <3>1 DEF Mark, Spoil, LosesAfter
    <2>4. h[w].seen \in applied /\ h[w].seen # local => "returned" \in spoilt'
      BY <1>7 DEF Mark, Spoil, ShouldApply
    <2>5. ASSUME spoilt' \subseteq {"chain"}
          PROVE  q \in Handler /\ q.msg = h[w].msg /\ Compares(q)'
      <3>1. Compares(h[w]) /\ Continues(q, h[w])
        BY <1>1, <2>1, <2>2, <2>3, <2>5 DEF WritesBack
      <3>2. CASE q.pc = "emit" /\ q.job = h[w].job
        BY <1>2, <2>1, <3>1, <3>2 DEF Compares, Continues
      <3>3. CASE h[w].seen = local /\ WritesBack(q, h[w], 1, h[w].seen)
        BY <1>2, <2>1, <3>1, <3>3 DEF Compares, WritesBack
      <3> QED BY <2>2, <2>3, <2>4, <2>5, <3>2, <3>3
    <2> QED BY <2>1, <2>2, <2>5, LastGo
  <1>8. ASSUME NEW w \in Workers, MoveToDlq(w)
        PROVE  LastInv'
    <2>1. PICK q : q = Idle /\ Reply(w, q)
      BY <1>8 DEF MoveToDlq
    <2>2. Busy(w) /\ Loses(h[w]) = {}
      BY <1>8 DEF MoveToDlq, At, Busy, Loses
    <2> QED BY <1>1, <1>8, <2>1, <2>2, ReplyLemma, LastGo DEF MoveToDlq
  <1>9. ASSUME NEW w \in Workers, CallFails(w)
        PROVE  LastInv'
    <2>1. PICK q : q = Idle /\ Go(w, q)
      BY <1>9 DEF CallFails
    <2>2. spoilt' = spoilt \cup Loses(h[w])
      BY <1>9 DEF CallFails
    <2> QED BY <1>9, <2>1, <2>2, LastGo DEF CallFails
  <1>10. CASE Crash
    <2>1. PICK W \in SUBSET {w \in Workers : Busy(w)} :
              /\ h' = [w \in Workers |-> IF w \in W THEN Idle ELSE h[w]]
              /\ spoilt' = spoilt \cup UNION {Loses(h[w]) : w \in W}
      BY <1>10 DEF Crash
    <2>2. /\ local' = local /\ stream' = stream /\ windows' = windows /\ opening' = opening
          /\ spoilt \subseteq spoilt' /\ \A v \in Workers : h'[v] = h[v] \/ h'[v] = Idle
      BY <1>10, <2>1 DEF Crash
    <2>3. ASSUME spoilt' \subseteq {"chain"}, NEW m \in DOMAIN stream,
                 Held(m), ~Held(m)', stream[m].win = windows
          PROVE  stream[m].last = local
      <3>1. PICK v \in Workers : Busy(v) /\ h[v].msg = m
        BY <2>3 DEF Held
      <3>2. v \in W
        BY <2>1, <2>3, <3>1 DEF Held, Busy
      <3>3. Loses(h[v]) \subseteq {"chain"}
        BY <2>1, <2>3, <3>2
      <3> QED BY <2>2, <2>3, <3>1, <3>3, LastLoss
    <2> QED BY <2>2, <2>3, LastStep
  <1> QED
    BY <1>3, <1>4, <1>5, <1>6, <1>7, <1>8, <1>9, <1>10, LastEmit, LastAck, LastWriteBack,
       LastOpenWindow, LastActivity, LastReceive DEF Next, Process

\* The job of the newest window, in the Stream or with its handler, knows the
\* version last handed to the inbound pipeline.
THEOREM LastInvariant == Spec => []LastInv
  <1>1. Init => LastInv
    BY DEF Init, LastInv, Busy, Idle
  <1> QED BY <1>1, LastNext, HandlingInvariant, CurrentInvariant, ChainInvariant, PTL DEF Spec

\* A waiting job compares the origin with what was last handed to the inbound
\* pipeline, so that the next poll repairs exactly what is stale, unless the
\* update was lost after the mark or one of the races of Spoils happened.
THEOREM JobsCompareWithLocal == Spec => []ComparesWithLocal
  <1>1. LastInv => ComparesWithLocal
    BY DEF LastInv, ComparesWithLocal, Waiting, Held
  <1> QED BY <1>1, LastInvariant, PTL
=============================================================================
