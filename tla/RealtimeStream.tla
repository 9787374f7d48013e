---------------------------- MODULE RealtimeStream ----------------------------
(***************************************************************************)
(* FEP-3ab2 event streams: sessions with a one-time ticket, the stream     *)
(* request with its handshake and replay, the dispatcher that stores and   *)
(* publishes events, the hub of every process and the control requests,    *)
(* with one client that reconnects with the Last-Event-ID it has.          *)
(* Sources: fedify-sidecar/src/fep3ab2.                                    *)
(*                                                                         *)
(* A topic is the set of events published to it.  The processes read the   *)
(* event streams in one consumer group, so each event reaches one of them. *)
(* A write to a socket that the client does not read any more changes      *)
(* nothing; a client that stops reading in the middle of a batch has read  *)
(* a prefix of it.  The checks of origin, principal and user agent refuse  *)
(* a request before it changes anything and are left out.                  *)
(***************************************************************************)
EXTENDS Naturals, Sequences, FiniteSets

CONSTANTS
    Processes,   \* sidecar processes
    Topics,      \* a partition of the events
    Private,     \* events for one principal, never stored
    First,       \* topics of a new session
    MaxReplay,   \* maxReplayEvents
    Batch,       \* scanBatchSize
    MaxIndex,    \* maxIndexSize
    MaxBuffer,   \* maxBufferedEvents of a paused connection
    MaxTopics,   \* maxTopicsPerSession
    MaxSessions, \* bound: sessions the client opens
    MaxRequests, \* bound: stream requests of the client
    MaxControls, \* bound: control requests that change topics
    MaxExtras    \* bound: faults, expirations, control requests, private messages

ASSUME ConstantsAssumption ==
    /\ {MaxReplay, Batch, MaxIndex} \subseteq Nat \ {0}
    /\ {MaxBuffer, MaxTopics, MaxSessions, MaxRequests, MaxControls, MaxExtras} \subseteq Nat
    /\ IsFiniteSet(UNION Topics) /\ Private \subseteq UNION Topics
    /\ \A t, u \in Topics : t # u => t \cap u = {}
    /\ First \subseteq Topics /\ Cardinality(First) <= MaxTopics

VARIABLES
    seqno,    \* replay:sequence
    event,    \* number -> event, for the numbers given out
    index,    \* replay:index, the numbers in it
    keys,     \* numbers whose replay:event key exists
    disp,     \* process -> event, step and number its dispatcher is at, or Resting
    arrived,  \* events that a process has taken up
    sess,     \* the sessions in Redis
    ctl,      \* control requests that are changing topics
    req,      \* stream requests
    hub,      \* process -> session -> request whose connection is registered, or 0
    cur,      \* request the client reads from, or 0
    last,     \* number in the client's Last-Event-ID; 0: none, or not a replay id
    got,      \* events the client has read
    published,\* history: stored events that went through a hub
    excused,  \* history: events the client may miss, see Publish, Store and Page
    raced,    \* history: requests that a revocation did not reach
    stale,    \* history: requests that a change of topics did not reach
    unsure,   \* history: sessions with overlapping or unannounced changes of topics
    extras    \* number of faults, expirations, control requests, private messages

store == <<seqno, event, index, keys>>
client == <<cur, last, got>>
history == <<published, excused, raced, stale, unsure>>
vars == <<store, disp, arrived, sess, ctl, req, hub, client, history, extras>>

Events == UNION Topics
Public == Events \ Private
Numbers == 1 .. Cardinality(Public)
Sessions == 1 .. MaxSessions
Requests == 1 .. MaxRequests
Controls == 1 .. MaxControls

Item == [e : Events, id : {0} \cup Numbers]

NoSession == [state |-> "none", topics |-> {}, used |-> FALSE, over |-> FALSE]
NoRequest == [pc |-> "none", ended |-> FALSE]
NoScan == [from |-> 0, topics |-> {}, offset |-> 0, found |-> << >>, missing |-> {}, shifted |-> FALSE]
NoControl == [pc |-> "none"]
Resting == [step |-> "rest"]

Session == [state : {"none", "live", "deleted", "revoked"},
            topics : SUBSET Topics, used : BOOLEAN, over : BOOLEAN]
Scan == [from : {0} \cup Numbers, topics : SUBSET Topics, offset : {0} \cup Numbers,
         found : Seq(Item), missing : SUBSET Numbers, shifted : BOOLEAN]
Request == [pc : {"claim", "refused", "register", "page", "send", "open", "closed"},
            p : Processes, s : Sessions, topics : SUBSET Topics, paused : BOOLEAN,
            buffer : Seq(Item), ended : BOOLEAN, cleaned : BOOLEAN, scan : Scan]
Control == [pc : {"list", "publish", "done"}, s : Sessions, topics : SUBSET Topics]
Dispatch == [e : Public, step : {"store", "publish"}, n : {0} \cup Numbers]

TypeOK ==
    /\ seqno \in {0} \cup Numbers /\ event \in [1 .. seqno -> Public]
    /\ index \cup keys \subseteq 1 .. seqno /\ Cardinality(index) <= MaxIndex
    /\ disp \in [Processes -> {Resting} \cup Dispatch]
    /\ sess \in [Sessions -> Session]
    /\ \A s \in Sessions : Cardinality(sess[s].topics) <= MaxTopics
    /\ ctl \in [Controls -> {NoControl} \cup Control]
    /\ req \in [Requests -> {NoRequest} \cup Request]
    /\ \A r \in Requests : req[r] # NoRequest =>
        Len(req[r].scan.found) <= MaxReplay /\ Len(req[r].buffer) <= MaxBuffer
    /\ hub \in [Processes -> [Sessions -> {0} \cup Requests]]
    /\ cur \in {0} \cup Requests /\ last \in {0} \cup Numbers
    /\ got \cup arrived \subseteq Events /\ published \cup excused \subseteq Public
    /\ raced \cup stale \subseteq Requests /\ unsure \subseteq Sessions
    /\ extras \in 0 .. MaxExtras

-----------------------------------------------------------------------------
\* The client and the hub

\* One more fault, expiration, control request or private message.
Extra == extras < MaxExtras /\ extras' = extras + 1

Matches(e, T) == \E t \in T : e \in t

\* The request whose connection is in the hub under the session of r, or 0.
Holder(r) == hub[req[r].p][req[r].s]

\* The connection of request r is in its hub.
Registered(r) == r # 0 /\ req[r] # NoRequest /\ Holder(r) = r

\* The client reads the batch b from request r, or a part of it.
Reads(r, b) ==
    IF cur = r /\ r # 0 /\ ~req[r].ended
       /\ b # << >>
    THEN \E k \in DOMAIN b :
            /\ got' = got \cup {b[i].e : i \in 1 .. k}
            /\ last' = b[k].id
            /\ cur' = IF k < Len(b) THEN 0 ELSE cur
    ELSE UNCHANGED client

\* closeSession for the connections R
Without(R) == [p \in Processes |-> [s \in Sessions |-> IF hub[p][s] \in R THEN 0 ELSE hub[p][s]]]
Ended(R) == [r \in Requests |-> IF r \in R THEN [req[r] EXCEPT !.ended = TRUE] ELSE req[r]]

\* Fep3ab2EventHub.publish in the processes P
HubPublish(P, e, id) ==
    LET hit == {r \in Requests : Registered(r) /\ req[r].p \in P /\ Matches(e, req[r].topics)}
        full == {r \in hit : req[r].paused /\ Len(req[r].buffer) >= MaxBuffer}
    IN  /\ req' = [r \in Requests |->
                    CASE r \in full -> [req[r] EXCEPT !.ended = TRUE]
                      [] r \in hit \ full /\ req[r].paused ->
                            [req[r] EXCEPT !.buffer = Append(@, [e |-> e, id |-> id])]
                      [] OTHER -> req[r]]
        /\ hub' = Without(full)
        /\ IF cur \in hit /\ ~req[cur].paused THEN Reads(cur, <<[e |-> e, id |-> id]>>)
           ELSE UNCHANGED client

-----------------------------------------------------------------------------
\* Fep3ab2TopicRouter, Fep3ab2Dispatcher and Fep3ab2ReplayStore.append

\* A private message is published by every process, past the dispatcher.
PrivateMessage(e) ==
    /\ e \in Private \ arrived
    /\ arrived' = arrived \cup {e}
    /\ Extra
    /\ HubPublish(Processes, e, 0)
    /\ UNCHANGED <<store, disp, sess, ctl, history>>

\* The dispatcher of p takes up the next event of its queue: INCR.  Events still
\* in the queue are as good as not arrived.
Incr(p, e) ==
    /\ e \in Public \ arrived
    /\ arrived' = arrived \cup {e}
    /\ disp[p] = Resting
    /\ seqno' = seqno + 1
    /\ event' = Append(event, e)
    /\ disp' = [disp EXCEPT ![p] = [e |-> e, step |-> "store", n |-> seqno']]
    /\ UNCHANGED <<index, keys, sess, ctl, req, hub, client, history, extras>>

\* The queue behind the event in progress is full: a new event is published
\* at once and not stored.
Bypass(p, e) ==
    /\ e \in Public \ arrived
    /\ arrived' = arrived \cup {e}
    /\ disp[p] # Resting
    /\ Extra
    /\ HubPublish({p}, e, 0)
    /\ UNCHANGED <<store, disp, sess, ctl, history>>

\* Wrong: ranks counted from one.
TrimmedLate(I) == {n \in I : Cardinality({m \in I : m > n}) > MaxIndex}

\* Numbers that ZREMRANGEBYRANK removes from the index I.
Trimmed(I) == {n \in I : Cardinality({m \in I : m > n}) >= MaxIndex}

\* The requests in the middle of a scan from which numbers S are taken away.
Shifted(S) ==
    [r \in Requests |->
        IF req[r].pc = "page" /\ \E n \in S : n > req[r].scan.from
        THEN [req[r] EXCEPT !.scan.shifted = TRUE] ELSE req[r]]

\* The numbers that were ever stored: an event whose key is gone is excused.
Stored == {n \in 1 .. seqno : n \in keys \/ event[n] \in excused}

\* The MULTI of append.  An event stored after one with a higher number may be
\* overlooked: excused.
Store(p) ==
    /\ disp[p].step = "store"
    /\ LET n == disp[p].n
           I == index \cup {n}
       IN  /\ index' = I \ Trimmed(I)
           /\ keys' = keys \cup {n}
           /\ req' = Shifted(Trimmed(I))
           /\ excused' = excused \cup {event[m] : m \in Trimmed(I)}
                                 \cup (IF \E m \in Stored : m > n THEN {event[n]} ELSE {})
    /\ \/ disp' = [disp EXCEPT ![p].step = "publish"] /\ UNCHANGED extras
       \/ disp' = [disp EXCEPT ![p].step = "publish", ![p].n = 0] /\ Extra   \* the reply is lost
    /\ UNCHANGED <<seqno, event, arrived, sess, ctl, hub, client, published, raced, stale, unsure>>

\* MULTI fails, or the event is too large: it is published unstored.  (If INCR
\* fails the same happens without a number.)
NotStored(p) ==
    /\ disp[p].step = "store"
    /\ Extra
    /\ disp' = [disp EXCEPT ![p].step = "publish", ![p].n = 0]
    /\ UNCHANGED <<store, arrived, sess, ctl, req, hub, client, history>>

\* The event goes to the connections of this process.
Publish(p) ==
    /\ disp[p].step = "publish"
    /\ HubPublish({p}, disp[p].e, disp[p].n)
    /\ disp' = [disp EXCEPT ![p] = Resting]
    /\ IF disp[p].n = 0 THEN UNCHANGED <<published, excused>>
       ELSE /\ published' = published \cup {disp[p].e}
            /\ excused' = IF \/ disp[p].e \in got'
                             \/ /\ 0 < last' /\ last' < disp[p].n
                                /\ \/ ~(Registered(cur) /\ Registered(cur)')
                                   \/ req'[cur] # req[cur]
                          THEN excused ELSE excused \cup {disp[p].e}
    /\ UNCHANGED <<store, arrived, sess, ctl, raced, stale, unsure, extras>>

\* The time to live of a stored event ends.
ExpireEvent(n) ==
    /\ n \in keys
    /\ Extra
    /\ keys' = keys \ {n}
    /\ excused' = excused \cup {event[n]}
    /\ UNCHANGED <<seqno, event, index, disp, arrived, sess, ctl, req, hub, client, published, raced, stale, unsure>>

-----------------------------------------------------------------------------
\* The client; createSession, and the first addTopics, whose message concerns
\* no connection

Cookie == Cardinality({s \in Sessions : sess[s] # NoSession})
Asked == Cardinality({r \in Requests : req[r] # NoRequest})

\* The client opens a new session when it has tried its ticket.
CreateSession ==
    /\ cur = 0 /\ Cookie < MaxSessions
    /\ Cookie = 0 \/ \E r \in Requests : req[r] # NoRequest /\ req[r].s = Cookie
    /\ sess' = [sess EXCEPT ![Cookie + 1] =
                [state |-> "live", topics |-> First, used |-> FALSE, over |-> FALSE]]
    /\ UNCHANGED <<store, disp, arrived, ctl, req, hub, client, history, extras>>

\* The client gives up, or sees the end of its stream.
Disconnect ==
    /\ cur # 0
    /\ cur' = 0
    /\ UNCHANGED <<store, disp, arrived, sess, ctl, req, hub, last, got, history, extras>>

\* What is left of a request that is over.
Over(x, pc) == [x EXCEPT !.pc = pc, !.ended = TRUE, !.topics = {}, !.buffer = << >>, !.scan = NoScan]

\* Wrong: revocation leaves the session and the ticket in Redis.
ExistsAfterRevoke(s) == sess[s].state # "none" /\ ~sess[s].over

\* resolveSession finds the session.
Exists(s) == sess[s].state = "live" /\ ~sess[s].over

-----------------------------------------------------------------------------
\* The handshake and the replay of GET /streaming/stream

\* The client sends its ticket and Last-Event-ID to p, which resolves the session.
Connect(p) ==
    /\ cur = 0 /\ Asked < MaxRequests /\ Cookie # 0 /\ Exists(Cookie)
    /\ cur' = Asked + 1
    /\ req' = [req EXCEPT ![Asked + 1] =
                [pc |-> "claim", p |-> p, s |-> Cookie, topics |-> sess[Cookie].topics,
                 paused |-> FALSE, buffer |-> << >>, ended |-> FALSE, cleaned |-> FALSE,
                 scan |-> [NoScan EXCEPT !.from = last, !.topics = sess[Cookie].topics]]]
    /\ UNCHANGED <<store, disp, arrived, sess, ctl, hub, last, got, history, extras>>

\* Wrong: SET without NX.
TakenNever(s) == FALSE

\* The consumed key of the ticket exists.
Taken(s) == sess[s].used

\* SET NX of the consumed key
Claim(r) ==
    /\ req[r].pc = "claim"
    /\ sess' = [sess EXCEPT ![req[r].s].used = TRUE]
    /\ req' = [req EXCEPT ![r] = IF Taken(req[r].s) THEN Over(@, "refused") ELSE [@ EXCEPT !.pc = "register"]]
    /\ UNCHANGED <<store, disp, arrived, ctl, hub, client, history, extras>>

\* Wrong: live events are not held back during a replay.
HandleUnpaused(x) == [x EXCEPT !.pc = IF x.scan.from = 0 THEN "open" ELSE "page"]

\* The handle of a connection, paused if there is something to replay.
Handle(x) ==
    IF x.scan.from = 0 THEN [x EXCEPT !.pc = "open", !.scan = NoScan]
    ELSE [x EXCEPT !.pc = "page", !.paused = TRUE]

\* registerConnection
Register(r) ==
    /\ req[r].pc = "register"
    /\ hub' = [hub EXCEPT ![req[r].p][req[r].s] = r]
    /\ req' = [req EXCEPT ![r] = Handle(@)]
    /\ UNCHANGED <<store, disp, arrived, sess, ctl, client, history, extras>>

Ahead(r) == {n \in index : n > req[r].scan.from}

\* The page of the index that the request reads next; none without topics.
Members(r) ==
    {n \in Ahead(r) :
        /\ req[r].scan.topics # {}
        /\ Cardinality({m \in Ahead(r) : m < n}) \in req[r].scan.offset .. req[r].scan.offset + Batch - 1}

\* The numbers S in ascending order.
Sorted(S) ==
    [i \in 1 .. Cardinality(S) |-> CHOOSE n \in S : Cardinality({m \in S : m < n}) = i - 1]

\* The events found, with those of the page, up to the limit.
Found(r) ==
    LET good == {n \in Members(r) \cap keys : Matches(event[n], req[r].scan.topics)}
        all == req[r].scan.found \o [i \in 1 .. Cardinality(good) |->
                    [e |-> event[Sorted(good)[i]], id |-> Sorted(good)[i]]]
    IN  SubSeq(all, 1, IF Len(all) < MaxReplay THEN Len(all) ELSE MaxReplay)

\* One round of replayAfter, with the topics the session had at the handshake.
\* When the scan ends, what the client will not be sent is excused: events beyond
\* the limit, all events if a page moved, other topics.
Page(r) ==
    /\ req[r].pc = "page"
    /\ LET full == Len(Found(r)) >= MaxReplay
           ends == Members(r) = {} \/ full
           seen == {n \in Members(r) : full => n <= Found(r)[MaxReplay].id}
           skips == {n \in Ahead(r) :
                        \/ req[r].scan.shifted \/ ~Matches(event[n], req[r].scan.topics)
                        \/ full /\ n \notin {Found(r)[i].id : i \in DOMAIN Found(r)}}
       IN  /\ req' = [req EXCEPT ![r].pc = IF ends THEN "send" ELSE "page",
                                 ![r].scan.offset = @ + Cardinality(Members(r)),
                                 ![r].scan.found = Found(r),
                                 ![r].scan.missing = @ \cup (seen \ keys)]
           /\ excused' = IF ends THEN excused \cup {event[n] : n \in skips} ELSE excused
    /\ UNCHANGED <<store, disp, arrived, sess, ctl, hub, client, published, raced, stale, unsure, extras>>

\* What is left of a request after its replay.
Replayed(x) == IF x.cleaned THEN Over(x, "closed") ELSE [x EXCEPT !.pc = "open", !.scan = NoScan]

\* ZREM of what was missing; the events are sent, then resumeSession sends those
\* that were held back.  If it resumes the connection of another request with the
\* same ticket, or the client stops reading at an event without a number, what it
\* has not read is excused.
Send(r) ==
    /\ req[r].pc = "send"
    /\ index' = index \ req[r].scan.missing
    /\ LET x == [Shifted(req[r].scan.missing) EXCEPT ![r] = Replayed(@)]
       IN  req' = IF Holder(r) = 0 THEN x
                  ELSE [x EXCEPT ![Holder(r)].paused = FALSE, ![Holder(r)].buffer = << >>]
    /\ IF cur = r \/ Holder(r) = 0
       THEN Reads(r, req[r].scan.found \o (IF Holder(r) = r THEN req[r].buffer ELSE << >>))
       ELSE Reads(Holder(r), req[Holder(r)].buffer)
    /\ excused' = excused \cup (IF Holder(r) \notin {0, r} /\ Holder(r) = cur
                               THEN {event[n] : n \in Stored} ELSE {})
                          \cup (IF last' = 0 THEN published \ got' ELSE {})
    /\ UNCHANGED <<seqno, event, keys, disp, arrived, sess, ctl, hub, published, raced, stale, unsure, extras>>

\* A Redis call of replayAfter throws.
ReplayFails(r) ==
    /\ req[r].pc = "page"
    /\ Extra
    /\ hub' = Without({Holder(r)} \ {0})
    /\ req' = [Ended({Holder(r)}) EXCEPT ![r] = Replayed(@)]
    /\ UNCHANGED <<store, disp, arrived, sess, ctl, client, history>>

\* A write finds too much data waiting for a slow client.
SendFails(r) ==
    /\ Registered(r) /\ cur = r
    /\ Extra
    /\ hub' = Without({r})
    /\ req' = Ended({r})
    /\ UNCHANGED <<store, disp, arrived, sess, ctl, client, history>>

\* The request closes and its cleanup removes the connection of its session.
Cleanup(r) ==
    /\ req[r].pc \in {"page", "send", "open"} /\ ~req[r].cleaned
    /\ cur # r
    /\ hub' = Without({Holder(r)} \ {0})
    /\ req' = [req EXCEPT ![r] = IF @.pc = "open" THEN Over(@, "closed")
                                ELSE [@ EXCEPT !.cleaned = TRUE, !.ended = TRUE]]
    /\ UNCHANGED <<store, disp, arrived, sess, ctl, client, history, extras>>

-----------------------------------------------------------------------------
\* Control requests, and time

\* DELETE /streaming/control: the keys go first, then the message.
Revoke(s) ==
    /\ Exists(s)
    /\ Extra
    /\ sess' = [sess EXCEPT ![s] = [@ EXCEPT !.state = "deleted", !.topics = {}, !.used = FALSE]]
    /\ UNCHANGED <<store, disp, arrived, ctl, req, hub, client, history>>

Told(s) == {r \in Requests : \E p \in Processes : hub[p][s] = r}
Untold(s) == {r \in Requests : req[r].pc \in {"claim", "register"} /\ req[r].s = s}

\* "revoked" reaches every hub, or is lost.
Revoked(s) ==
    /\ sess[s].state = "deleted"
    /\ sess' = [sess EXCEPT ![s].state = "revoked"]
    /\ \/ /\ hub' = Without(Told(s)) /\ req' = Ended(Told(s))
          /\ raced' = raced \cup Untold(s)
          /\ UNCHANGED extras
       \/ /\ Extra
          /\ raced' = raced \cup Untold(s) \cup Told(s)
          /\ UNCHANGED <<hub, req>>
    /\ UNCHANGED <<store, disp, arrived, ctl, client, published, excused, stale, unsure>>

Busy(s) == \E c \in Controls : ctl[c].pc \in {"list", "publish"} /\ ctl[c].s = s

\* addTopics (the script, within the limit) or removeTopic changes the set.
ChangeTopics(c, T) ==
    /\ ctl[c] = NoControl /\ \A d \in 1 .. c - 1 : ctl[d] # NoControl
    /\ Cookie # 0 /\ Exists(Cookie)
    /\ LET old == sess[Cookie].topics
       IN  \/ old \subseteq T /\ Cardinality(T) <= MaxTopics
           \/ T \subseteq old /\ Cardinality(old \ T) = 1
    /\ Extra
    /\ sess' = [sess EXCEPT ![Cookie].topics = T]
    /\ ctl' = [ctl EXCEPT ![c] = [pc |-> "list", s |-> Cookie, topics |-> T \ sess[Cookie].topics]]
    /\ unsure' = IF Busy(Cookie) THEN unsure \cup {Cookie} ELSE unsure
    /\ UNCHANGED <<store, disp, arrived, req, hub, client, published, excused, raced, stale>>

\* Wrong: the topics of the request are announced, not those of the session.
ListedGiven(c) == ctl[c].topics

\* SMEMBERS of listTopics
Listed(c) == sess[ctl[c].s].topics

\* listTopics reads the set back; it throws if the session is gone.
ListTopics(c) ==
    /\ ctl[c].pc = "list"
    /\ ctl' = [ctl EXCEPT ![c].pc = IF Exists(ctl[c].s) THEN "publish" ELSE "done",
                          ![c].topics = Listed(c)]
    /\ UNCHANGED <<store, disp, arrived, sess, req, hub, client, history, extras>>

\* "subscriptions_updated" reaches every hub, or is lost.
TopicsUpdated(c) ==
    /\ ctl[c].pc = "publish"
    /\ ctl' = [ctl EXCEPT ![c].pc = "done"]
    /\ \/ /\ req' = [r \in Requests |-> IF r \in Told(ctl[c].s)
                        THEN [req[r] EXCEPT !.topics = ctl[c].topics] ELSE req[r]]
          /\ stale' = stale \cup Untold(ctl[c].s)
          /\ UNCHANGED <<unsure, extras>>
       \/ /\ Extra
          /\ unsure' = unsure \cup {ctl[c].s}
          /\ UNCHANGED <<req, stale>>
    /\ UNCHANGED <<store, disp, arrived, sess, hub, client, published, excused, raced>>

\* The time of a session is over: its keys disappear.
ExpireSession(s) ==
    /\ sess[s].state # "none" /\ ~sess[s].over
    /\ Extra
    /\ sess' = [sess EXCEPT ![s] = [@ EXCEPT !.over = TRUE, !.topics = {}, !.used = FALSE]]
    /\ UNCHANGED <<store, disp, arrived, ctl, req, hub, client, history>>

\* The heartbeat of process p closes the connections of expired sessions.
Heartbeat(p) ==
    /\ LET R == {hub[p][s] : s \in {t \in Sessions : sess[t].over}} \ {0}
       IN  R # {} /\ hub' = Without(R) /\ req' = Ended(R)
    /\ UNCHANGED <<store, disp, arrived, sess, ctl, client, history, extras>>

-----------------------------------------------------------------------------
Init ==
    /\ seqno = 0 /\ event = << >> /\ index = {} /\ keys = {}
    /\ disp = [p \in Processes |-> Resting]
    /\ arrived = {}
    /\ sess = [s \in Sessions |-> NoSession]
    /\ ctl = [c \in Controls |-> NoControl]
    /\ req = [r \in Requests |-> NoRequest]
    /\ hub = [p \in Processes |-> [s \in Sessions |-> 0]]
    /\ cur = 0 /\ last = 0 /\ got = {}
    /\ published = {} /\ excused = {} /\ raced = {} /\ stale = {} /\ unsure = {}
    /\ extras = 0

Next ==
    \/ CreateSession \/ Disconnect
    \/ \E e \in Private : PrivateMessage(e)
    \/ \E p \in Processes :
        \/ \E e \in Public : Incr(p, e) \/ Bypass(p, e)
        \/ Store(p) \/ NotStored(p) \/ Publish(p)
        \/ Connect(p) \/ Heartbeat(p)
    \/ \E n \in Numbers : ExpireEvent(n)
    \/ \E r \in Requests :
        \/ Claim(r) \/ Register(r) \/ Page(r) \/ Send(r)
        \/ ReplayFails(r) \/ SendFails(r) \/ Cleanup(r)
    \/ \E s \in Sessions : Revoke(s) \/ Revoked(s) \/ ExpireSession(s)
    \/ \E c \in Controls :
        \/ \E T \in SUBSET Topics : ChangeTopics(c, T)
        \/ ListTopics(c) \/ TopicsUpdated(c)

Spec == Init /\ [][Next]_vars

-----------------------------------------------------------------------------
(* A client whose Last-Event-ID is past a stored event has read that event,
   unless a limit, an expiration, another process, its topics or a lost cursor
   kept it away: registering before the replay and holding live events back
   until it is sent leave no other gap. *)
NoSilentGap ==
    \A n \in 1 .. seqno : event[n] \in published /\ n <= last => event[n] \in got \cup excused

(* Two requests pass the handshake with one ticket only if the session went
   away between them. *)
TicketUsedOnce ==
    \A q, r \in Requests :
        /\ q # r
        /\ {req[q].pc, req[r].pc} \subseteq {"register", "page", "send", "open", "closed"}
        /\ req[q].s = req[r].s
        => ~Exists(req[q].s)

(* A connection of a revoked session stays open only if the message was lost
   or its handshake had begun before the revocation was announced. *)
RevokedIsClosed ==
    \A p \in Processes, s \in Sessions :
        sess[s].state = "revoked" /\ hub[p][s] # 0 => hub[p][s] \in raced

(* Once changes of topics are announced, a connection filters by the topics of
   its session, unless it was not registered when one was announced, or two
   changes overlapped. *)
TopicsFollow ==
    \A p \in Processes, s \in Sessions :
        Exists(s) /\ ~Busy(s) /\ s \notin unsure /\ hub[p][s] \notin stale \cup {0}
        => req[hub[p][s]].topics = sess[s].topics
=============================================================================
