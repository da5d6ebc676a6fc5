---------------------------- MODULE BridgeProofs ----------------------------
(***************************************************************************)
(* Proofs about Bridge, for every number of sessions and every size of the *)
(* queues: its types, the life of its link, and that it implements TncPort. *)
(*                                                                         *)
(* The first lemmas say that each method of Run keeps its record well      *)
(* formed; they compose as the handlers compose the methods.  The next ones *)
(* say the same of the invariants of the link run, and the last ones that  *)
(* what the bridge publishes on its watch channel changes only as TncPort  *)
(* allows.                                                                 *)
(***************************************************************************)
EXTENDS Bridge, Integers, TLAPS

\* Sequences: what the queues' operators return.
LEMMA LenProperties ==
  ASSUME NEW S, NEW q \in Seq(S)
  PROVE  Len(q) \in Nat /\ q \in [1 .. Len(q) -> S] /\ DOMAIN q = 1 .. Len(q)
OBVIOUS

LEMMA ElementOfSeq ==
  ASSUME NEW S, NEW q \in Seq(S), NEW i \in 1 .. Len(q)
  PROVE  q[i] \in S
OBVIOUS

LEMMA EmptySeq ==
  ASSUME NEW S
  PROVE  <<>> \in Seq(S) /\ Len(<<>>) = 0 /\ \A q \in Seq(S) : q # <<>> => Len(q) \in Nat \ {0}
OBVIOUS

LEMMA HeadTailProperties ==
  ASSUME NEW S, NEW q \in Seq(S), q # <<>>
  PROVE  /\ Head(q) \in S /\ Tail(q) \in Seq(S) /\ Len(Tail(q)) = Len(q) - 1
         /\ \A i \in 1 .. Len(Tail(q)) : Tail(q)[i] = q[i + 1]
OBVIOUS

LEMMA AppendProperties ==
  ASSUME NEW S, NEW q \in Seq(S), NEW e \in S
  PROVE  /\ Append(q, e) \in Seq(S) /\ Append(q, e) # <<>> /\ Len(Append(q, e)) = Len(q) + 1
         /\ \A i \in 1 .. Len(q) : Append(q, e)[i] = q[i]
         /\ Append(q, e)[Len(q) + 1] = e
OBVIOUS

LEMMA ExceptSeq ==
  ASSUME NEW S, NEW q \in Seq(S), NEW i \in 1 .. Len(q), NEW e \in S
  PROVE  /\ [q EXCEPT ![i] = e] \in Seq(S) /\ Len([q EXCEPT ![i] = e]) = Len(q)
         /\ \A j \in 1 .. Len(q) : [q EXCEPT ![i] = e][j] = IF j = i THEN e ELSE q[j]
OBVIOUS

LEMMA SubSeqProperties ==
  ASSUME NEW S, NEW q, NEW m \in Int, NEW n \in Int, \A i \in m .. n : q[i] \in S
  PROVE  /\ SubSeq(q, m, n) \in Seq(S)
         /\ Len(SubSeq(q, m, n)) = IF m <= n THEN n - m + 1 ELSE 0
         /\ \A i \in 1 .. n - m + 1 : SubSeq(q, m, n)[i] = q[m + i - 1]
OBVIOUS

\* start_connect keeps the types of Run.
LEMMA StartConnectOK ==
  ASSUME NEW r, RunOK(r)
  PROVE  RunOK(start_connect(r))
<1>1. r.generation + 1 \in Nat BY DEF RunOK, Run
<1>2. start_connect(r) \in Run
  BY <1>1 DEF RunOK, Run, LinkNames, start_connect
<1>3. QED BY <1>2 DEF RunOK, Run, start_connect

\* start_wait, for a poll of either kind, keeps the types of Run.
LEMMA StartWaitOK ==
  ASSUME NEW r, RunOK(r), NEW kind \in Waits
  PROVE  RunOK(start_wait(r, kind))
<1>1. start_wait(r, kind) \in Run
  BY DEF RunOK, Run, LinkNames, start_wait
<1>2. QED BY <1>1 DEF RunOK, Run, start_wait

\* start_backoff keeps the types of Run.
LEMMA StartBackoffOK ==
  ASSUME NEW r, RunOK(r)
  PROVE  RunOK(start_backoff(r))
<1>1. r.attempt + 1 \in Nat BY DEF RunOK, Run
<1>2. start_backoff(r) \in Run
  BY <1>1 DEF RunOK, Run, LinkNames, start_backoff
<1>3. QED BY <1>2 DEF RunOK, Run, start_backoff

\* Clearing the pending queue keeps the types of Run and empties it.
LEMMA ClearPendingOK ==
  ASSUME NEW r, RunOK(r)
  PROVE  RunOK(clear_pending(r))
<1>1. r.cleared + Len(r.pending) \in Nat BY DEF RunOK, Run
<1>2. <<>> \in Seq(Nat) /\ Len(<<>>) = 0 OBVIOUS
<1>3. clear_pending(r) \in Run BY <1>1, <1>2 DEF RunOK, Run, clear_pending
<1>4. QED BY <1>2, <1>3, BridgeAssumption DEF RunOK, Run, clear_pending

\* Giving up on a link keeps the types of Run.
LEMMA GoIdleOK ==
  ASSUME NEW r, RunOK(r)
  PROVE  RunOK(go_idle(r))
<1>. DEFINE c == clear_pending(r)
<1>1. RunOK(c) BY ClearPendingOK
<1>. HIDE DEF c
<1>2. [c EXCEPT !.waiting = "none", !.state = "Idle"] \in Run
  BY <1>1 DEF RunOK, Run, LinkNames
<1>3. RunOK([c EXCEPT !.waiting = "none", !.state = "Idle"])
  BY <1>1, <1>2 DEF RunOK, Run
<1>4. QED BY <1>3 DEF go_idle, c

\* A message fits the writer's queue when there is room (try_send).
LEMMA SendWriterOK ==
  ASSUME NEW r, RunOK(r), WriterLives(r), WriterHasRoom(r), NEW n \in Nat
  PROVE  RunOK(send_writer(r, n))
<1>. DEFINE l == r.writer_tx
            link == [r.links[l] EXCEPT !.q = Append(@, n)]
            links == [r.links EXCEPT ![l] = link]
<1>0. r \in Run /\ r.links \in Seq(Link) /\ Len(r.links) \in Nat
  BY LenProperties DEF RunOK, Run
<1>1. l \in 1 .. Len(r.links) BY <1>0 DEF RunOK, Run, WriterLives
<1>2. r.links[l] \in Link BY <1>0, <1>1, ElementOfSeq
<1>2a. r.links[l].q \in Seq(Nat) /\ Len(r.links[l].q) \in Nat
  BY <1>2, LenProperties DEF Link
<1>2b. /\ Append(r.links[l].q, n) \in Seq(Nat)
       /\ Len(Append(r.links[l].q, n)) = Len(r.links[l].q) + 1
  BY <1>2a, AppendProperties
<1>3. Len(Append(r.links[l].q, n)) <= WRITER_QUEUE
  BY <1>2a, <1>2b, BridgeAssumption DEF WriterHasRoom
<1>6. send_writer(r, n) = [r EXCEPT !.links = links]
  BY DEF send_writer
<1>3a. link \in Link /\ link.q = Append(r.links[l].q, n)
  BY <1>2, <1>2b DEF Link
<1>. HIDE DEF link, l
<1>4. links \in Seq(Link) /\ Len(links) = Len(r.links)
  BY <1>0, <1>1, <1>3a, ExceptSeq
<1>4a. \A k \in 1 .. Len(r.links) :
         links[k] = IF k = l THEN link ELSE r.links[k]
  BY <1>0, <1>1, LenProperties
<1>5. \A k \in 1 .. Len(links) : Len(links[k].q) <= WRITER_QUEUE
  BY <1>3, <1>3a, <1>4, <1>4a DEF RunOK
<1>. HIDE DEF links
<1>7. PICK u : u = [r EXCEPT !.links = links] OBVIOUS
<1>8. u \in Run BY <1>0, <1>4, <1>7 DEF Run
<1>9. /\ u.links = links /\ u.pending = r.pending /\ u.stale = r.stale
      /\ u.writer_tx = r.writer_tx /\ u.ending = r.ending
  BY <1>0, <1>7 DEF Run
<1>10. RunOK(u) BY <1>4, <1>5, <1>8, <1>9 DEF RunOK
<1>11. QED BY <1>6, <1>7, <1>10

\* Queueing the teardown keeps the types of Run.
LEMMA SayExitKissOK ==
  ASSUME NEW r, RunOK(r)
  PROVE  RunOK(say_exit_kiss(r))
BY SendWriterOK DEF say_exit_kiss, ExitKiss

\* Dropping the sender and bumping the generation keep the types of Run.
LEMMA DropLinkOK ==
  ASSUME NEW r, RunOK(r)
  PROVE  RunOK(drop_link(r))
<1>1. r.generation + 1 \in Nat BY DEF RunOK, Run
<1>2. drop_link(r) \in Run BY <1>1 DEF RunOK, Run, LinkNames, drop_link
<1>3. 0 <= Len(r.links) BY DEF RunOK, Run
<1>4. /\ drop_link(r).links = r.links /\ drop_link(r).pending = r.pending
      /\ drop_link(r).stale = r.stale /\ drop_link(r).ending = r.ending
      /\ drop_link(r).writer_tx = 0
  BY DEF RunOK, Run, drop_link
<1>5. QED BY <1>2, <1>3, <1>4 DEF RunOK

\* disconnect, and so close, keeps the types of Run.
LEMMA DisconnectOK ==
  ASSUME NEW r, RunOK(r)
  PROVE  RunOK(disconnect(r))
BY SayExitKissOK, DropLinkOK, GoIdleOK DEF disconnect

\* disconnect forgets none of the links whose tasks may still be running.
LEMMA DisconnectLinks ==
  ASSUME NEW r, RunOK(r)
  PROVE  Len(disconnect(r).links) = Len(r.links)
<1>1. Len(say_exit_kiss(r).links) = Len(r.links)
  BY DEF RunOK, Run, say_exit_kiss, send_writer
<1>2. RunOK(say_exit_kiss(r)) BY SayExitKissOK
<1>3. ASSUME NEW t, RunOK(t) PROVE go_idle(drop_link(t)).links = t.links
  BY <1>3 DEF RunOK, Run, go_idle, clear_pending, drop_link
<1>4. QED BY <1>1, <1>2, <1>3 DEF disconnect

\* New values of the right types, and within the limits, for the fields that
\* queue_pending changes.
LEMMA PendingUpdate ==
  ASSUME NEW r, RunOK(r), NEW p \in Seq(Nat), NEW s \in Nat, NEW d \in Nat,
         s <= Len(p), Len(p) <= UPLINK_QUEUE_FRAMES
  PROVE  RunOK([r EXCEPT !.pending = p, !.stale = s, !.dropped = d])
<1>1. PICK u : u = [r EXCEPT !.pending = p, !.stale = s, !.dropped = d]
  OBVIOUS
<1>2. r \in Run BY DEF RunOK
<1>3. u \in Run BY <1>1, <1>2 DEF Run
<1>4. /\ u.pending = p /\ u.stale = s /\ u.links = r.links
      /\ u.writer_tx = r.writer_tx /\ u.ending = r.ending
  BY <1>1, <1>2 DEF Run
<1>5. RunOK(u) BY <1>3, <1>4 DEF RunOK
<1>6. QED BY <1>1, <1>5

\* The same when it only appends.
LEMMA PendingAppended ==
  ASSUME NEW r, RunOK(r), NEW p \in Seq(Nat),
         r.stale <= Len(p), Len(p) <= UPLINK_QUEUE_FRAMES
  PROVE  RunOK([r EXCEPT !.pending = p])
<1>1. PICK u : u = [r EXCEPT !.pending = p]
  OBVIOUS
<1>2. r \in Run BY DEF RunOK
<1>3. u \in Run BY <1>1, <1>2 DEF Run
<1>4. /\ u.pending = p /\ u.stale = r.stale /\ u.links = r.links
      /\ u.writer_tx = r.writer_tx /\ u.ending = r.ending
  BY <1>1, <1>2 DEF Run
<1>5. RunOK(u) BY <1>3, <1>4 DEF RunOK
<1>6. QED BY <1>1, <1>5

\* queue_pending keeps the pending queue within UPLINK_QUEUE_FRAMES.
LEMMA QueuePendingOK ==
  ASSUME NEW r, RunOK(r), NEW n \in Nat
  PROVE  RunOK(queue_pending(r, n))
<1>0. UPLINK_QUEUE_FRAMES \in Nat /\ Len(r.pending) \in Nat
  BY BridgeAssumption DEF RunOK, Run
<1>1. /\ r.pending \in Seq(Nat) /\ r.stale \in Nat /\ r.dropped \in Nat
      /\ r.stale <= Len(r.pending) /\ Len(r.pending) <= UPLINK_QUEUE_FRAMES
  BY DEF RunOK, Run
<1>2. CASE Len(r.pending) >= UPLINK_QUEUE_FRAMES
  <2>. DEFINE p == Append(Tail(r.pending), n)
              s == IF r.stale > 0 THEN r.stale - 1 ELSE 0
              d == r.dropped + 1
  <2>0. r.pending # <<>> /\ Len(r.pending) > 0
    BY <1>1, <1>2, BridgeAssumption
  <2>1a. Tail(r.pending) \in Seq(Nat) /\ Len(Tail(r.pending)) = Len(r.pending) - 1
    BY <1>1, <2>0
  <2>1b. p \in Seq(Nat) /\ Len(p) = Len(r.pending)
    BY <1>1, <2>1a
  <2>1. /\ p \in Seq(Nat) /\ Len(p) = Len(r.pending)
        /\ s \in Nat /\ s <= Len(p) /\ d \in Nat
    BY <1>1, <2>0, <2>1b
  <2>2. queue_pending(r, n) = [r EXCEPT !.pending = p, !.stale = s,
                                        !.dropped = d]
    BY <1>2 DEF queue_pending
  <2>. HIDE DEF p, s, d
  <2>3. Len(p) <= UPLINK_QUEUE_FRAMES BY <1>1, <2>1
  <2>4. RunOK([r EXCEPT !.pending = p, !.stale = s, !.dropped = d])
    BY <2>1, <2>3, PendingUpdate
  <2>5. QED BY <2>2, <2>4
<1>3. CASE ~(Len(r.pending) >= UPLINK_QUEUE_FRAMES)
  <2>. DEFINE p == Append(r.pending, n)
  <2>1. p \in Seq(Nat) /\ Len(p) = Len(r.pending) + 1
    BY <1>1
  <2>2. queue_pending(r, n) = [r EXCEPT !.pending = p]
    BY <1>3 DEF queue_pending
  <2>. HIDE DEF p
  <2>3. Len(p) <= UPLINK_QUEUE_FRAMES
    BY <1>0, <1>3, <2>1
  <2>3a. r.stale <= Len(p)
    BY <1>0, <1>1, <2>1
  <2>4. RunOK([r EXCEPT !.pending = p])
    BY <2>1, <2>3, <2>3a, PendingAppended
  <2>5. QED BY <2>2, <2>4
<1>4. QED BY <1>2, <1>3

\* Counting a dropped frame keeps the types of Run.
LEMMA DropOK ==
  ASSUME NEW r, RunOK(r)
  PROVE  RunOK(drop(r))
<1>1. r.dropped + 1 \in Nat BY DEF RunOK, Run
<1>2. drop(r) \in Run BY <1>1 DEF RunOK, Run, drop
<1>3. QED BY <1>2 DEF RunOK, Run, drop

\* uplink keeps the types of Run, in every state of the link.
LEMMA UplinkOK ==
  ASSUME NEW r, RunOK(r), NEW n \in Nat
  PROVE  RunOK(uplink(r, n))
<1>1. CASE r.link = "Connected" /\ WriterLives(r) /\ WriterHasRoom(r)
  <2>. DEFINE s == send_writer(r, n)
  <2>1. RunOK(s) BY <1>1, SendWriterOK
  <2>2. ASSUME NEW t, RunOK(t) PROVE RunOK([t EXCEPT !.frames_up = @ + 1])
    <3>0. t \in Run BY <2>2 DEF RunOK
    <3>a. t.frames_up \in Nat BY <3>0 DEF Run
    <3>1. t.frames_up + 1 \in Nat BY <3>a
    <3>2. [t EXCEPT !.frames_up = @ + 1] \in Run
      BY <2>2, <3>1 DEF RunOK, Run
    <3>3. QED BY <2>2, <3>2 DEF RunOK, Run
  <2>3. QED BY <1>1, <2>1, <2>2 DEF uplink
<1>2. CASE r.link = "Connected" /\ WriterLives(r) /\ ~WriterHasRoom(r)
  <2>1. RunOK(drop(r)) BY DropOK
  <2>2. ASSUME NEW t, RunOK(t) PROVE RunOK([t EXCEPT !.overrun = @ + 1])
    <3>0. t \in Run BY <2>2 DEF RunOK
    <3>a. t.overrun \in Nat BY <3>0 DEF Run
    <3>1. t.overrun + 1 \in Nat BY <3>a
    <3>2. [t EXCEPT !.overrun = @ + 1] \in Run
      BY <2>2, <3>1 DEF RunOK, Run
    <3>3. QED BY <2>2, <3>2 DEF RunOK, Run
  <2>3. QED BY <1>2, <2>1, <2>2 DEF uplink
<1>3. CASE r.link = "Connected" /\ ~WriterLives(r)
  BY <1>3, DropOK DEF uplink
<1>4. CASE r.link = "Idle" /\ r.held = "down"
  BY <1>4, DropOK DEF uplink
<1>5. CASE r.link = "Idle" /\ r.held # "down"
  BY <1>5, QueuePendingOK, StartConnectOK DEF uplink
<1>6. CASE r.link # "Connected" /\ r.link # "Idle"
  BY <1>6, QueuePendingOK DEF uplink
<1>7. QED BY <1>1, <1>2, <1>3, <1>4, <1>5, <1>6

\* Setting the idle timer keeps the types of Run.
LEMMA IdleTimerOK ==
  ASSUME NEW r, RunOK(r), NEW b \in BOOLEAN
  PROVE  RunOK([r EXCEPT !.idle_timer = b])
<1>1. [r EXCEPT !.idle_timer = b] \in Run BY DEF RunOK, Run
<1>2. QED BY <1>1 DEF RunOK, Run

\* Letting go of the link, at once or later, keeps the types of Run.
LEMMA ReleaseOK ==
  ASSUME NEW r, RunOK(r)
  PROVE  RunOK(release(r))
BY DisconnectOK, IdleTimerOK DEF release, close

\* Connecting an idle link keeps the types of Run.
LEMMA ConnectIfIdleOK ==
  ASSUME NEW r, RunOK(r)
  PROVE  RunOK(connect_if_idle(r))
BY StartConnectOK DEF connect_if_idle

\* on_app keeps the types of Run, whatever the event.
LEMMA OnAppOK ==
  ASSUME NEW r, RunOK(r), NEW ev \in AppEvents
  PROVE  RunOK(on_app(r, ev))
<1>1. CASE ev.type = "SessionOpened"
  <2>1. ev.id \in Sessions BY DEF AppEvents
  <2>. DEFINE r1 == [r EXCEPT !.sessions = @ \cup {ev.id}, !.idle_timer = FALSE]
  <2>2. r1 \in Run BY <2>1 DEF RunOK, Run
  <2>3. RunOK(r1) BY <2>2 DEF RunOK, Run
  <2>4. QED BY <1>1, <2>3, ConnectIfIdleOK DEF on_app, on_app_opened
<1>2. CASE ev.type = "SessionClosed"
  <2>. DEFINE r1 == [r EXCEPT !.sessions = @ \ {ev.id}]
  <2>1. r1 \in Run BY DEF RunOK, Run
  <2>2. RunOK(r1) BY <2>1 DEF RunOK, Run
  <2>3. QED BY <1>2, <2>2, ReleaseOK DEF on_app, on_app_closed
<1>3. CASE ev.type = "Frame"
  <2>1. ev.n \in Nat BY <1>3 DEF AppEvents
  <2>2. r.taken + 1 \in Nat BY DEF RunOK, Run
  <2>. DEFINE r1 == [r EXCEPT !.taken = @ + 1]
  <2>3. r1 \in Run BY <2>2 DEF RunOK, Run
  <2>4. RunOK(r1) BY <2>3 DEF RunOK, Run
  <2>. HIDE DEF r1
  <2>5. RunOK(uplink(r1, ev.n)) /\ RunOK(drop(r1))
    BY <2>1, <2>4, UplinkOK, DropOK
  <2>6. QED BY <1>3, <2>5 DEF on_app, on_app_frame, r1
<1>4. QED BY <1>1, <1>2, <1>3 DEF AppEvents

\* apply_settings keeps the types of Run.
LEMMA ApplySettingsOK ==
  ASSUME NEW r, RunOK(r), NEW new \in TncSettings
  PROVE  RunOK(apply_settings(r, new))
<1>. DEFINE r1 == [r EXCEPT !.settings = new]
<1>1. r1 \in Run BY DEF RunOK, Run
<1>2. RunOK(r1) BY <1>1 DEF RunOK, Run
<1>. HIDE DEF r1
<1>3. /\ RunOK(connect_if_idle([r1 EXCEPT !.idle_timer = FALSE]))
      /\ RunOK(release(r1))
  BY <1>2, IdleTimerOK, ConnectIfIdleOK, ReleaseOK
<1>4. QED BY <1>2, <1>3 DEF apply_settings, r1

\* A new connector keeps the types of Run.
LEMMA OnConnectorOK ==
  ASSUME NEW r, RunOK(r)
  PROVE  RunOK(on_connector(r))
<1>1. ASSUME NEW t, RunOK(t) PROVE RunOK([t EXCEPT !.attempt = 0])
  <2>1. [t EXCEPT !.attempt = 0] \in Run BY <1>1 DEF RunOK, Run
  <2>2. QED BY <1>1, <2>1 DEF RunOK, Run
<1>2. RunOK([close(r) EXCEPT !.attempt = 0]) BY <1>1, DisconnectOK DEF close
<1>3. QED BY <1>2, StartConnectOK DEF on_connector

\* Holding and releasing the link keep the types of Run.
LEMMA OnHoldOK ==
  ASSUME NEW r, RunOK(r), NEW hold \in {"none", "up", "down"}
  PROVE  RunOK(on_hold(r, hold))
<1>. DEFINE r1 == [r EXCEPT !.held = hold, !.idle_timer = FALSE]
<1>1. r1 \in Run BY DEF RunOK, Run
<1>2. RunOK(r1) BY <1>1 DEF RunOK, Run
<1>. HIDE DEF r1
<1>3. RunOK(connect_if_idle(r1)) /\ RunOK(close(r1)) /\ RunOK(release(r1))
  BY <1>2, ConnectIfIdleOK, DisconnectOK, ReleaseOK DEF close
<1>4. QED BY <1>3 DEF on_hold, r1

\* A frame from the TNC keeps the types of Run.
LEMMA OnTncFrameOK ==
  ASSUME NEW r, RunOK(r), NEW ev, NEW slow, Cardinality(slow) \in Nat
  PROVE  RunOK(on_tnc_frame(r, ev, slow))
<1>. DEFINE fd == r.frames_down + 1
            dr == r.dropped + Cardinality(slow)
            sl == r.slow + Cardinality(slow)
<1>0. /\ r \in Run /\ r.frames_down \in Nat /\ r.dropped \in Nat
      /\ r.slow \in Nat
  BY DEF RunOK, Run
<1>1. fd \in Nat /\ dr \in Nat /\ sl \in Nat BY <1>0
<1>2. on_tnc_frame(r, ev, slow)
        \in {r, [r EXCEPT !.frames_down = fd, !.dropped = dr, !.slow = sl]}
  BY DEF on_tnc_frame
<1>. HIDE DEF fd, dr, sl
<1>3. PICK u : u = [r EXCEPT !.frames_down = fd, !.dropped = dr, !.slow = sl]
  OBVIOUS
<1>4. u \in Run BY <1>0, <1>1, <1>3 DEF Run
<1>5. /\ u.links = r.links /\ u.pending = r.pending /\ u.stale = r.stale
      /\ u.writer_tx = r.writer_tx /\ u.ending = r.ending
  BY <1>0, <1>3 DEF Run
<1>6. RunOK(u) BY <1>4, <1>5 DEF RunOK
<1>7. QED BY <1>2, <1>3, <1>6

\* Forgetting failed attempts keeps the types of Run.
LEMMA AttemptOK ==
  ASSUME NEW r, RunOK(r)
  PROVE  RunOK([r EXCEPT !.attempt = 0])
<1>1. [r EXCEPT !.attempt = 0] \in Run BY DEF RunOK, Run
<1>2. QED BY <1>1 DEF RunOK, Run

\* A lost link keeps the types of Run.
LEMMA OnTncClosedOK ==
  ASSUME NEW r, RunOK(r), NEW ev
  PROVE  RunOK(on_tnc_closed(r, ev))
<1>1. RunOK(drop_link(r)) BY DropLinkOK
<1>2. RunOK(start_backoff([drop_link(r) EXCEPT !.attempt = 0]))
  BY <1>1, AttemptOK, StartBackoffOK
<1>3. ASSUME NEW t, RunOK(t) PROVE RunOK([t EXCEPT !.state = "Idle"])
  <2>1. [t EXCEPT !.state = "Idle"] \in Run BY <1>3 DEF RunOK, Run, LinkNames
  <2>2. QED BY <1>3, <2>1 DEF RunOK, Run
<1>4. QED BY <1>1, <1>2, <1>3 DEF on_tnc_closed

\* Taking the link out of Run keeps its types.
LEMMA LinkIdleOK ==
  ASSUME NEW r, RunOK(r)
  PROVE  RunOK([r EXCEPT !.link = "Idle"])
<1>1. [r EXCEPT !.link = "Idle"] \in Run BY DEF RunOK, Run, LinkNames
<1>2. QED BY <1>1 DEF RunOK, Run

\* A failed connect keeps the types of Run.
LEMMA OnLinkErrOK ==
  ASSUME NEW r, RunOK(r),
         NEW error \in {"Unpaired", "WaitingForDevice", "Other"}
  PROVE  RunOK(on_link_err(r, error))
<1>1. RunOK([r EXCEPT !.link = "Idle"]) BY LinkIdleOK
<1>2. ASSUME NEW t, RunOK(t) PROVE RunOK([t EXCEPT !.waiting = "none"])
  <2>1. [t EXCEPT !.waiting = "none"] \in Run BY <1>2 DEF RunOK, Run
  <2>2. QED BY <1>2, <2>1 DEF RunOK, Run
<1>3. PICK r1 : r1 = [r EXCEPT !.link = "Idle"] OBVIOUS
<1>4. RunOK(r1) BY <1>1, <1>3
<1>5. RunOK(go_idle(r1)) /\ RunOK(start_backoff([r1 EXCEPT !.waiting = "none"]))
  BY <1>2, <1>4, GoIdleOK, StartBackoffOK
<1>6. error # "Other" => RunOK(start_wait(r1, error))
  BY <1>4, StartWaitOK DEF Waits
<1>7. QED BY <1>3, <1>5, <1>6 DEF on_link_err

\* The end of a backoff keeps the types of Run.
LEMMA OnBackoffOverOK ==
  ASSUME NEW r, RunOK(r)
  PROVE  RunOK(on_backoff_over(r))
BY LinkIdleOK, StartConnectOK, GoIdleOK DEF on_backoff_over

\* The idle timer keeps the types of Run.
LEMMA OnIdleElapsedOK ==
  ASSUME NEW r, RunOK(r)
  PROVE  RunOK(on_idle_elapsed(r))
BY IdleTimerOK, DisconnectOK DEF on_idle_elapsed, close

\* What link_up makes of the pending queue: stale frames go, fresh ones fill
\* the writer's queue as far as there is room.
LEMMA DrainOK ==
  ASSUME NEW r, r.pending \in Seq(Nat), r.stale \in Nat,
         r.stale <= Len(r.pending)
  PROVE  /\ fresh(r) \in Seq(Nat) /\ Len(fresh(r)) = Len(r.pending) - r.stale
         /\ fits(r) \in Nat /\ fits(r) <= Len(fresh(r))
         /\ fits(r) <= WRITER_QUEUE
         /\ replayed(r) \in Seq(Nat)
         /\ Len(replayed(r)) = fits(r)
<1>1. \A i \in r.stale + 1 .. Len(r.pending) : r.pending[i] \in Nat
  BY ElementOfSeq
<1>2. fresh(r) \in Seq(Nat) /\ Len(fresh(r)) = Len(r.pending) - r.stale
  <2>. DEFINE m == r.stale + 1
              n == Len(r.pending)
  <2>1. m \in Int /\ n \in Int BY LenProperties
  <2>2. (IF m <= n THEN n - m + 1 ELSE 0) = Len(r.pending) - r.stale
    BY LenProperties
  <2>3. \A i \in m .. n : r.pending[i] \in Nat BY <1>1
  <2>. HIDE DEF m, n
  <2>4. /\ SubSeq(r.pending, m, n) \in Seq(Nat)
        /\ Len(SubSeq(r.pending, m, n)) = IF m <= n THEN n - m + 1 ELSE 0
    BY <2>1, <2>3, SubSeqProperties
  <2>5. QED BY <2>2, <2>4 DEF fresh, m, n
<1>3. /\ fits(r) \in Nat /\ fits(r) <= Len(fresh(r))
      /\ fits(r) <= WRITER_QUEUE
  BY <1>2, BridgeAssumption DEF fits
<1>4. \A i \in 1 .. fits(r) : fresh(r)[i] \in Nat
  BY <1>2, <1>3, ElementOfSeq
<1>5. /\ replayed(r) \in Seq(Nat)
      /\ Len(replayed(r)) = fits(r)
  BY <1>3, <1>4, SubSeqProperties DEF replayed
<1>6. QED BY <1>2, <1>3, <1>5

\* A link that comes up keeps the types of Run: the replayed frames fit the
\* new writer's queue.
LEMMA LinkUpOK ==
  ASSUME NEW r, RunOK(r), NEW exit_kiss \in BOOLEAN
  PROVE  RunOK(link_up(r, exit_kiss))
<1>. DEFINE q == replayed(r)
            over == Len(fresh(r)) - fits(r)
            link == [gen |-> r.generation, reader |-> TRUE, writer |-> TRUE,
                     q |-> q, busy |-> <<>>, last |-> 0]
            links == Append(r.links, link)
<1>0. r \in Run /\ r.stale <= Len(r.pending) BY DEF RunOK
<1>1. /\ r.pending \in Seq(Nat) /\ r.stale \in Nat /\ r.links \in Seq(Link)
      /\ r.generation \in Nat /\ r.frames_up \in Nat /\ r.dropped \in Nat
      /\ r.overrun \in Nat
  BY <1>0 DEF Run
<1>2. /\ fits(r) \in Nat /\ fits(r) <= WRITER_QUEUE /\ over \in Nat
      /\ q \in Seq(Nat) /\ Len(q) = fits(r)
  <2>1. /\ fits(r) \in Nat /\ fits(r) <= WRITER_QUEUE
        /\ q \in Seq(Nat) /\ Len(q) = fits(r)
        /\ fits(r) <= Len(fresh(r)) /\ fresh(r) \in Seq(Nat)
    BY <1>0, <1>1, DrainOK
  <2>2. Len(fresh(r)) \in Nat BY <2>1, LenProperties
  <2>. HIDE DEF q
  <2>3. QED BY <2>1, <2>2
<1>. HIDE DEF q, over
<1>4. link \in Link /\ link.q = q BY <1>1, <1>2, EmptySeq DEF Link
<1>. HIDE DEF link
<1>5. /\ links \in Seq(Link) /\ Len(links) = Len(r.links) + 1
      /\ \A k \in 1 .. Len(r.links) : links[k] = r.links[k]
      /\ links[Len(r.links) + 1] = link /\ Len(r.links) \in Nat
  BY <1>1, <1>4, AppendProperties
<1>. HIDE DEF links
<1>6. \A k \in 1 .. Len(links) : Len(links[k].q) <= WRITER_QUEUE
  <2>. SUFFICES ASSUME NEW k \in 1 .. Len(links)
                PROVE  Len(links[k].q) <= WRITER_QUEUE
    OBVIOUS
  <2>1. CASE k \in 1 .. Len(r.links) BY <1>5, <2>1 DEF RunOK
  <2>2. CASE k = Len(r.links) + 1 BY <1>2, <1>4, <1>5, <2>2
  <2>3. QED BY <1>5, <2>1, <2>2
<1>7. /\ r.frames_up + fits(r) \in Nat /\ r.dropped + r.stale + over \in Nat
      /\ r.overrun + over \in Nat /\ Len(r.links) + 1 \in Nat
  <2>1. \A i, j \in Nat : i + j \in Nat OBVIOUS
  <2>2. QED BY <1>1, <1>2, <1>5, <2>1
<1>8. link_up(r, exit_kiss) =
        [r EXCEPT !.waiting = "none", !.exit_kiss = exit_kiss, !.attempt = 0,
                  !.link = "Connected", !.state = "Connected",
                  !.links = links, !.writer_tx = Len(r.links) + 1,
                  !.pending = <<>>, !.stale = 0, !.frames_up = @ + fits(r),
                  !.dropped = @ + r.stale + over, !.overrun = @ + over]
  BY DEF link_up, links, link, q, over
<1>9. link_up(r, exit_kiss) \in Run
  <2>. DEFINE a == [r EXCEPT !.waiting = "none", !.exit_kiss = exit_kiss,
                             !.attempt = 0, !.link = "Connected",
                             !.state = "Connected", !.links = links]
              up == r.frames_up + fits(r)
              dr == r.dropped + r.stale + over
              ov == r.overrun + over
              tx == Len(r.links) + 1
  <2>1. a \in Run BY <1>0, <1>5 DEF Run, LinkNames
  <2>2. /\ a.frames_up = r.frames_up /\ a.dropped = r.dropped
        /\ a.overrun = r.overrun
    BY <1>0 DEF Run
  <2>3. up \in Nat /\ dr \in Nat /\ ov \in Nat /\ tx \in Nat BY <1>7
  <2>4. link_up(r, exit_kiss) =
          [a EXCEPT !.writer_tx = tx, !.pending = <<>>, !.stale = 0,
                    !.frames_up = up, !.dropped = dr, !.overrun = ov]
    BY <1>8
  <2>. HIDE DEF a, up, dr, ov, tx
  <2>5. <<>> \in Seq(Nat) OBVIOUS
  <2>6. PICK b : b = [a EXCEPT !.writer_tx = tx, !.pending = <<>>, !.stale = 0]
    OBVIOUS
  <2>7. b \in Run BY <2>1, <2>3, <2>5, <2>6 DEF Run
  <2>8. link_up(r, exit_kiss) =
          [b EXCEPT !.frames_up = up, !.dropped = dr, !.overrun = ov]
    BY <2>4, <2>6
  <2>9. ASSUME NEW i \in Nat, NEW j \in Nat, NEW k \in Nat
        PROVE  [b EXCEPT !.frames_up = i, !.dropped = j, !.overrun = k] \in Run
    BY <2>7 DEF Run
  <2>10. [b EXCEPT !.frames_up = up, !.dropped = dr, !.overrun = ov] \in Run
    BY <2>3, <2>9, Zenon
  <2>11. QED BY <2>8, <2>10, Zenon
<1>10. LET u == link_up(r, exit_kiss) IN
       /\ u.links = links /\ u.pending = <<>> /\ u.stale = 0
       /\ u.writer_tx = Len(links) /\ u.ending = r.ending
  BY <1>0, <1>5, <1>8 DEF Run
<1>11a. /\ r.ending \in Nat /\ Len(r.links) \in Nat
        /\ r.ending <= Len(r.links)
  BY <1>0, LenProperties DEF RunOK, Run
<1>11. r.ending <= Len(links) /\ Len(<<>>) = 0 /\ Len(links) \in Nat
  BY <1>5, <1>11a, LenProperties
<1>12. QED BY <1>6, <1>9, <1>10, <1>11, BridgeAssumption DEF RunOK

\* A successful connect keeps the types of Run, also when it is closed again.
LEMMA OnLinkOkOK ==
  ASSUME NEW r, RunOK(r), NEW exit_kiss \in BOOLEAN
  PROVE  RunOK(on_link_ok(r, exit_kiss))
BY LinkUpOK, DisconnectOK DEF on_link_ok, close

-----------------------------------------------------------------------------
(* The link tasks touch one link's record.                                 *)

\* A link's tasks keep the types of Run when they keep those of their link.
LEMMA SetLinkOK ==
  ASSUME RunOK(run), NEW l \in DOMAIN run.links, NEW link \in Link,
         Len(link.q) <= WRITER_QUEUE
  PROVE  RunOK(set_link(l, link))
<1>. DEFINE links == [run.links EXCEPT ![l] = link]
<1>1. run \in Run /\ run.links \in Seq(Link) BY DEF RunOK, Run
<1>2. links \in Seq(Link) /\ Len(links) = Len(run.links) BY <1>1
<1>3. \A k \in 1 .. Len(links) : Len(links[k].q) <= WRITER_QUEUE
  BY <1>1, <1>2 DEF RunOK
<1>4. set_link(l, link) = [run EXCEPT !.links = links] BY DEF set_link
<1>. HIDE DEF links
<1>5. [run EXCEPT !.links = links] \in Run BY <1>1, <1>2 DEF Run
<1>6. QED BY <1>1, <1>2, <1>3, <1>4, <1>5 DEF RunOK, Run

\* What the steps of a reader and a writer make of their link.
LEMMA LinkStepIs ==
  ASSUME RunOK(run), NEW l \in DOMAIN run.links, ReaderStep(l) \/ WriterStep(l)
  PROVE  \/ run' = run
         \/ \E link \in Link : /\ link.gen = run.links[l].gen
                              /\ Len(link.q) <= WRITER_QUEUE
                              /\ run' = set_link(l, link)
<1>. PICK k : k = run.links[l] OBVIOUS
<1>1. l \in 1 .. Len(run.links) /\ run.links \in Seq(Link)
  BY DEF RunOK, Run
<1>2. k \in Link /\ Len(k.q) <= WRITER_QUEUE BY <1>1, ElementOfSeq DEF RunOK
<1>3. k.q \in Seq(Nat) /\ k.busy \in Seq(Nat) BY <1>2 DEF Link
<1>4. <<>> \in Seq(Nat) /\ Len(<<>>) <= WRITER_QUEUE BY BridgeAssumption
<1>5. CASE ReaderFrame(l) BY <1>5 DEF ReaderFrame
<1>6. CASE ReaderClosed(l) \/ ReaderStop(l)
  <2>1. /\ end_reader(l) \in Link /\ end_reader(l).gen = k.gen
        /\ end_reader(l).q = k.q
    BY <1>2 DEF end_reader, Link
  <2>2. QED BY <1>2, <1>6, <2>1 DEF ReaderClosed, ReaderStop
<1>7. CASE WriterFail(l) \/ WriterDone(l) \/ WriterAbort(l)
  <2>1. /\ end_writer(l) \in Link /\ end_writer(l).gen = k.gen
        /\ end_writer(l).q = <<>>
    BY <1>2, <1>4 DEF end_writer, Link
  <2>2. QED BY <1>4, <1>7, <2>1 DEF WriterFail, WriterDone, WriterAbort
<1>8. CASE WriterTake(l)
  <2>0. k.q # <<>> BY <1>8 DEF WriterTake
  <2>1. /\ Head(k.q) \in Nat /\ Tail(k.q) \in Seq(Nat)
        /\ Len(Tail(k.q)) = Len(k.q) - 1
    BY <1>3, <2>0, HeadTailProperties
  <2>2. Len(Tail(k.q)) <= WRITER_QUEUE
    BY <1>2, <1>3, <2>1, BridgeAssumption, LenProperties
  <2>3. <<Head(k.q)>> \in Seq(Nat) BY <2>1
  <2>4. /\ take(l) \in Link /\ take(l).gen = k.gen /\ take(l).q = Tail(k.q)
    BY <1>2, <2>1, <2>3 DEF take, Link
  <2>5. QED BY <1>8, <2>2, <2>4 DEF WriterTake
<1>9. CASE WriterWrite(l)
  <2>0. k.busy # <<>> BY <1>9 DEF WriterWrite
  <2>1. Head(k.busy) \in Nat BY <1>3, <2>0, HeadTailProperties
  <2>2. /\ write(l) \in Link /\ write(l).gen = k.gen /\ write(l).q = k.q
    BY <1>2, <1>4, <2>1 DEF write, Link
  <2>3. QED BY <1>2, <1>9, <2>2 DEF WriterWrite
<1>10. QED BY <1>5, <1>6, <1>7, <1>8, <1>9 DEF ReaderStep, WriterStep

-----------------------------------------------------------------------------
(* Type correctness.                                                       *)

\* The types hold of a bridge that starts.
LEMMA InitTypeOK == Init => TypeOK
<1>. SUFFICES ASSUME Init PROVE TypeOK OBVIOUS
<1>1. PICK s \in SettingsSet :
        run = IF s.connect = "Always" THEN start_connect(New(s)) ELSE New(s)
  BY DEF Init
<1>2. s \in TncSettings BY BridgeAssumption
<1>3. <<>> \in Seq(Nat) /\ <<>> \in Seq(Link) /\ Len(<<>>) = 0 OBVIOUS
<1>4. New(s) \in Run BY <1>2, <1>3 DEF New, Run, LinkNames
<1>4a. PICK u : u = New(s) OBVIOUS
<1>4b. /\ u.links = <<>> /\ u.pending = <<>> /\ u.stale = 0
       /\ u.writer_tx = 0 /\ u.ending = 0
  BY <1>4a DEF New
<1>5. RunOK(New(s)) BY <1>3, <1>4, <1>4a, <1>4b, BridgeAssumption DEF RunOK
<1>6. RunOK(run) BY <1>1, <1>5, StartConnectOK
<1>7. QED BY <1>6, BridgeAssumption DEF Init, TypeOK

\* An event sent by an app port fits the app channel.
LEMMA AppSentOK ==
  ASSUME TypeOK, NEW ev \in AppEvents, send_app(ev)
  PROVE  appQ' \in Seq(AppEvents) /\ Len(appQ') <= APP_QUEUE
<1>1. appQ \in Seq(AppEvents) BY DEF TypeOK
<1>2. appQ' = Append(appQ, ev) /\ Len(appQ) < APP_QUEUE BY DEF send_app
<1>3. appQ' \in Seq(AppEvents) /\ Len(appQ') = Len(appQ) + 1 BY <1>1, <1>2, AppendProperties
<1>4. Len(appQ) \in Nat BY <1>1, LenProperties
<1>5. APP_QUEUE \in Nat BY BridgeAssumption
<1>6. QED BY <1>2, <1>3, <1>4, <1>5

\* An event sent by a link's task fits the TNC channel.
LEMMA TncSentOK ==
  ASSUME TypeOK, NEW type \in {"Frame", "Closed"}, NEW l \in DOMAIN run.links,
         send_tnc(type, l)
  PROVE  tncQ' \in Seq(TncEvents) /\ Len(tncQ') <= TNC_QUEUE
<1>1. run.links \in Seq(Link) BY DEF TypeOK, RunOK, Run
<1>a. l \in 1 .. Len(run.links) /\ l \in Nat BY <1>1, LenProperties
<1>b. run.links[l] \in Link BY <1>1, <1>a, ElementOfSeq
<1>2. l \in Nat /\ run.links[l].gen \in Nat BY <1>a, <1>b DEF Link
<1>3. TncEvent(type, l) \in TncEvents BY <1>2 DEF TncEvent, TncEvents
<1>4. tncQ \in Seq(TncEvents) BY DEF TypeOK
<1>5. tncQ' = Append(tncQ, TncEvent(type, l)) /\ Len(tncQ) < TNC_QUEUE BY DEF send_tnc
<1>6. tncQ' \in Seq(TncEvents) /\ Len(tncQ') = Len(tncQ) + 1 BY <1>3, <1>4, <1>5, AppendProperties
<1>7. Len(tncQ) \in Nat BY <1>4, LenProperties
<1>8. TNC_QUEUE \in Nat BY BridgeAssumption
<1>9. QED BY <1>5, <1>6, <1>7, <1>8

\* Using one unit of a bound keeps the bounds' types.
LEMMA UsedOK ==
  ASSUME TypeOK, NEW what \in {"opens", "frames", "downs", "cmds", "faults"},
         NEW max, Use(what, max)
  PROVE  used' \in [opens : Nat, frames : Nat, downs : Nat, cmds : Nat, faults : Nat]
<1>1. used[what] + 1 \in Nat BY DEF TypeOK
<1>2. QED BY <1>1 DEF TypeOK, Use

\* What the loop takes from a channel is an event of that channel.
LEMMA TakenOK ==
  ASSUME NEW S, NEW q \in Seq(S), q # <<>>, NEW max \in Nat, Len(q) <= max
  PROVE  Head(q) \in S /\ Tail(q) \in Seq(S) /\ Len(Tail(q)) <= max
BY HeadTailProperties, LenProperties

\* The sessions that a frame is dropped for can be counted.
LEMMA SlowCounted ==
  ASSUME RunOK(run), NEW slow \in SUBSET run.sessions
  PROVE  Cardinality(slow) \in Nat
BY SessionsCounted DEF RunOK, Run

\* A bridge that has stopped keeps the types of Run.
LEMMA PhaseOK ==
  ASSUME NEW r, RunOK(r)
  PROVE  RunOK([r EXCEPT !.phase = "stopped"])
<1>1. [r EXCEPT !.phase = "stopped"] \in Run BY DEF RunOK, Run
<1>2. QED BY <1>1 DEF RunOK, Run

\* A bridge that waits for a writer keeps the types of Run.
LEMMA EndingOK ==
  ASSUME NEW r, RunOK(r), NEW l \in Nat, l <= Len(r.links)
  PROVE  RunOK([r EXCEPT !.phase = "stopping", !.ending = l])
<1>1. [r EXCEPT !.phase = "stopping", !.ending = l] \in Run BY DEF RunOK, Run
<1>2. QED BY <1>1 DEF RunOK, Run

\* Shutting down keeps the types of Run.
LEMMA ShutdownOK ==
  ASSUME NEW r, RunOK(r)
  PROVE  RunOK([disconnect(r) EXCEPT !.phase = "stopping",
                                     !.ending = r.writer_tx])
<1>1. RunOK(disconnect(r)) BY DisconnectOK
<1>2. Len(disconnect(r).links) = Len(r.links) BY DisconnectLinks
<1>3. r.writer_tx \in Nat /\ r.writer_tx <= Len(r.links) BY DEF RunOK, Run
<1>4. QED BY <1>1, <1>2, <1>3, EndingOK

\* A pending frame growing old keeps the types of Run.
LEMMA AgesOK ==
  ASSUME NEW r, RunOK(r), r.stale < Len(r.pending)
  PROVE  RunOK([r EXCEPT !.stale = @ + 1])
<1>a. r.stale \in Nat /\ r.pending \in Seq(Nat) BY DEF RunOK, Run
<1>b. Len(r.pending) \in Nat BY <1>a, LenProperties
<1>1. r.stale + 1 \in Nat /\ r.stale + 1 <= Len(r.pending) BY <1>a, <1>b
<1>2. [r EXCEPT !.stale = @ + 1] \in Run BY <1>1 DEF RunOK, Run
<1>3. QED BY <1>1, <1>2 DEF RunOK, Run

\* Every step keeps the types: one case per action.
LEMMA NextTypeOK == TypeOK /\ [Next]_vars => TypeOK'
<1>. SUFFICES ASSUME TypeOK, [Next]_vars PROVE TypeOK' OBVIOUS
<1>. USE DEF TypeOK
<1>1. CASE TakeApp
  <2>1. /\ Head(appQ) \in AppEvents /\ Tail(appQ) \in Seq(AppEvents)
        /\ Len(Tail(appQ)) <= APP_QUEUE
    BY <1>1, TakenOK, BridgeAssumption DEF TakeApp
  <2>2. RunOK(run') BY <1>1, <2>1, OnAppOK DEF TakeApp
  <2>3. QED BY <1>1, <2>1, <2>2 DEF TakeApp
<1>2. CASE TakeTncFrame \/ TakeTncClosed
  <2>1. Tail(tncQ) \in Seq(TncEvents) /\ Len(Tail(tncQ)) <= TNC_QUEUE
    BY <1>2, TakenOK, BridgeAssumption DEF TakeTncFrame, TakeTncClosed
  <2>2. RunOK(run')
    BY <1>2, OnTncFrameOK, OnTncClosedOK, SlowCounted
    DEF TakeTncFrame, TakeTncClosed
  <2>3. QED BY <1>2, <2>1, <2>2 DEF TakeTncFrame, TakeTncClosed
<1>3. CASE ConnectOk
  <2>1. RunOK(run') BY <1>3, OnLinkOkOK DEF ConnectOk
  <2>2. QED BY <1>3, <2>1 DEF ConnectOk
<1>4. CASE ConnectErr
  <2>1. RunOK(run') BY <1>4, OnLinkErrOK DEF ConnectErr
  <2>2. Use("faults", MaxFaults) BY <1>4 DEF ConnectErr
  <2>3. QED BY <1>4, <2>1, <2>2, UsedOK DEF ConnectErr
<1>5. CASE BackoffOver
  <2>1. RunOK(run') BY <1>5, OnBackoffOverOK DEF BackoffOver
  <2>2. QED BY <1>5, <2>1 DEF BackoffOver
<1>6. CASE IdleElapsed
  <2>1. RunOK(run') BY <1>6, OnIdleElapsedOK DEF IdleElapsed
  <2>2. QED BY <1>6, <2>1 DEF IdleElapsed
<1>7. CASE Shutdown
  <2>1. RunOK(run') BY <1>7, ShutdownOK DEF Shutdown
  <2>2. QED BY <1>7, <2>1 DEF Shutdown
<1>8. CASE Stopped
  <2>1. RunOK(run') BY <1>8, PhaseOK DEF Stopped
  <2>2. QED BY <1>8, <2>1 DEF Stopped
<1>9. CASE CmdSettings
  <2>0. PICK s \in TncSettings : run' = apply_settings(run, s)
    BY <1>9, BridgeAssumption DEF CmdSettings
  <2>1. RunOK(run') BY <2>0, ApplySettingsOK
  <2>2. Use("cmds", MaxCmds) BY <1>9 DEF CmdSettings
  <2>3. QED BY <1>9, <2>1, <2>2, UsedOK DEF CmdSettings
<1>10. CASE CmdConnector
  <2>1. RunOK(run') BY <1>10, OnConnectorOK DEF CmdConnector
  <2>2. Use("cmds", MaxCmds) BY <1>10 DEF CmdConnector
  <2>3. QED BY <1>10, <2>1, <2>2, UsedOK DEF CmdConnector
<1>11. CASE CmdHold
  <2>0. PICK hold \in {"none", "up", "down"} : run' = on_hold(run, hold)
    BY <1>11, BridgeAssumption DEF CmdHold
  <2>1. RunOK(run') BY <2>0, OnHoldOK
  <2>2. Use("cmds", MaxCmds) BY <1>11 DEF CmdHold
  <2>3. QED BY <1>11, <2>1, <2>2, UsedOK DEF CmdHold
<1>13. CASE \E l \in DOMAIN run.links : ReaderStep(l) \/ WriterStep(l)
  <2>. PICK l \in DOMAIN run.links : ReaderStep(l) \/ WriterStep(l) BY <1>13
  <2>0. UNCHANGED <<appQ, apps>>
    BY DEF ReaderStep, ReaderFrame, ReaderClosed, ReaderStop, WriterStep,
           WriterTake, WriterWrite, WriterFail, WriterDone, WriterAbort
  <2>1. RunOK(run') BY LinkStepIs, SetLinkOK
  <2>2. tncQ' \in Seq(TncEvents) /\ Len(tncQ') <= TNC_QUEUE
    BY TncSentOK
    DEF ReaderStep, ReaderFrame, ReaderClosed, ReaderStop, WriterStep,
        WriterTake, WriterWrite, WriterFail, WriterDone, WriterAbort
  <2>3. \/ Use("downs", MaxDowns) \/ Use("faults", MaxFaults) \/ UNCHANGED used
    BY DEF ReaderStep, ReaderFrame, ReaderClosed, ReaderStop, WriterStep,
           WriterTake, WriterWrite, WriterFail, WriterDone, WriterAbort
  <2>4. QED BY <2>0, <2>1, <2>2, <2>3, UsedOK
<1>14. CASE \E id \in Sessions : AppOpen(id) \/ AppClose(id) \/ AppSend(id)
  <2>. PICK id \in Sessions : AppOpen(id) \/ AppClose(id) \/ AppSend(id)
    BY <1>14
  <2>1. CASE AppOpen(id)
    <3>1. [type |-> "SessionOpened", id |-> id] \in AppEvents BY DEF AppEvents
    <3>2. Use("opens", MaxOpens) BY <2>1 DEF AppOpen
    <3>3. QED BY <2>1, <3>1, <3>2, AppSentOK, UsedOK DEF AppOpen
  <2>2. CASE AppClose(id)
    <3>1. [type |-> "SessionClosed", id |-> id] \in AppEvents BY DEF AppEvents
    <3>2. QED BY <2>2, <3>1, AppSentOK DEF AppClose
  <2>3. CASE AppSend(id)
    <3>1. used.frames + 1 \in Nat OBVIOUS
    <3>2. \A cmd \in Cmds : [type |-> "Frame", id |-> id,
                            n |-> used.frames + 1, cmd |-> cmd] \in AppEvents
      BY <3>1 DEF AppEvents
    <3>3. Use("frames", MaxFrames) BY <2>3 DEF AppSend
    <3>4. appQ' \in Seq(AppEvents) /\ Len(appQ') <= APP_QUEUE
      BY <2>3, <3>2, AppSentOK DEF AppSend
    <3>5. QED BY <2>3, <3>3, <3>4, UsedOK DEF AppSend
  <2>4. QED BY <2>1, <2>2, <2>3
<1>15. CASE FrameAges
  <2>1. RunOK(run') BY <1>15, AgesOK DEF FrameAges
  <2>2. QED BY <1>15, <2>1 DEF FrameAges
<1>16. CASE UNCHANGED vars BY <1>16 DEF vars
<1>17. QED
  BY <1>1, <1>2, <1>3, <1>4, <1>5, <1>6, <1>7, <1>8, <1>9, <1>10, <1>11,
     <1>13, <1>14, <1>15, <1>16 DEF Next, Loop

\* The record of the bridge task stays well formed, and its queues within
\* their limits, whatever the sizes and whatever the environment does.
THEOREM TypeCorrect == Spec => []TypeOK
<1>1. QED BY InitTypeOK, NextTypeOK, PTL DEF Spec

------------------------------------------------------------------------------
\* The life of the link.

\* LinkConsistent, WantedLinkPursued and NoOrphanLink of a given Run, so that
\* each handler can be shown to preserve them.
Consistent(r) ==
  /\ r.state = IF r.waiting = "none" THEN r.link ELSE r.waiting
  /\ r.waiting # "none" => r.link \in {"Connecting", "Backoff"}
  /\ r.writer_tx = IF r.link = "Connected" THEN Len(r.links) ELSE 0
  /\ r.link \in {"Idle", "Connected"} => r.pending = <<>>

Pursued(r) ==
  /\ r.phase = "running" /\ r.held # "down"
  /\ r.sessions # {} \/ r.settings.connect = "Always"
  => r.link # "Idle"

Kept(r) ==
  r.link # "Idle" /\ ~wants_link(r) /\ r.held # "down" => r.idle_timer

LinkInv(r) == Consistent(r) /\ Pursued(r) /\ Kept(r)

\* The invariant of the proof: inductive together with TypeOK.
LinkInvariant == LinkInv(run)

\* A connect begun from Idle.
LEMMA StartConnectLink ==
  ASSUME NEW r, r \in Run, Consistent(r), r.link = "Idle",
         r.waiting = "none" \/ r.state = r.waiting
  PROVE  Consistent(start_connect(r))
BY DEF Consistent, start_connect, Run

\* Closing leaves the link idle and nothing else of what decides whether it
\* is wanted.
LEMMA DisconnectLink ==
  ASSUME NEW r, RunOK(r)
  PROVE  LET d == disconnect(r) IN
         /\ Consistent(d) /\ d.link = "Idle" /\ d.waiting = "none"
         /\ d.state = "Idle"
         /\ d.phase = r.phase /\ d.held = r.held /\ d.settings = r.settings
         /\ d.sessions = r.sessions /\ d.idle_timer = r.idle_timer
<1>1. ASSUME NEW t, t \in Run
      PROVE  LET d == go_idle(drop_link(t)) IN
             /\ Consistent(d) /\ d.link = "Idle" /\ d.waiting = "none"
             /\ d.state = "Idle"
             /\ d.phase = t.phase /\ d.held = t.held /\ d.settings = t.settings
             /\ d.sessions = t.sessions /\ d.idle_timer = t.idle_timer
  BY <1>1 DEF go_idle, drop_link, clear_pending, Consistent, Run
<1>2. LET t == say_exit_kiss(r) IN
      /\ t.phase = r.phase /\ t.held = r.held /\ t.settings = r.settings
      /\ t.sessions = r.sessions /\ t.idle_timer = r.idle_timer
  BY DEF say_exit_kiss, send_writer, RunOK, Run
<1>3. say_exit_kiss(r) \in Run BY SayExitKissOK DEF RunOK
<1>4. QED BY <1>1, <1>2, <1>3 DEF disconnect

\* Closing is right when nobody wants the link.
LEMMA CloseLink ==
  ASSUME NEW r, RunOK(r), ~wants_link(r)
  PROVE  LinkInv(close(r))
<1>1. LET d == disconnect(r) IN
      /\ Consistent(d) /\ d.link = "Idle" /\ d.held = r.held
      /\ d.settings = r.settings /\ d.sessions = r.sessions
  BY DisconnectLink
<1>2. QED
  BY <1>1 DEF LinkInv, Pursued, Kept, wants_link, close, RunOK, Run

\* So is connecting, from Idle and with no wait on, when somebody does.
LEMMA ConnectLink ==
  ASSUME NEW r, r \in Run, Consistent(r), r.link = "Idle", wants_link(r)
  PROVE  LinkInv(start_connect(r))
BY DEF LinkInv, Consistent, Pursued, Kept, wants_link, start_connect, Run

\* Letting go, at once or with the idle timer.
LEMMA ReleaseLink ==
  ASSUME NEW r, RunOK(r), Consistent(r), ~wants_link(r)
  PROVE  LinkInv(release(r))
<1>1. CASE r.settings.idle_timeout = 0 BY <1>1, CloseLink DEF release
<1>2. CASE r.settings.idle_timeout # 0
  BY <1>2 DEF release, LinkInv, Consistent, Pursued, Kept, wants_link,
              RunOK, Run
<1>3. QED BY <1>1, <1>2

\* A frame from an app changes the link only by connecting it, and then only
\* from Idle.
LEMMA UplinkLink ==
  ASSUME NEW r, RunOK(r), LinkInv(r), NEW n \in Nat,
         r.sessions # {}, r.phase = "running"
  PROVE  LinkInv(uplink(r, n))
<1>0. r \in Run BY DEF RunOK
<1>1. CASE r.link = "Connected"
  <2>1. LET u == uplink(r, n) IN
        /\ u.state = r.state /\ u.waiting = r.waiting /\ u.link = r.link
        /\ u.writer_tx = r.writer_tx /\ u.pending = r.pending
        /\ u.phase = r.phase /\ u.held = r.held /\ u.settings = r.settings
        /\ u.sessions = r.sessions /\ u.idle_timer = r.idle_timer
        /\ Len(u.links) = Len(r.links)
    BY <1>0, <1>1 DEF uplink, send_writer, drop, Run
  <2>2. QED
    BY <2>1 DEF LinkInv, Consistent, Pursued, Kept, wants_link
<1>2. CASE r.link = "Idle"
  <2>1. r.held = "down"
    BY <1>2, <1>0 DEF LinkInv, Pursued
  <2>2. uplink(r, n) = drop(r) BY <1>2, <2>1 DEF uplink
  <2>3. QED
    BY <1>0, <2>2 DEF drop, LinkInv, Consistent, Pursued, Kept, wants_link, Run
<1>3. CASE r.link \in {"Connecting", "Backoff"}
  <2>1. uplink(r, n) = queue_pending(r, n) BY <1>3 DEF uplink
  <2>2. LET u == queue_pending(r, n) IN
        /\ u.state = r.state /\ u.waiting = r.waiting /\ u.link = r.link
        /\ u.writer_tx = r.writer_tx /\ u.links = r.links
        /\ u.phase = r.phase /\ u.held = r.held /\ u.settings = r.settings
        /\ u.sessions = r.sessions /\ u.idle_timer = r.idle_timer
    BY <1>0 DEF queue_pending, Run
  <2>3. QED
    BY <1>3, <2>1, <2>2 DEF LinkInv, Consistent, Pursued, Kept, wants_link
<1>4. QED BY <1>0, <1>1, <1>2, <1>3 DEF Run, LinkNames

\* A session that opens is given a link, and the idle timer is off.
LEMMA OnAppOpenedLink ==
  ASSUME NEW r, RunOK(r), LinkInv(r), NEW id \in Sessions
  PROVE  LinkInv(on_app_opened(r, id))
<1>. DEFINE r1 == [r EXCEPT !.sessions = @ \cup {id}, !.idle_timer = FALSE]
<1>0. r \in Run BY DEF RunOK
<1>0a. r1 \in Run BY <1>0 DEF Run
<1>0b. /\ r1.state = r.state /\ r1.waiting = r.waiting /\ r1.link = r.link
       /\ r1.writer_tx = r.writer_tx /\ r1.links = r.links
       /\ r1.pending = r.pending /\ r1.phase = r.phase /\ r1.held = r.held
       /\ r1.settings = r.settings /\ r1.sessions = r.sessions \cup {id}
  BY <1>0 DEF Run
<1>1. r1 \in Run /\ Consistent(r1) /\ r1.sessions # {}
  BY <1>0a, <1>0b DEF LinkInv, Consistent
<1>2. on_app_opened(r, id) =
        IF wants_link(r1) THEN connect_if_idle(r1) ELSE r1
  BY DEF on_app_opened
<1>3. ~wants_link(r1) => r1.held = "down" BY <1>1 DEF wants_link, Run
<1>. HIDE DEF r1
<1>4. CASE wants_link(r1) /\ r1.link = "Idle"
  BY <1>1, <1>2, <1>4, ConnectLink DEF connect_if_idle
<1>5. CASE ~(wants_link(r1) /\ r1.link = "Idle")
  BY <1>1, <1>2, <1>3, <1>5
  DEF connect_if_idle, LinkInv, Pursued, Kept, wants_link
<1>6. QED BY <1>4, <1>5

\* The last session to close lets go of the link, unless it is held or
\* always on.
LEMMA OnAppClosedLink ==
  ASSUME NEW r, RunOK(r), LinkInv(r), NEW id \in Sessions
  PROVE  LinkInv(on_app_closed(r, id))
<1>. DEFINE r1 == [r EXCEPT !.sessions = @ \ {id}]
<1>1. RunOK(r1) BY DEF RunOK, Run
<1>2. Consistent(r1) BY DEF RunOK, Run, LinkInv, Consistent
<1>3. ~(r1.sessions = {} /\ ~wants_link(r1)) => LinkInv(r1)
  BY DEF RunOK, Run, LinkInv, Consistent, Pursued, Kept, wants_link
<1>4. on_app_closed(r, id) =
        IF r1.sessions = {} /\ ~wants_link(r1) THEN release(r1) ELSE r1
  BY DEF on_app_closed
<1>. HIDE DEF r1
<1>5. QED BY <1>1, <1>2, <1>3, <1>4, ReleaseLink

\* What a step leaves alone when it changes only counters.
LEMMA SameLink ==
  ASSUME NEW r, NEW u, LinkInv(r),
         u.state = r.state, u.waiting = r.waiting, u.link = r.link,
         u.writer_tx = r.writer_tx, u.pending = r.pending,
         u.phase = r.phase, u.held = r.held, u.settings = r.settings,
         u.sessions = r.sessions, u.idle_timer = r.idle_timer,
         Len(u.links) = Len(r.links)
  PROVE  LinkInv(u)
BY DEF LinkInv, Consistent, Pursued, Kept, wants_link

\* A frame from an app, known session or not, passed or dropped.
LEMMA OnAppFrameLink ==
  ASSUME NEW r, RunOK(r), LinkInv(r), r.phase = "running",
         NEW ev, ev.n \in Nat
  PROVE  LinkInv(on_app_frame(r, ev))
<1>. DEFINE r1 == [r EXCEPT !.taken = @ + 1]
<1>0. r.taken + 1 \in Nat
  <2>1. r.taken \in Nat BY DEF RunOK, Run
  <2>2. QED BY <2>1
<1>1. r1 \in Run BY <1>0 DEF RunOK, Run
<1>2. RunOK(r1) BY <1>1 DEF RunOK, Run
<1>3. LinkInv(r1) /\ r1.phase = "running" /\ r1.sessions = r.sessions
  BY SameLink DEF RunOK, Run
<1>4. LinkInv(drop(r1))
  <2>. HIDE DEF r1
  <2>1. QED BY <1>1, <1>3, SameLink DEF drop, Run
<1>5. \/ on_app_frame(r, ev) = uplink(r1, ev.n) /\ r.sessions # {}
      \/ on_app_frame(r, ev) = drop(r1)
  BY DEF on_app_frame
<1>. HIDE DEF r1
<1>6. QED BY <1>2, <1>3, <1>4, <1>5, UplinkLink

\* One lemma for on_app, whatever the event.
LEMMA OnAppLink ==
  ASSUME NEW r, RunOK(r), LinkInv(r), r.phase = "running",
         NEW ev \in AppEvents
  PROVE  LinkInv(on_app(r, ev))
<1>1. CASE ev.type = "SessionOpened"
  BY <1>1, OnAppOpenedLink DEF on_app, AppEvents
<1>2. CASE ev.type = "SessionClosed"
  BY <1>2, OnAppClosedLink DEF on_app, AppEvents
<1>3. CASE ev.type = "Frame"
  <2>1. ev.n \in Nat BY <1>3 DEF AppEvents
  <2>2. QED BY <1>3, <2>1, OnAppFrameLink DEF on_app
<1>4. QED BY <1>1, <1>2, <1>3 DEF AppEvents

\* New settings connect, let go of, or leave the link.
LEMMA ApplySettingsLink ==
  ASSUME NEW r, RunOK(r), LinkInv(r), NEW new \in TncSettings
  PROVE  LinkInv(apply_settings(r, new))
<1>. DEFINE r1 == [r EXCEPT !.settings = new]
            r2 == [r1 EXCEPT !.idle_timer = FALSE]
<1>1. r1 \in Run /\ r2 \in Run BY DEF RunOK, Run
<1>2. RunOK(r1) BY <1>1 DEF RunOK, Run
<1>3. Consistent(r1) /\ Consistent(r2)
  BY DEF RunOK, Run, LinkInv, Consistent
<1>4. CASE r.settings.connect = "OnDemand" /\ new.connect = "Always"
  <2>1. apply_settings(r, new) = connect_if_idle(r2)
    BY <1>4 DEF apply_settings
  <2>2. r2.settings.connect = "Always" BY <1>4 DEF RunOK, Run
  <2>3. r2.idle_timer = FALSE BY DEF RunOK, Run
  <2>. HIDE DEF r1, r2
  <2>4. CASE r2.link # "Idle"
    BY <1>1, <1>3, <2>1, <2>2, <2>4
    DEF connect_if_idle, LinkInv, Pursued, Kept, wants_link, Run
  <2>5. CASE r2.link = "Idle"
    BY <1>1, <1>3, <2>1, <2>2, <2>5
    DEF connect_if_idle, start_connect, LinkInv, Consistent, Pursued, Kept,
        wants_link, Run
  <2>6. QED BY <2>4, <2>5
<1>5. CASE r.settings.connect = "Always" /\ new.connect = "OnDemand"
           /\ r.sessions = {}
  <2>1. apply_settings(r, new) = release(r1) BY <1>5 DEF apply_settings
  <2>2. r1.settings.connect = "OnDemand" /\ r1.sessions = {}
    BY <1>5 DEF RunOK, Run
  <2>. HIDE DEF r1
  <2>3. CASE ~wants_link(r1) BY <1>2, <1>3, <2>1, <2>3, ReleaseLink
  <2>4. CASE wants_link(r1) /\ r1.settings.idle_timeout = 0
    <3>1. LET d == disconnect(r1) IN
          /\ Consistent(d) /\ d.link = "Idle"
          /\ d.settings = r1.settings /\ d.sessions = r1.sessions
      BY <1>2, DisconnectLink
    <3>2. QED
      BY <2>1, <2>2, <2>4, <3>1
      DEF release, close, LinkInv, Pursued, Kept
  <2>5. CASE wants_link(r1) /\ r1.settings.idle_timeout # 0
    <3>1. PICK u : u = [r1 EXCEPT !.idle_timer = TRUE] OBVIOUS
    <3>2. apply_settings(r, new) = u BY <2>1, <2>5, <3>1 DEF release
    <3>3. Consistent(u) BY <1>1, <1>3, <3>1 DEF Consistent, Run
    <3>4. u.idle_timer /\ u.sessions = {} /\ u.settings.connect = "OnDemand"
      BY <1>1, <2>2, <3>1 DEF Run
    <3>5. QED BY <3>2, <3>3, <3>4 DEF LinkInv, Pursued, Kept
  <2>6. QED BY <2>3, <2>4, <2>5
<1>6. CASE ~(r.settings.connect = "OnDemand" /\ new.connect = "Always")
           /\ ~(r.settings.connect = "Always" /\ new.connect = "OnDemand"
                /\ r.sessions = {})
  <2>1. apply_settings(r, new) = r1 BY <1>6 DEF apply_settings
  <2>2. /\ r1.settings = new /\ r1.link = r.link /\ r1.held = r.held
        /\ r1.sessions = r.sessions /\ r1.phase = r.phase
        /\ r1.idle_timer = r.idle_timer
    BY DEF RunOK, Run
  <2>3. r.settings.connect \in Connects /\ new.connect \in Connects
    BY DEF RunOK, Run, TncSettings
  <2>. HIDE DEF r1
  <2>4. QED
    BY <1>3, <1>6, <2>1, <2>2, <2>3
    DEF LinkInv, Pursued, Kept, wants_link, Connects
<1>7. QED BY <1>4, <1>5, <1>6

\* A new connector: the old link goes, and a wanted one is begun.
LEMMA OnConnectorLink ==
  ASSUME NEW r, RunOK(r), LinkInv(r)
  PROVE  LinkInv(on_connector(r))
<1>. DEFINE r1 == [close(r) EXCEPT !.attempt = 0]
<1>1. close(r) \in Run BY DisconnectOK DEF close, RunOK
<1>2. Consistent(close(r)) /\ close(r).link = "Idle"
  BY DisconnectLink DEF close
<1>3. r1 \in Run /\ Consistent(r1) /\ r1.link = "Idle"
  BY <1>1, <1>2 DEF Consistent, Run
<1>4. on_connector(r) = IF wants_link(r1) THEN start_connect(r1) ELSE r1
  BY DEF on_connector
<1>. HIDE DEF r1
<1>5. CASE wants_link(r1) BY <1>3, <1>4, <1>5, ConnectLink
<1>6. CASE ~wants_link(r1)
  BY <1>3, <1>4, <1>6 DEF LinkInv, Pursued, Kept, wants_link, Run
<1>7. QED BY <1>5, <1>6

\* port.connect, port.disconnect and port.release.
LEMMA OnHoldLink ==
  ASSUME NEW r, RunOK(r), LinkInv(r), NEW hold \in {"none", "up", "down"}
  PROVE  LinkInv(on_hold(r, hold))
<1>. DEFINE r1 == [r EXCEPT !.held = hold, !.idle_timer = FALSE]
<1>0. r \in Run BY DEF RunOK
<1>1. r1 \in Run BY <1>0 DEF Run
<1>1a. /\ r1.state = r.state /\ r1.waiting = r.waiting /\ r1.link = r.link
       /\ r1.writer_tx = r.writer_tx /\ r1.links = r.links
       /\ r1.pending = r.pending /\ r1.phase = r.phase
       /\ r1.stale = r.stale /\ r1.ending = r.ending
  BY <1>0 DEF Run
<1>2. RunOK(r1) /\ Consistent(r1)
  <2>1. RunOK(r1) BY <1>1, <1>1a DEF RunOK
  <2>2. Consistent(r1) BY <1>1a DEF LinkInv, Consistent
  <2>3. QED BY <2>1, <2>2
<1>3. /\ wants_link(r1) => on_hold(r, hold) = connect_if_idle(r1)
      /\ ~wants_link(r1) => on_hold(r, hold) \in {close(r1), release(r1)}
  <2>1. CASE wants_link(r1) BY <2>1 DEF on_hold
  <2>2. CASE ~wants_link(r1) /\ hold = "none" BY <2>2 DEF on_hold
  <2>3. CASE ~wants_link(r1) /\ hold # "none" BY <2>3 DEF on_hold
  <2>4. QED BY <2>1, <2>2, <2>3
<1>. HIDE DEF r1
<1>4. CASE wants_link(r1) /\ r1.link = "Idle"
  BY <1>1, <1>2, <1>3, <1>4, ConnectLink DEF connect_if_idle
<1>5. CASE wants_link(r1) /\ r1.link # "Idle"
  BY <1>2, <1>3, <1>5 DEF connect_if_idle, LinkInv, Pursued, Kept
<1>6. CASE ~wants_link(r1) BY <1>2, <1>3, <1>6, CloseLink, ReleaseLink
<1>7. QED BY <1>4, <1>5, <1>6

\* A lost link is retried if it is wanted; a frame leaves it alone.
LEMMA OnTncLink ==
  ASSUME NEW r, RunOK(r), LinkInv(r), NEW ev, NEW slow
  PROVE  LinkInv(on_tnc_frame(r, ev, slow)) /\ LinkInv(on_tnc_closed(r, ev))
<1>0. r \in Run BY DEF RunOK
<1>1. LinkInv(on_tnc_frame(r, ev, slow))
  <2>1. LET u == on_tnc_frame(r, ev, slow) IN
        /\ u.state = r.state /\ u.waiting = r.waiting /\ u.link = r.link
        /\ u.writer_tx = r.writer_tx /\ u.pending = r.pending
        /\ u.phase = r.phase /\ u.held = r.held /\ u.settings = r.settings
        /\ u.sessions = r.sessions /\ u.idle_timer = r.idle_timer
        /\ u.links = r.links
    BY <1>0 DEF on_tnc_frame, Run
  <2>2. QED BY <2>1, SameLink
<1>2. ASSUME ev.gen = r.generation, r.link = "Connected"
      PROVE  LinkInv(on_tnc_closed(r, ev))
  <2>1. PICK d : d = drop_link(r) OBVIOUS
  <2>2. /\ d \in Run /\ d.link = "Idle" /\ d.writer_tx = 0
        /\ d.waiting = "none" /\ d.pending = <<>>
    <3>1. RunOK(r) BY <1>0
    <3>2. d \in Run BY <2>1, <3>1, DropLinkOK DEF RunOK
    <3>3. r \in Run BY <3>1 DEF RunOK
    <3>4. /\ d.link = "Idle" /\ d.writer_tx = 0
          /\ d.waiting = r.waiting /\ d.pending = r.pending
      BY <2>1, <3>3 DEF drop_link, Run
    <3>5. r.waiting = "none" /\ r.pending = <<>>
      BY <1>2 DEF LinkInv, Consistent
    <3>6. QED BY <3>2, <3>4, <3>5
  <2>3. CASE wants_link(d)
    <3>1. on_tnc_closed(r, ev) = start_backoff([d EXCEPT !.attempt = 0])
      BY <1>2, <2>1, <2>3 DEF on_tnc_closed
    <3>2. QED
      BY <2>2, <2>3, <3>1
      DEF start_backoff, LinkInv, Consistent, Pursued, Kept, wants_link, Run
  <2>4. CASE ~wants_link(d)
    <3>1. on_tnc_closed(r, ev) = [d EXCEPT !.state = "Idle"]
      BY <1>2, <2>1, <2>4 DEF on_tnc_closed
    <3>2. QED
      BY <2>2, <2>4, <3>1
      DEF LinkInv, Consistent, Pursued, Kept, wants_link, Run
  <2>5. QED BY <2>3, <2>4
<1>3. QED BY <1>1, <1>2 DEF on_tnc_closed

\* The link is up.  If everyone left in the meantime it is closed again, or
\* the idle timer they left behind is still running.
LEMMA OnLinkOkLink ==
  ASSUME NEW r, RunOK(r), LinkInv(r), r.link = "Connecting",
         NEW exit_kiss \in BOOLEAN
  PROVE  LinkInv(on_link_ok(r, exit_kiss))
<1>1. PICK u : u = link_up(r, exit_kiss) OBVIOUS
<1>2. RunOK(u) BY <1>1, LinkUpOK
<1>3. /\ u.state = "Connected" /\ u.link = "Connected" /\ u.waiting = "none"
      /\ u.writer_tx = Len(r.links) + 1 /\ u.pending = <<>>
      /\ u.phase = r.phase /\ u.held = r.held /\ u.settings = r.settings
      /\ u.sessions = r.sessions /\ u.idle_timer = r.idle_timer
      /\ Len(u.links) = Len(r.links) + 1
  BY <1>1 DEF link_up, RunOK, Run
<1>4. LinkInv(u)
  BY <1>3 DEF LinkInv, Consistent, Pursued, Kept, wants_link
<1>5. wants_link(r) <=> wants_link(u) BY <1>3 DEF wants_link
<1>6. QED BY <1>1, <1>2, <1>4, <1>5, CloseLink DEF on_link_ok

\* A failed connect is retried, polled for, or given up if nobody waits.
LEMMA OnLinkErrLink ==
  ASSUME NEW r, RunOK(r), LinkInv(r), r.link = "Connecting",
         NEW error \in {"Unpaired", "WaitingForDevice", "Other"}
  PROVE  LinkInv(on_link_err(r, error))
<1>1. PICK u : u = [r EXCEPT !.link = "Idle"] OBVIOUS
<1>2. /\ u \in Run /\ u.link = "Idle" /\ u.writer_tx = 0
      /\ wants_link(u) <=> wants_link(r)
  BY <1>1 DEF RunOK, Run, LinkNames, LinkInv, Consistent, wants_link
<1>3. CASE ~wants_link(r)
  <2>1. on_link_err(r, error) = go_idle(u) BY <1>1, <1>3 DEF on_link_err
  <2>2. QED
    BY <1>2, <1>3, <2>1
    DEF go_idle, clear_pending, LinkInv, Consistent, Pursued, Kept,
        wants_link, Run
<1>4. CASE wants_link(r) /\ error = "Other"
  <2>1. on_link_err(r, error) = start_backoff([u EXCEPT !.waiting = "none"])
    BY <1>1, <1>4 DEF on_link_err
  <2>2. PICK w : w = start_backoff([u EXCEPT !.waiting = "none"]) OBVIOUS
  <2>3. /\ w.waiting = "none" /\ w.state = "Backoff" /\ w.link = "Backoff"
        /\ w.writer_tx = 0 /\ w.held = u.held /\ w.settings = u.settings
        /\ w.sessions = u.sessions
    BY <1>2, <2>2 DEF start_backoff, Run
  <2>4. Consistent(w) BY <2>3 DEF Consistent
  <2>5. wants_link(w) BY <1>2, <1>4, <2>3 DEF wants_link
  <2>6. QED BY <2>1, <2>2, <2>3, <2>4, <2>5 DEF LinkInv, Pursued, Kept
<1>5. CASE wants_link(r) /\ error # "Other"
  <2>1. on_link_err(r, error) = start_wait(u, error)
    BY <1>1, <1>5 DEF on_link_err
  <2>2. PICK w : w = start_wait(u, error) OBVIOUS
  <2>3. /\ w.waiting = error /\ w.state = error /\ w.link = "Backoff"
        /\ w.writer_tx = 0 /\ w.held = u.held /\ w.settings = u.settings
        /\ w.sessions = u.sessions
    BY <1>2, <2>2 DEF start_wait, Run
  <2>4. error # "none" OBVIOUS
  <2>5. Consistent(w) BY <2>3, <2>4 DEF Consistent
  <2>6. wants_link(w) BY <1>2, <1>5, <2>3 DEF wants_link
  <2>7. QED BY <2>1, <2>2, <2>3, <2>5, <2>6 DEF LinkInv, Pursued, Kept
<1>6. QED BY <1>3, <1>4, <1>5

\* After a backoff: another connect, or idle if nobody wants one.
LEMMA OnBackoffOverLink ==
  ASSUME NEW r, RunOK(r), LinkInv(r), r.link = "Backoff"
  PROVE  LinkInv(on_backoff_over(r))
<1>1. PICK u : u = [r EXCEPT !.link = "Idle"] OBVIOUS
<1>2. /\ u \in Run /\ u.link = "Idle" /\ u.writer_tx = 0
      /\ wants_link(u) <=> wants_link(r)
      /\ u.state = r.state /\ u.waiting = r.waiting
  BY <1>1 DEF RunOK, Run, LinkNames, LinkInv, Consistent, wants_link
<1>3. CASE ~wants_link(r)
  <2>1. on_backoff_over(r) = go_idle(u) BY <1>1, <1>3 DEF on_backoff_over
  <2>2. QED
    BY <1>2, <1>3, <2>1
    DEF go_idle, clear_pending, LinkInv, Consistent, Pursued, Kept,
        wants_link, Run
<1>4. CASE wants_link(r)
  <2>1. on_backoff_over(r) = start_connect(u)
    BY <1>1, <1>4 DEF on_backoff_over
  <2>2. PICK w : w = start_connect(u) OBVIOUS
  <2>3. /\ w.waiting = r.waiting /\ w.link = "Connecting" /\ w.writer_tx = 0
        /\ w.state = IF r.waiting = "none" THEN "Connecting" ELSE r.state
        /\ w.held = u.held /\ w.settings = u.settings
        /\ w.sessions = u.sessions
    BY <1>2, <2>2 DEF start_connect, Run
  <2>4. Consistent(w) BY <2>3 DEF LinkInv, Consistent
  <2>5. wants_link(w) BY <1>2, <1>4, <2>3 DEF wants_link
  <2>6. QED BY <2>1, <2>2, <2>3, <2>4, <2>5 DEF LinkInv, Pursued, Kept
<1>5. QED BY <1>3, <1>4

\* The idle timer closes a link that is still unwanted.
LEMMA OnIdleElapsedLink ==
  ASSUME NEW r, RunOK(r), LinkInv(r)
  PROVE  LinkInv(on_idle_elapsed(r))
<1>1. PICK u : u = [r EXCEPT !.idle_timer = FALSE] OBVIOUS
<1>1a. r \in Run BY DEF RunOK
<1>2. u \in Run BY <1>1, <1>1a DEF Run
<1>2a. /\ u.state = r.state /\ u.waiting = r.waiting /\ u.link = r.link
       /\ u.writer_tx = r.writer_tx /\ u.links = r.links
       /\ u.pending = r.pending /\ u.phase = r.phase /\ u.held = r.held
       /\ u.settings = r.settings /\ u.sessions = r.sessions
       /\ u.stale = r.stale /\ u.ending = r.ending /\ u.idle_timer = FALSE
  BY <1>1, <1>1a DEF Run
<1>2b. RunOK(u) BY <1>2, <1>2a DEF RunOK
<1>2c. Consistent(u) BY <1>2a DEF LinkInv, Consistent
<1>2d. wants_link(u) <=> wants_link(r) BY <1>2a DEF wants_link
<1>2e. ASSUME wants_link(u) PROVE LinkInv(u)
  BY <1>2a, <1>2c, <1>2d, <1>2e DEF LinkInv, Pursued, Kept
<1>3. RunOK(u) /\ Consistent(u) /\ (wants_link(u) <=> wants_link(r))
      /\ (wants_link(u) => LinkInv(u))
  BY <1>2b, <1>2c, <1>2d, <1>2e
<1>4. QED BY <1>1, <1>3, CloseLink DEF on_idle_elapsed

\* What a step of link l's tasks leaves alone: everything but that link, and
\* the generation it was given.
SameButLink(r, u, l) ==
  /\ u.state = r.state /\ u.waiting = r.waiting /\ u.link = r.link
  /\ u.writer_tx = r.writer_tx /\ u.pending = r.pending /\ u.stale = r.stale
  /\ u.phase = r.phase /\ u.held = r.held /\ u.settings = r.settings
  /\ u.sessions = r.sessions /\ u.idle_timer = r.idle_timer
  /\ u.generation = r.generation /\ u.attempt = r.attempt
  /\ u.frames_up = r.frames_up /\ u.dropped = r.dropped
  /\ u.taken = r.taken /\ u.cleared = r.cleared /\ u.slow = r.slow
  /\ u.overrun = r.overrun
  /\ Len(u.links) = Len(r.links)
  /\ \A k \in 1 .. Len(r.links) : u.links[k].gen = r.links[k].gen
  /\ \A k \in 1 .. Len(r.links) \ {l} : u.links[k] = r.links[k]

\* A step of one link's tasks leaves the rest of Run alone.
LEMMA LinkStepLeaves ==
  ASSUME RunOK(run), NEW l \in DOMAIN run.links, ReaderStep(l) \/ WriterStep(l)
  PROVE  SameButLink(run, run', l)
<1>1. run \in Run /\ run.links \in Seq(Link) BY DEF RunOK, Run
<1>2. CASE run' = run BY <1>2 DEF SameButLink
<1>3. ASSUME NEW link \in Link, link.gen = run.links[l].gen,
             run' = set_link(l, link)
      PROVE  SameButLink(run, run', l)
  <2>1. PICK links : links = [run.links EXCEPT ![l] = link] OBVIOUS
  <2>2. run' = [run EXCEPT !.links = links] BY <1>3, <2>1 DEF set_link
  <2>3. /\ Len(links) = Len(run.links)
        /\ \A k \in 1 .. Len(run.links) : links[k].gen = run.links[k].gen
        /\ \A k \in 1 .. Len(run.links) \ {l} : links[k] = run.links[k]
    BY <1>1, <1>3, <2>1
  <2>4. QED BY <1>1, <2>2, <2>3 DEF SameButLink, Run
<1>4. QED BY <1>2, <1>3, LinkStepIs

\* What the link's tasks and the age of frames change is not the link's
\* state.
LEMMA TasksLink ==
  ASSUME RunOK(run), LinkInv(run),
         \/ \E l \in DOMAIN run.links : ReaderStep(l) \/ WriterStep(l)
         \/ FrameAges
  PROVE  LinkInv(run')
<1>1. CASE FrameAges BY <1>1, SameLink DEF FrameAges, RunOK, Run
<1>2. CASE \E l \in DOMAIN run.links : ReaderStep(l) \/ WriterStep(l)
  <2>. PICK l \in DOMAIN run.links : ReaderStep(l) \/ WriterStep(l) BY <1>2
  <2>1. SameButLink(run, run', l) BY LinkStepLeaves
  <2>2. QED BY <2>1, SameLink DEF SameButLink
<1>3. QED BY <1>1, <1>2

\* The link invariant holds of a bridge that starts.
LEMMA InitLink == Init => LinkInv(run)
<1>. SUFFICES ASSUME Init PROVE LinkInv(run) OBVIOUS
<1>1. PICK s \in SettingsSet :
        run = IF s.connect = "Always" THEN start_connect(New(s)) ELSE New(s)
  BY DEF Init
<1>2. s.connect \in Connects BY BridgeAssumption DEF TncSettings
<1>3. QED
  BY <1>1, <1>2 DEF New, start_connect, LinkInv, Consistent, Pursued, Kept,
                    wants_link, Connects

\* Every step keeps the link invariant: one case per action.
LEMMA NextLink ==
  TypeOK /\ LinkInv(run) /\ [Next]_vars => LinkInv(run')
<1>. SUFFICES ASSUME TypeOK, LinkInv(run), [Next]_vars PROVE LinkInv(run')
  OBVIOUS
<1>. RunOK(run) BY DEF TypeOK
<1>1. CASE TakeApp
  <2>1. Head(appQ) \in AppEvents
    BY <1>1, TakenOK, BridgeAssumption DEF TakeApp, TypeOK
  <2>2. QED BY <1>1, <2>1, OnAppLink DEF TakeApp, Running
<1>2. CASE TakeTncFrame \/ TakeTncClosed
  BY <1>2, OnTncLink DEF TakeTncFrame, TakeTncClosed
<1>3. CASE ConnectOk BY <1>3, OnLinkOkLink DEF ConnectOk
<1>4. CASE ConnectErr BY <1>4, OnLinkErrLink DEF ConnectErr
<1>5. CASE BackoffOver BY <1>5, OnBackoffOverLink DEF BackoffOver
<1>6. CASE IdleElapsed BY <1>6, OnIdleElapsedLink DEF IdleElapsed
<1>7. CASE Shutdown
  <2>1. disconnect(run) \in Run BY DisconnectOK DEF RunOK
  <2>2. Consistent(disconnect(run)) /\ disconnect(run).link = "Idle"
    BY DisconnectLink
  <2>3. PICK d : d = disconnect(run) OBVIOUS
  <2>4. run' = [d EXCEPT !.phase = "stopping", !.ending = run.writer_tx]
    BY <1>7, <2>3 DEF Shutdown
  <2>5. QED
    BY <2>1, <2>2, <2>3, <2>4 DEF LinkInv, Consistent, Pursued, Kept, Run
<1>8. CASE Stopped
  BY <1>8 DEF Stopped, LinkInv, Consistent, Pursued, Kept, wants_link, RunOK, Run
<1>9. CASE CmdSettings
  BY <1>9, ApplySettingsLink, BridgeAssumption DEF CmdSettings
<1>10. CASE CmdConnector BY <1>10, OnConnectorLink DEF CmdConnector
<1>11. CASE CmdHold BY <1>11, OnHoldLink, BridgeAssumption DEF CmdHold
<1>12. CASE \/ \E l \in DOMAIN run.links : ReaderStep(l) \/ WriterStep(l)
            \/ FrameAges
  BY <1>12, TasksLink
<1>13. CASE \/ UNCHANGED vars
            \/ \E id \in Sessions : AppOpen(id) \/ AppClose(id) \/ AppSend(id)
  BY <1>13 DEF AppOpen, AppClose, AppSend, vars
<1>14. QED
  BY <1>1, <1>2, <1>3, <1>4, <1>5, <1>6, <1>7, <1>8, <1>9, <1>10, <1>11,
     <1>12, <1>13 DEF Next, Loop

\* Whatever order sessions, losses, settings, holds and restarts come in, for
\* any number of sessions: the published state is the link's, a wanted link
\* is up or being brought up, and an unwanted one has its idle timer running.
THEOREM LinkSafe ==
  Spec => [](LinkConsistent /\ WantedLinkPursued /\ NoOrphanLink)
<1>1. LinkInvariant => LinkConsistent /\ WantedLinkPursued /\ NoOrphanLink
  BY DEF LinkInvariant, LinkInv, Consistent, Pursued, Kept, LinkConsistent,
         WantedLinkPursued, Wanted, NoOrphanLink
<1>2. Init => LinkInvariant BY InitLink DEF LinkInvariant
<1>3. TypeOK /\ LinkInvariant /\ [Next]_vars => LinkInvariant'
  BY NextLink DEF LinkInvariant
<1>4. QED BY <1>1, <1>2, <1>3, TypeCorrect, PTL DEF Spec

\* For any number of sessions, what the bridge publishes is what its link does, it has a
\* writer's queue exactly while it is connected, and frames wait only for a link to come.
THEOREM LinkConsistentAlways == Spec => []LinkConsistent
BY LinkSafe, PTL

\* For any number of sessions, a link that nobody wants has its idle timer running, so that
\* none is kept for ever after its last session closed.
THEOREM NoOrphanAlways == Spec => []NoOrphanLink
BY LinkSafe, PTL

------------------------------------------------------------------------------
\* What the bridge publishes.

\* A step of TncPort, or none, from what r publishes to what u does.
Watched(r, u) ==
  \/ u.state = r.state /\ u.attempt = r.attempt
  \/ r.state \in {"Idle", "Backoff"} /\ u.state = "Connecting"
       /\ u.attempt = r.attempt
  \/ u.state \in {"Connecting", "Idle"} /\ u.attempt = 0
  \/ r.state \in Port!Trying /\ u.state = "Connected" /\ u.attempt = 0
  \/ r.state \in Port!Trying /\ u.state = "Backoff"
       /\ u.attempt = r.attempt + 1
  \/ r.state \in Port!Trying /\ u.attempt = 0
       /\ u.state \in {"Unpaired", "WaitingForDevice"}
  \/ r.state = "Connected" /\ u.state = "Backoff" /\ u.attempt = 1
  \/ u.state = "Idle" /\ u.attempt = r.attempt

\* Closing shows Idle and forgets no attempts.
LEMMA DisconnectShows ==
  ASSUME NEW r, RunOK(r)
  PROVE  disconnect(r).state = "Idle" /\ disconnect(r).attempt = r.attempt
<1>1. PICK s : s = say_exit_kiss(r) OBVIOUS
<1>2. s \in Run BY <1>1, SayExitKissOK DEF RunOK
<1>3. s.attempt = r.attempt
  BY <1>1 DEF say_exit_kiss, send_writer, RunOK, Run
<1>4. LET d == go_idle(drop_link(s)) IN
      d.state = "Idle" /\ d.attempt = s.attempt
  BY <1>2 DEF go_idle, clear_pending, drop_link, Run
<1>5. QED BY <1>1, <1>3, <1>4 DEF disconnect

\* So does letting go, now or later; connecting shows it only from Idle.
LEMMA ReleaseShows ==
  ASSUME NEW r, NEW u, RunOK(u), Consistent(r), u.state = r.state,
         u.attempt = r.attempt, u.link = r.link, u.waiting = r.waiting
  PROVE  /\ Watched(r, u) /\ Watched(r, close(u)) /\ Watched(r, release(u))
         /\ Watched(r, connect_if_idle(u))
<1>0. u \in Run BY DEF RunOK
<1>1. Watched(r, u) BY DEF Watched
<1>2. Watched(r, close(u)) BY DisconnectShows DEF close, Watched
<1>3. PICK t : t = [u EXCEPT !.idle_timer = TRUE] OBVIOUS
<1>4. t.state = u.state /\ t.attempt = u.attempt BY <1>0, <1>3 DEF Run
<1>5. Watched(r, t) BY <1>4 DEF Watched
<1>6. Watched(r, release(u)) BY <1>2, <1>3, <1>5 DEF release
<1>7. CASE u.link = "Idle"
  <2>1. PICK c : c = start_connect(u) OBVIOUS
  <2>2. r.state = "Idle" /\ u.waiting = "none" BY <1>7 DEF Consistent
  <2>3. c.state = "Connecting" /\ c.attempt = u.attempt
    BY <1>0, <2>1, <2>2 DEF start_connect, Run
  <2>4. Watched(r, c) BY <2>2, <2>3 DEF Watched
  <2>5. QED BY <1>1, <1>2, <1>6, <1>7, <2>1, <2>4 DEF connect_if_idle
<1>8. QED BY <1>1, <1>2, <1>6, <1>7 DEF connect_if_idle

\* A frame shows only when it starts a connect.
LEMMA UplinkShows ==
  ASSUME NEW r, RunOK(r), Consistent(r), NEW n \in Nat
  PROVE  Watched(r, uplink(r, n))
<1>0. r \in Run BY DEF RunOK
<1>1. CASE r.link = "Connected"
  <2>1. LET u == uplink(r, n) IN u.state = r.state /\ u.attempt = r.attempt
    BY <1>0, <1>1 DEF uplink, send_writer, drop, Run
  <2>2. QED BY <2>1 DEF Watched
<1>2. CASE r.link = "Idle" /\ r.held = "down"
  <2>1. uplink(r, n) = drop(r) BY <1>2 DEF uplink
  <2>2. drop(r).state = r.state /\ drop(r).attempt = r.attempt
    BY <1>0 DEF drop, Run
  <2>3. QED BY <2>1, <2>2 DEF Watched
<1>3. CASE ~(r.link = "Connected") /\ ~(r.link = "Idle" /\ r.held = "down")
  <2>1. PICK q : q = queue_pending(r, n) OBVIOUS
  <2>2. RunOK(q) BY <2>1, QueuePendingOK
  <2>3. /\ q.state = r.state /\ q.attempt = r.attempt /\ q.link = r.link
        /\ q.waiting = r.waiting
    BY <1>0, <2>1 DEF queue_pending, Run
  <2>4. uplink(r, n) = connect_if_idle(q)
    <3>1. CASE r.link = "Idle" BY <1>3, <2>1, <2>3, <3>1 DEF uplink, connect_if_idle
    <3>2. CASE r.link # "Idle" BY <1>3, <2>1, <2>3, <3>2 DEF uplink, connect_if_idle
    <3>3. QED BY <3>1, <3>2
  <2>5. QED BY <2>2, <2>3, <2>4, ReleaseShows
<1>4. QED BY <1>1, <1>2, <1>3

\* on_app, whatever the event.
LEMMA OnAppShows ==
  ASSUME NEW r, RunOK(r), Consistent(r), NEW ev \in AppEvents
  PROVE  Watched(r, on_app(r, ev))
<1>0. r \in Run /\ r.taken + 1 \in Nat BY DEF RunOK, Run
<1>1. CASE ev.type = "SessionOpened"
  <2>1. PICK u : u = [r EXCEPT !.sessions = @ \cup {ev.id}, !.idle_timer = FALSE]
    OBVIOUS
  <2>2. ev.id \in Sessions BY DEF AppEvents
  <2>3. u \in Run BY <1>0, <2>1, <2>2 DEF Run
  <2>4. /\ RunOK(u) /\ u.state = r.state /\ u.attempt = r.attempt
        /\ u.link = r.link /\ u.waiting = r.waiting
    BY <1>0, <2>1, <2>3 DEF RunOK, Run
  <2>5. on_app(r, ev) = IF wants_link(u) THEN connect_if_idle(u) ELSE u
    BY <1>1, <2>1 DEF on_app, on_app_opened
  <2>6. QED BY <2>4, <2>5, ReleaseShows
<1>2. CASE ev.type = "SessionClosed"
  <2>1. PICK u : u = [r EXCEPT !.sessions = @ \ {ev.id}] OBVIOUS
  <2>2. u \in Run BY <1>0, <2>1 DEF Run
  <2>3. /\ RunOK(u) /\ u.state = r.state /\ u.attempt = r.attempt
        /\ u.link = r.link /\ u.waiting = r.waiting
    BY <1>0, <2>1, <2>2 DEF RunOK, Run
  <2>4. on_app(r, ev) \in {release(u), u}
    BY <1>2, <2>1 DEF on_app, on_app_closed
  <2>5. QED BY <2>3, <2>4, ReleaseShows
<1>3. CASE ev.type = "Frame"
  <2>1. PICK u : u = [r EXCEPT !.taken = @ + 1] OBVIOUS
  <2>2. u \in Run BY <1>0, <2>1 DEF Run
  <2>3. /\ RunOK(u) /\ u.state = r.state /\ u.attempt = r.attempt
        /\ Consistent(u)
    BY <1>0, <2>1, <2>2 DEF RunOK, Run, Consistent
  <2>4. ev.n \in Nat BY <1>3 DEF AppEvents
  <2>5. Watched(u, uplink(u, ev.n)) BY <2>3, <2>4, UplinkShows
  <2>6. Watched(r, uplink(u, ev.n)) BY <2>3, <2>5 DEF Watched
  <2>7. drop(u).state = u.state /\ drop(u).attempt = u.attempt
    BY <2>2 DEF drop, Run
  <2>8. Watched(r, drop(u)) BY <2>3, <2>7 DEF Watched
  <2>9. on_app(r, ev) \in {uplink(u, ev.n), drop(u)}
    BY <1>3, <2>1 DEF on_app, on_app_frame
  <2>10. QED BY <2>6, <2>8, <2>9
<1>4. QED BY <1>1, <1>2, <1>3 DEF AppEvents

\* The supervisor's commands.
LEMMA CmdShows ==
  ASSUME NEW r, RunOK(r), Consistent(r), NEW new \in TncSettings,
         NEW hold \in {"none", "up", "down"}
  PROVE  /\ Watched(r, apply_settings(r, new)) /\ Watched(r, on_connector(r))
         /\ Watched(r, on_hold(r, hold))
<1>0. r \in Run BY DEF RunOK
<1>1. Watched(r, apply_settings(r, new))
  <2>1. PICK u : u = [r EXCEPT !.settings = new] OBVIOUS
  <2>2. PICK w : w = [u EXCEPT !.idle_timer = FALSE] OBVIOUS
  <2>3. u \in Run /\ w \in Run
    <3>1. u \in Run BY <1>0, <2>1 DEF Run
    <3>2. w \in Run BY <2>2, <3>1 DEF Run
    <3>3. QED BY <3>1, <3>2
  <2>4. /\ RunOK(u) /\ u.state = r.state /\ u.attempt = r.attempt
        /\ u.link = r.link /\ u.waiting = r.waiting
    BY <1>0, <2>1, <2>3 DEF RunOK, Run
  <2>5. /\ RunOK(w) /\ w.state = r.state /\ w.attempt = r.attempt
        /\ w.link = r.link /\ w.waiting = r.waiting
    BY <2>2, <2>3, <2>4 DEF RunOK, Run
  <2>6. apply_settings(r, new) \in {connect_if_idle(w), release(u), u}
    <3>1. CASE r.settings.connect = "OnDemand" /\ new.connect = "Always"
      BY <2>1, <2>2, <3>1 DEF apply_settings
    <3>2. CASE /\ r.settings.connect = "Always" /\ new.connect = "OnDemand"
               /\ r.sessions = {}
      BY <2>1, <3>2 DEF apply_settings
    <3>3. CASE /\ ~(r.settings.connect = "OnDemand" /\ new.connect = "Always")
               /\ ~(/\ r.settings.connect = "Always" /\ new.connect = "OnDemand"
                    /\ r.sessions = {})
      BY <2>1, <3>3 DEF apply_settings
    <3>4. QED BY <3>1, <3>2, <3>3
  <2>7. QED BY <2>4, <2>5, <2>6, ReleaseShows
<1>2. Watched(r, on_connector(r))
  <2>1. PICK u : u = [close(r) EXCEPT !.attempt = 0] OBVIOUS
  <2>2. close(r) \in Run /\ close(r).state = "Idle" /\ close(r).waiting = "none"
    BY DisconnectOK, DisconnectLink DEF close, RunOK
  <2>3. /\ u \in Run /\ u.state = "Idle" /\ u.attempt = 0
        /\ u.waiting = "none"
    BY <2>1, <2>2 DEF Run
  <2>4. PICK c : c = start_connect(u) OBVIOUS
  <2>5. c.state = "Connecting" /\ c.attempt = 0
    BY <2>3, <2>4 DEF start_connect, Run
  <2>6. on_connector(r) \in {c, u} BY <2>1, <2>4 DEF on_connector
  <2>7. QED BY <2>3, <2>5, <2>6 DEF Watched
<1>3. Watched(r, on_hold(r, hold))
  <2>1. PICK u : u = [r EXCEPT !.held = hold, !.idle_timer = FALSE] OBVIOUS
  <2>2. u \in Run BY <1>0, <2>1 DEF Run
  <2>3. /\ RunOK(u) /\ u.state = r.state /\ u.attempt = r.attempt
        /\ u.link = r.link /\ u.waiting = r.waiting
    BY <1>0, <2>1, <2>2 DEF RunOK, Run
  <2>4. on_hold(r, hold) \in {connect_if_idle(u), close(u), release(u)}
    <3>1. CASE wants_link(u) BY <2>1, <3>1 DEF on_hold
    <3>2. CASE ~wants_link(u) /\ hold = "none" BY <2>1, <3>2 DEF on_hold
    <3>3. CASE ~wants_link(u) /\ hold # "none" BY <2>1, <3>3 DEF on_hold
    <3>4. QED BY <3>1, <3>2, <3>3
  <2>5. QED BY <2>3, <2>4, ReleaseShows
<1>4. QED BY <1>1, <1>2, <1>3

\* A frame from the TNC shows nothing; a lost link is retried or let go.
LEMMA OnTncShows ==
  ASSUME NEW r, RunOK(r), Consistent(r), NEW ev, NEW slow
  PROVE  /\ Watched(r, on_tnc_frame(r, ev, slow))
         /\ Watched(r, on_tnc_closed(r, ev))
<1>0. r \in Run BY DEF RunOK
<1>1. LET u == on_tnc_frame(r, ev, slow) IN
      u.state = r.state /\ u.attempt = r.attempt
  BY <1>0 DEF on_tnc_frame, Run
<1>2. Watched(r, on_tnc_frame(r, ev, slow)) BY <1>1 DEF Watched
<1>3. CASE ev.gen = r.generation /\ r.link = "Connected"
  <2>1. r.state = "Connected" BY <1>3 DEF Consistent
  <2>2. PICK d : d = drop_link(r) OBVIOUS
  <2>3. d \in Run /\ d.attempt = r.attempt
    BY <1>0, <2>2, DropLinkOK DEF drop_link, RunOK, Run
  <2>4. PICK b : b = start_backoff([d EXCEPT !.attempt = 0]) OBVIOUS
  <2>5. b.state = "Backoff" /\ b.attempt = 1
    BY <2>3, <2>4 DEF start_backoff, Run
  <2>6. PICK i : i = [d EXCEPT !.state = "Idle"] OBVIOUS
  <2>7. i.state = "Idle" /\ i.attempt = r.attempt BY <2>3, <2>6 DEF Run
  <2>8. on_tnc_closed(r, ev) \in {b, i}
    BY <1>3, <2>2, <2>4, <2>6 DEF on_tnc_closed
  <2>9. QED BY <1>2, <2>1, <2>5, <2>7, <2>8 DEF Watched
<1>4. CASE ~(ev.gen = r.generation /\ r.link = "Connected")
  <2>1. on_tnc_closed(r, ev) = r BY <1>4 DEF on_tnc_closed
  <2>2. QED BY <1>2, <2>1 DEF Watched
<1>5. QED BY <1>3, <1>4

\* While a connect is under way the port shows it, or what is polled for.
LEMMA ConnectingShows ==
  ASSUME NEW r, RunOK(r), Consistent(r), r.link = "Connecting"
  PROVE  r.state \in Port!Trying
BY DEF Consistent, Port!Trying, RunOK, Run, Waits

\* A connect succeeds: up, or let go at once.
LEMMA OnLinkOkShows ==
  ASSUME NEW r, RunOK(r), Consistent(r), r.link = "Connecting",
         NEW exit_kiss \in BOOLEAN
  PROVE  Watched(r, on_link_ok(r, exit_kiss))
<1>1. PICK u : u = link_up(r, exit_kiss) OBVIOUS
<1>2. RunOK(u) BY <1>1, LinkUpOK
<1>3. u.state = "Connected" /\ u.attempt = 0
  BY <1>1 DEF link_up, RunOK, Run
<1>4. Watched(r, u) BY <1>3, ConnectingShows DEF Watched
<1>5. close(u).state = "Idle" /\ close(u).attempt = 0
  BY <1>2, <1>3, DisconnectShows DEF close
<1>6. Watched(r, close(u)) BY <1>5 DEF Watched
<1>7. QED BY <1>1, <1>4, <1>6 DEF on_link_ok

\* A connect fails: retried with one attempt more, polled for, or let go.
LEMMA OnLinkErrShows ==
  ASSUME NEW r, RunOK(r), Consistent(r), r.link = "Connecting",
         NEW error \in {"Unpaired", "WaitingForDevice", "Other"}
  PROVE  Watched(r, on_link_err(r, error))
<1>1. PICK u : u = [r EXCEPT !.link = "Idle"] OBVIOUS
<1>2. u \in Run /\ u.attempt = r.attempt
  BY <1>1 DEF RunOK, Run, LinkNames
<1>3. PICK g : g = go_idle(u) OBVIOUS
<1>4. g.state = "Idle" /\ g.attempt = r.attempt
  BY <1>2, <1>3 DEF go_idle, clear_pending, Run
<1>5. PICK b : b = start_backoff([u EXCEPT !.waiting = "none"]) OBVIOUS
<1>6. b.state = "Backoff" /\ b.attempt = r.attempt + 1
  BY <1>2, <1>5 DEF start_backoff, Run
<1>7. PICK w : w = start_wait(u, error) OBVIOUS
<1>8. w.state = error /\ w.attempt = 0
  BY <1>2, <1>7 DEF start_wait, Run
<1>9. \/ on_link_err(r, error) \in {g, b}
      \/ on_link_err(r, error) = w /\ error # "Other"
  BY <1>1, <1>3, <1>5, <1>7 DEF on_link_err
<1>10. Watched(r, g) BY <1>4 DEF Watched
<1>11. Watched(r, b) BY <1>6, ConnectingShows DEF Watched
<1>12. error # "Other" => Watched(r, w) BY <1>8, ConnectingShows DEF Watched
<1>13. QED BY <1>9, <1>10, <1>11, <1>12

\* A backoff ends: a connect shows, unless it is one of a poll.
LEMMA OnBackoffOverShows ==
  ASSUME NEW r, RunOK(r), Consistent(r), r.link = "Backoff"
  PROVE  Watched(r, on_backoff_over(r))
<1>1. PICK u : u = [r EXCEPT !.link = "Idle"] OBVIOUS
<1>2. /\ u \in Run /\ u.attempt = r.attempt /\ u.state = r.state
      /\ u.waiting = r.waiting
  BY <1>1 DEF RunOK, Run, LinkNames
<1>3. PICK g : g = go_idle(u) OBVIOUS
<1>4. g.state = "Idle" /\ g.attempt = r.attempt
  BY <1>2, <1>3 DEF go_idle, clear_pending, Run
<1>5. PICK c : c = start_connect(u) OBVIOUS
<1>6. /\ c.attempt = r.attempt
      /\ c.state = IF r.waiting = "none" THEN "Connecting" ELSE r.state
  BY <1>2, <1>5 DEF start_connect, Run
<1>7. r.waiting = "none" => r.state = "Backoff" BY DEF Consistent
<1>8. Watched(r, g) BY <1>4 DEF Watched
<1>9. Watched(r, c) BY <1>6, <1>7 DEF Watched
<1>10. on_backoff_over(r) \in {g, c} BY <1>1, <1>3, <1>5 DEF on_backoff_over
<1>11. QED BY <1>8, <1>9, <1>10

\* The idle timer shows only when it closes the link.
LEMMA OnIdleElapsedShows ==
  ASSUME NEW r, RunOK(r), Consistent(r)
  PROVE  Watched(r, on_idle_elapsed(r))
<1>1. PICK u : u = [r EXCEPT !.idle_timer = FALSE] OBVIOUS
<1>2. u \in Run BY <1>1 DEF RunOK, Run
<1>3. /\ RunOK(u) /\ u.state = r.state /\ u.attempt = r.attempt
      /\ u.link = r.link /\ u.waiting = r.waiting
  BY <1>1, <1>2 DEF RunOK, Run
<1>4. on_idle_elapsed(r) \in {u, close(u)} BY <1>1 DEF on_idle_elapsed
<1>5. QED BY <1>3, <1>4, ReleaseShows

\* Every step shows a step of TncPort or nothing.
LEMMA NextShows ==
  TypeOK /\ LinkConsistent /\ [Next]_vars
    => [Port!Next]_<<run.state, run.attempt>>
<1>. SUFFICES ASSUME TypeOK, LinkConsistent, [Next]_vars
              PROVE  Watched(run, run')
  BY DEF Watched, Port!Next, Port!Connect, Port!Restart, Port!Up, Port!Fail,
         Port!Wait, Port!Lost, Port!LetGo
<1>. RunOK(run) BY DEF TypeOK
<1>. Consistent(run) BY DEF LinkConsistent, Consistent
<1>0. run \in Run /\ run.settings \in TncSettings BY DEF RunOK, Run
<1>1. CASE TakeApp
  <2>1. Head(appQ) \in AppEvents
    BY <1>1, TakenOK, BridgeAssumption DEF TakeApp, TypeOK
  <2>2. QED BY <1>1, <2>1, OnAppShows DEF TakeApp
<1>2. CASE TakeTncFrame \/ TakeTncClosed
  BY <1>2, OnTncShows DEF TakeTncFrame, TakeTncClosed
<1>3. CASE ConnectOk BY <1>3, OnLinkOkShows DEF ConnectOk
<1>4. CASE ConnectErr BY <1>4, OnLinkErrShows DEF ConnectErr
<1>5. CASE BackoffOver BY <1>5, OnBackoffOverShows DEF BackoffOver
<1>6. CASE IdleElapsed BY <1>6, OnIdleElapsedShows DEF IdleElapsed
<1>7. CASE Shutdown
  <2>1. PICK d : d = disconnect(run) OBVIOUS
  <2>2. d \in Run /\ d.state = "Idle" /\ d.attempt = run.attempt
    BY <2>1, DisconnectOK, DisconnectShows DEF RunOK
  <2>3. run' = [d EXCEPT !.phase = "stopping", !.ending = run.writer_tx]
    BY <1>7, <2>1 DEF Shutdown
  <2>4. run'.state = "Idle" /\ run'.attempt = run.attempt
    BY <2>2, <2>3 DEF Run
  <2>5. QED BY <2>4 DEF Watched
<1>8. CASE Stopped \/ FrameAges
  <2>1. run'.state = run.state /\ run'.attempt = run.attempt
    BY <1>0, <1>8 DEF Stopped, FrameAges, Run
  <2>2. QED BY <2>1 DEF Watched
<1>9. CASE CmdSettings BY <1>9, CmdShows, BridgeAssumption DEF CmdSettings
<1>10. CASE CmdConnector \/ CmdHold
  BY <1>0, <1>10, CmdShows, BridgeAssumption DEF CmdConnector, CmdHold
<1>11. CASE \E l \in DOMAIN run.links : ReaderStep(l) \/ WriterStep(l)
  <2>. PICK l \in DOMAIN run.links : ReaderStep(l) \/ WriterStep(l) BY <1>11
  <2>1. run'.state = run.state /\ run'.attempt = run.attempt
    BY LinkStepLeaves DEF SameButLink
  <2>2. QED BY <2>1 DEF Watched
<1>12. CASE \/ UNCHANGED vars
            \/ \E id \in Sessions : AppOpen(id) \/ AppClose(id) \/ AppSend(id)
  <2>1. run' = run BY <1>12 DEF AppOpen, AppClose, AppSend, vars
  <2>2. QED BY <2>1 DEF Watched
<1>13. QED
  BY <1>1, <1>2, <1>3, <1>4, <1>5, <1>6, <1>7, <1>8, <1>9, <1>10, <1>11,
     <1>12 DEF Next, Loop

\* The bridge implements TncPort: the states and attempts that watchers see
\* follow one another only as that specification says.
THEOREM ImplementsPort == Spec => StateAsWatched
<1>1. Init => Port!Init
  <2>. SUFFICES ASSUME Init PROVE Port!Init OBVIOUS
  <2>1. PICK s : run = New(s) \/ run = start_connect(New(s)) BY DEF Init
  <2>2. CASE run = New(s) BY <2>2 DEF New, Port!Init
  <2>3. CASE run = start_connect(New(s))
    <3>1. run.state = "Connecting" /\ run.attempt = 0
      BY <2>3 DEF New, start_connect
    <3>2. QED BY <3>1 DEF Port!Init
  <2>4. QED BY <2>1, <2>2, <2>3
<1>2. QED BY <1>1, NextShows, TypeCorrect, LinkSafe, PTL
  DEF Spec, StateAsWatched, Port!Spec

=============================================================================
