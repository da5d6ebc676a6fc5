-------------------------- MODULE BridgeFrameProofs --------------------------
(***************************************************************************)
(* Frames and events of the bridge, for every number of sessions and links *)
(* and every size of the queues: every frame taken from an app is accounted *)
(* for, none is refused by a writer that is alive, ExitKiss is the last    *)
(* message of a link, the generation check of on_tnc lets through only what *)
(* the connected link's tasks sent, and the end of one of them is noticed. *)
(***************************************************************************)
EXTENDS BridgeProofs

\* Late events of former links.

\* No link was given a generation that is still to come, and only the link
\* that is connected now has the bridge's.
GenOK(r) ==
  \A l \in 1 .. Len(r.links) :
    /\ r.links[l].gen <= r.generation
    /\ r.links[l].gen = r.generation =>
         r.link = "Connected" /\ l = Len(r.links)

\* An event in the channel carries the generation of the link it is from.
EventsOK(q) ==
  \A i \in 1 .. Len(q) : /\ q[i].link \in 1 .. Len(run.links)
                         /\ q[i].gen = run.links[q[i].link].gen

\* The connected link was given the bridge's generation.
CurrentOK(r) ==
  r.link = "Connected" =>
    r.links # <<>> /\ r.links[Len(r.links)].gen = r.generation

\* A link's writer has ExitKiss only as its last message, and only if the
\* bridge has let go of it; and no frame has its number.
KissAt(r, l) ==
  /\ Len(r.links[l].busy) <= 1
  /\ \A i \in 1 .. Len(r.links[l].busy) : r.links[l].busy[i] = ExitKiss =>
       r.links[l].q = <<>> /\ l # r.writer_tx
  /\ \A i \in 1 .. Len(r.links[l].q) : r.links[l].q[i] = ExitKiss =>
       i = Len(r.links[l].q) /\ l # r.writer_tx
Frames == Nat \ {ExitKiss}
KissOK(r) ==
  /\ \A l \in 1 .. Len(r.links) : KissAt(r, l)
  /\ r.pending \in Seq(Frames)
AppOK(q) == \A i \in 1 .. Len(q) : q[i].type = "Frame" => q[i].n \in Frames

\* The invariant of the proof: inductive together with TypeOK and
\* LinkConsistent.
GenInvariant ==
  /\ GenOK(run) /\ CurrentOK(run) /\ KissOK(run)
  /\ EventsOK(tncQ) /\ AppOK(appQ) /\ DeadLinkNoticed

\* What a step may do between two links: no link comes or changes its
\* generation, the bridge's never goes back, and a connected link is not let
\* go of without bumping it.
Onward(r, u) ==
  /\ r.generation \in Nat /\ u.generation \in Nat
  /\ r.generation <= u.generation
  /\ Len(u.links) = Len(r.links)
  /\ \A l \in 1 .. Len(r.links) : u.links[l].gen = r.links[l].gen
  /\ u.generation = r.generation /\ r.link = "Connected"
       => u.link = "Connected"

\* A handler of the loop also connects no link, ends none's tasks, and keeps
\* ExitKiss last.
Ahead(r, u) ==
  /\ Onward(r, u)
  /\ u.link = "Connected" =>
       r.link = "Connected" /\ u.generation = r.generation
  /\ \A l \in 1 .. Len(r.links) : /\ u.links[l].reader = r.links[l].reader
                                  /\ u.links[l].writer = r.links[l].writer
  /\ KissOK(r) => KissOK(u)

\* Handlers compose.
LEMMA AheadTrans ==
  ASSUME NEW r, NEW u, NEW w, Ahead(r, u), Ahead(u, w)
  PROVE  Ahead(r, w)
<1>1. Onward(r, w) BY DEF Ahead, Onward
<1>2. QED BY <1>1 DEF Ahead, Onward

\* Such a step keeps the generations in order.
LEMMA OnwardKeeps ==
  ASSUME NEW r, NEW u, RunOK(r), GenOK(r), Onward(r, u)
  PROVE  GenOK(u)
<1>. SUFFICES ASSUME NEW l \in 1 .. Len(u.links)
              PROVE  /\ u.links[l].gen <= u.generation
                     /\ u.links[l].gen = u.generation =>
                          u.link = "Connected" /\ l = Len(u.links)
  BY DEF GenOK
<1>1. l \in 1 .. Len(r.links) /\ r.links \in Seq(Link)
  BY DEF Onward, RunOK, Run
<1>2. r.links[l] \in Link BY <1>1, ElementOfSeq
<1>3. r.links[l].gen \in Nat BY <1>2 DEF Link
<1>4. QED BY <1>1, <1>3 DEF GenOK, Onward

\* A handler keeps all of it.
LEMMA AheadKeeps ==
  ASSUME NEW r, NEW u, RunOK(r), RunOK(u), GenOK(r), CurrentOK(r), KissOK(r),
         Ahead(r, u)
  PROVE  GenOK(u) /\ CurrentOK(u) /\ KissOK(u)
<1>1. GenOK(u) BY OnwardKeeps DEF Ahead
<1>2. KissOK(u) BY DEF Ahead
<1>3. CurrentOK(u)
  <2>. SUFFICES ASSUME u.link = "Connected"
                PROVE  u.links # <<>> /\ u.links[Len(u.links)].gen = u.generation
    BY DEF CurrentOK
  <2>1. /\ r.links # <<>> /\ r.links[Len(r.links)].gen = r.generation
        /\ u.generation = r.generation /\ Len(u.links) = Len(r.links)
    BY DEF CurrentOK, Ahead, Onward
  <2>2. r.links \in Seq(Link) /\ u.links \in Seq(Link) BY DEF RunOK, Run
  <2>3. Len(r.links) \in 1 .. Len(r.links) BY <2>1, <2>2
  <2>4. u.links # <<>> BY <2>1, <2>2, <2>3
  <2>5. QED BY <2>1, <2>3, <2>4 DEF Ahead, Onward
<1>4. QED BY <1>1, <1>2, <1>3

\* A step that touches nothing of this.
Same(r, u) ==
  /\ u.links = r.links /\ u.generation = r.generation /\ u.link = r.link
  /\ u.writer_tx = r.writer_tx /\ u.pending = r.pending

LEMMA AheadSame ==
  ASSUME NEW r, NEW u, RunOK(r), Same(r, u)
  PROVE  Ahead(r, u)
<1>1. r.generation \in Nat BY DEF RunOK, Run
<1>2. KissOK(r) => KissOK(u) BY DEF Same, KissOK, KissAt
<1>3. QED BY <1>1, <1>2 DEF Same, Ahead, Onward

\* A step to a link that is not up, which bumps the generation if it was; it
\* may drop the sender and what is pending.
LEMMA AheadDown ==
  ASSUME NEW r, NEW u, RunOK(r), u.links = r.links, u.link # "Connected",
         \/ u.generation = r.generation + 1
         \/ u.generation = r.generation /\ r.link # "Connected",
         u.writer_tx \in {r.writer_tx, 0}, u.pending = r.pending \/ u.pending = <<>>
  PROVE  Ahead(r, u)
<1>1. r.generation \in Nat /\ r.links \in Seq(Link) BY DEF RunOK, Run
<1>2. Onward(r, u) BY <1>1 DEF Onward
<1>3. ASSUME KissOK(r) PROVE KissOK(u)
  <2>0. <<>> \in Seq(Frames) OBVIOUS
  <2>1. u.pending \in Seq(Frames) BY <1>3, <2>0 DEF KissOK
  <2>2. ASSUME NEW l \in 1 .. Len(u.links) PROVE KissAt(u, l)
    <3>1. KissAt(r, l) BY <1>3, <2>2 DEF KissOK
    <3>2. l # 0 BY <1>1
    <3>3. QED BY <3>1, <3>2 DEF KissAt
  <2>3. QED BY <2>1, <2>2 DEF KissOK
<1>4. QED BY <1>2, <1>3 DEF Ahead

\* A connect bumps the generation.
LEMMA StartConnectAhead ==
  ASSUME NEW r, RunOK(r)
  PROVE  Ahead(r, start_connect(r))
<1>1. r \in Run BY DEF RunOK
<1>2. PICK u : u = start_connect(r) OBVIOUS
<1>3. /\ u.links = r.links /\ u.generation = r.generation + 1
      /\ u.link = "Connecting" /\ u.writer_tx = r.writer_tx
      /\ u.pending = r.pending
  BY <1>1, <1>2 DEF start_connect, Run
<1>4. QED BY <1>2, <1>3, AheadDown

\* What a message for the writer changes: its queue.
Sent(r, u, n) ==
  LET l == r.writer_tx IN
  /\ l \in 1 .. Len(r.links)
  /\ Len(u.links) = Len(r.links)
  /\ \A k \in 1 .. Len(r.links) \ {l} : u.links[k] = r.links[k]
  /\ u.links[l].gen = r.links[l].gen /\ u.links[l].busy = r.links[l].busy
  /\ u.links[l].reader = r.links[l].reader
  /\ u.links[l].writer = r.links[l].writer
  /\ u.links[l].q = Append(r.links[l].q, n)

LEMMA SendWriterSent ==
  ASSUME NEW r, RunOK(r), WriterLives(r), NEW n
  PROVE  LET u == send_writer(r, n) IN
         /\ Sent(r, u, n) /\ u.generation = r.generation /\ u.link = r.link
         /\ u.writer_tx = r.writer_tx /\ u.pending = r.pending
<1>. DEFINE l == r.writer_tx
            link == [r.links[l] EXCEPT !.q = Append(@, n)]
            links == [r.links EXCEPT ![l] = link]
<1>1. r \in Run /\ r.links \in Seq(Link) /\ l \in 1 .. Len(r.links)
  BY DEF RunOK, Run, WriterLives
<1>2. r.links[l] \in Link BY <1>1, ElementOfSeq
<1>3. /\ link.gen = r.links[l].gen /\ link.busy = r.links[l].busy
      /\ link.reader = r.links[l].reader /\ link.writer = r.links[l].writer
      /\ link.q = Append(r.links[l].q, n)
  BY <1>2 DEF Link
<1>. HIDE DEF link
<1>4. /\ Len(links) = Len(r.links) /\ links[l] = link
      /\ \A k \in 1 .. Len(r.links) \ {l} : links[k] = r.links[k]
  BY <1>1
<1>5. PICK u : u = send_writer(r, n) OBVIOUS
<1>6. u = [r EXCEPT !.links = links] BY <1>5 DEF send_writer, link
<1>. HIDE DEF links
<1>7. /\ u.links = links /\ u.generation = r.generation /\ u.link = r.link
      /\ u.writer_tx = r.writer_tx /\ u.pending = r.pending
  BY <1>1, <1>6 DEF Run
<1>8. Sent(r, u, n) BY <1>1, <1>3, <1>4, <1>7 DEF Sent
<1>9. QED BY <1>5, <1>7, <1>8

\* The writer that is sent to has no ExitKiss yet; it gets one only as the
\* sender goes.
LEMMA SentKiss ==
  ASSUME NEW r, RunOK(r), KissOK(r), NEW u, NEW n \in Nat, Sent(r, u, n),
         u.pending = r.pending \/ u.pending = <<>>, u.writer_tx \in {r.writer_tx, 0},
         n \in Frames \/ u.writer_tx = 0
  PROVE  KissOK(u)
<1>. DEFINE m == r.writer_tx
<1>1. m \in 1 .. Len(r.links) BY DEF Sent
<1>2. r.links \in Seq(Link) BY DEF RunOK, Run
<1>3. r.links[m] \in Link BY <1>1, <1>2, ElementOfSeq
<1>0. <<>> \in Seq(Frames) OBVIOUS
<1>4. u.pending \in Seq(Frames) BY <1>0 DEF KissOK
<1>5. ASSUME NEW l \in 1 .. Len(u.links), l # m PROVE KissAt(u, l)
  <2>1. l \in 1 .. Len(r.links) /\ u.links[l] = r.links[l] BY <1>5 DEF Sent
  <2>2. KissAt(r, l) BY <2>1 DEF KissOK
  <2>3. l # u.writer_tx BY <1>2, <1>5, <2>1
  <2>4. QED BY <2>1, <2>2, <2>3 DEF KissAt
<1>6. KissAt(u, m)
  <2>1. PICK q : q = r.links[m].q OBVIOUS
  <2>2. q \in Seq(Nat) BY <1>3, <2>1 DEF Link
  <2>3. KissAt(r, m) BY <1>1 DEF KissOK
  <2>4. /\ Len(u.links[m].busy) <= 1
        /\ \A i \in 1 .. Len(u.links[m].busy) : u.links[m].busy[i] # ExitKiss
    BY <2>3 DEF KissAt, Sent
  <2>5. \A i \in 1 .. Len(q) : q[i] # ExitKiss BY <2>1, <2>3 DEF KissAt
  <2>6. u.links[m].q = Append(q, n) BY <2>1 DEF Sent
  <2>7. /\ Len(Append(q, n)) = Len(q) + 1 /\ Len(q) \in Nat
        /\ \A i \in 1 .. Len(q) : Append(q, n)[i] = q[i]
        /\ Append(q, n)[Len(q) + 1] = n
    BY <2>2
  <2>8. u.writer_tx = 0 => m # u.writer_tx BY <1>1
  <2>9. ASSUME NEW i \in 1 .. Len(Append(q, n)), Append(q, n)[i] = ExitKiss
        PROVE  i = Len(Append(q, n)) /\ m # u.writer_tx
    <3>1. i = Len(q) + 1 BY <2>5, <2>7, <2>9
    <3>2. n = ExitKiss BY <2>7, <2>9, <3>1
    <3>3. QED BY <2>7, <2>8, <3>1, <3>2 DEF Frames
  <2>10. QED BY <2>4, <2>6, <2>9 DEF KissAt
<1>7. Len(u.links) = Len(r.links) BY DEF Sent
<1>8. QED BY <1>4, <1>5, <1>6, <1>7 DEF KissOK

LEMMA SentAhead ==
  ASSUME NEW r, RunOK(r), NEW u, NEW n \in Nat, Sent(r, u, n),
         u.pending = r.pending \/ u.pending = <<>>, u.writer_tx \in {r.writer_tx, 0},
         n \in Frames \/ u.writer_tx = 0,
         \/ u.generation = r.generation /\ u.link = r.link
         \/ u.generation = r.generation + 1 /\ u.link # "Connected"
  PROVE  Ahead(r, u)
<1>1. r.generation \in Nat BY DEF RunOK, Run
<1>2. ASSUME NEW k \in 1 .. Len(r.links)
      PROVE  /\ u.links[k].gen = r.links[k].gen
             /\ u.links[k].reader = r.links[k].reader
             /\ u.links[k].writer = r.links[k].writer
  BY DEF Sent
<1>3. Len(u.links) = Len(r.links) BY DEF Sent
<1>4. KissOK(r) => KissOK(u) BY SentKiss
<1>5. Onward(r, u) BY <1>1, <1>2, <1>3 DEF Onward
<1>6. QED BY <1>1, <1>2, <1>4, <1>5 DEF Ahead

\* Closing bumps it, and leaves the links their generations.
LEMMA DisconnectAhead ==
  ASSUME NEW r, RunOK(r)
  PROVE  Ahead(r, disconnect(r))
<1>1. ASSUME NEW t, RunOK(t)
      PROVE  LET u == go_idle(drop_link(t)) IN
             /\ u.links = t.links /\ u.generation = t.generation + 1
             /\ u.link = "Idle" /\ u.writer_tx = 0 /\ u.pending = <<>>
  <2>1. t \in Run BY <1>1 DEF RunOK
  <2>2. QED BY <2>1 DEF go_idle, clear_pending, drop_link, Run
<1>2. PICK t : t = say_exit_kiss(r) OBVIOUS
<1>3. PICK u : u = go_idle(drop_link(t)) OBVIOUS
<1>4. RunOK(t) BY <1>2, SayExitKissOK
<1>5. /\ u.links = t.links /\ u.generation = t.generation + 1
      /\ u.link = "Idle" /\ u.writer_tx = 0 /\ u.pending = <<>>
  BY <1>1, <1>3, <1>4
<1>6. ASSUME t = r PROVE Ahead(r, u)
  <2>1. /\ u.links = r.links /\ u.generation = r.generation + 1
        /\ u.link # "Connected" /\ u.writer_tx \in {r.writer_tx, 0}
    BY <1>5, <1>6
  <2>2. QED BY <1>5, <2>1, AheadDown
<1>7. ASSUME WriterLives(r), t = send_writer(r, ExitKiss) PROVE Ahead(r, u)
  <2>1. Sent(r, t, ExitKiss) /\ t.generation = r.generation
    BY <1>7, SendWriterSent
  <2>2. Sent(r, u, ExitKiss) BY <1>5, <2>1 DEF Sent
  <2>3. ExitKiss \in Nat BY DEF ExitKiss
  <2>4. /\ u.generation = r.generation + 1 /\ u.link # "Connected"
        /\ u.writer_tx \in {r.writer_tx, 0}
    BY <1>5, <2>1
  <2>5. QED BY <1>5, <2>2, <2>3, <2>4, SentAhead
<1>8. t = r \/ (WriterLives(r) /\ t = send_writer(r, ExitKiss))
  BY <1>2 DEF say_exit_kiss
<1>9. disconnect(r) = u BY <1>2, <1>3 DEF disconnect
<1>10. QED BY <1>6, <1>7, <1>8, <1>9

\* A frame that is kept for a link to come.
LEMMA QueuePendingAhead ==
  ASSUME NEW t, RunOK(t), NEW n \in Frames
  PROVE  Ahead(t, queue_pending(t, n))
<1>1. t \in Run /\ t.pending \in Seq(Nat) /\ t.generation \in Nat
  BY DEF RunOK, Run
<1>2. PICK u : u = queue_pending(t, n) OBVIOUS
<1>3. /\ u.links = t.links /\ u.generation = t.generation
      /\ u.link = t.link /\ u.writer_tx = t.writer_tx
  BY <1>1, <1>2 DEF queue_pending, Run
<1>4. ASSUME t.pending \in Seq(Frames) PROVE u.pending \in Seq(Frames)
  <2>1. CASE Len(t.pending) >= UPLINK_QUEUE_FRAMES
    <3>1. t.pending # <<>> BY <1>1, <2>1, BridgeAssumption
    <3>2. Tail(t.pending) \in Seq(Frames) BY <1>4, <3>1, HeadTailProperties
    <3>3. u.pending = Append(Tail(t.pending), n)
      BY <1>1, <1>2, <2>1 DEF queue_pending, Run
    <3>4. QED BY <3>2, <3>3, AppendProperties
  <2>2. CASE ~(Len(t.pending) >= UPLINK_QUEUE_FRAMES)
    <3>1. u.pending = Append(t.pending, n)
      BY <1>1, <1>2, <2>2 DEF queue_pending, Run
    <3>2. QED BY <1>4, <3>1, AppendProperties
  <2>3. QED BY <2>1, <2>2
<1>5. KissOK(t) => KissOK(u) BY <1>3, <1>4 DEF KissOK, KissAt
<1>6. QED BY <1>1, <1>2, <1>3, <1>5 DEF Ahead, Onward

\* A frame from an app: sent, kept, dropped, or the cause of a connect.
LEMMA UplinkAhead ==
  ASSUME NEW r, RunOK(r), NEW n \in Frames
  PROVE  Ahead(r, uplink(r, n))
<1>0. r \in Run BY DEF RunOK
<1>n. n \in Nat BY DEF Frames
<1>1. Ahead(r, drop(r)) /\ Ahead(r, queue_pending(r, n))
  <2>1. Same(r, drop(r)) BY <1>0 DEF Same, drop, Run
  <2>2. QED BY <2>1, AheadSame, QueuePendingAhead
<1>2. CASE r.link = "Connected" /\ WriterLives(r) /\ WriterHasRoom(r)
  <2>1. PICK s : s = send_writer(r, n) OBVIOUS
  <2>2a. RunOK(s) BY <1>n, <1>2, <2>1, SendWriterOK
  <2>2b. /\ Sent(r, s, n) /\ s.generation = r.generation /\ s.link = r.link
         /\ s.writer_tx = r.writer_tx /\ s.pending = r.pending
    BY <1>2, <2>1, SendWriterSent
  <2>2. RunOK(s) /\ Ahead(r, s) BY <1>n, <2>2a, <2>2b, SentAhead
  <2>3. PICK u : u = [s EXCEPT !.frames_up = @ + 1] OBVIOUS
  <2>4. Same(s, u) BY <2>2, <2>3 DEF Same, RunOK, Run
  <2>5. Ahead(s, u) BY <2>2, <2>4, AheadSame
  <2>6. uplink(r, n) = u BY <1>2, <2>1, <2>3 DEF uplink
  <2>7. QED BY <2>2, <2>5, <2>6, AheadTrans
<1>3. CASE r.link = "Connected" /\ WriterLives(r) /\ ~WriterHasRoom(r)
  <2>1. PICK u : u = [drop(r) EXCEPT !.overrun = @ + 1] OBVIOUS
  <2>2. Same(r, u) BY <1>0, <2>1 DEF Same, drop, Run
  <2>3. uplink(r, n) = u BY <1>3, <2>1 DEF uplink
  <2>4. QED BY <2>2, <2>3, AheadSame
<1>4. CASE r.link = "Connected" /\ ~WriterLives(r)
  BY <1>1, <1>4 DEF uplink
<1>5. CASE r.link = "Idle" /\ r.held = "down" BY <1>1, <1>5 DEF uplink
<1>6. CASE r.link = "Idle" /\ r.held # "down"
  <2>1. PICK u : u = queue_pending(r, n) OBVIOUS
  <2>2. RunOK(u) /\ Ahead(r, u) BY <1>n, <1>1, <2>1, QueuePendingOK
  <2>3. uplink(r, n) = start_connect(u) BY <1>6, <2>1 DEF uplink
  <2>4. QED BY <2>2, <2>3, StartConnectAhead, AheadTrans
<1>7. CASE r.link \notin {"Connected", "Idle"} BY <1>1, <1>7 DEF uplink
<1>8. QED BY <1>2, <1>3, <1>4, <1>5, <1>6, <1>7

\* Changing what decides whether the link is wanted, and then connecting or
\* letting go.
LEMMA ChangedAhead ==
  ASSUME NEW r, NEW u, RunOK(r), RunOK(u), Same(r, u)
  PROVE  /\ Ahead(r, u) /\ Ahead(r, connect_if_idle(u))
         /\ Ahead(r, close(u)) /\ Ahead(r, release(u))
<1>1. Ahead(r, u) BY AheadSame
<1>0. Ahead(u, u)
  <2>1. Same(u, u) BY DEF Same
  <2>2. QED BY <2>1, AheadSame
<1>2. Ahead(u, connect_if_idle(u))
  BY <1>0, StartConnectAhead DEF connect_if_idle
<1>3. Ahead(u, close(u)) BY DisconnectAhead DEF close
<1>4. Ahead(u, release(u))
  <2>1. CASE u.settings.idle_timeout = 0 BY <1>3, <2>1 DEF release
  <2>2. CASE u.settings.idle_timeout # 0
    <3>1. PICK w : w = [u EXCEPT !.idle_timer = TRUE] OBVIOUS
    <3>2. Same(u, w) BY <3>1 DEF Same, RunOK, Run
    <3>3. QED BY <2>2, <3>1, <3>2, AheadSame DEF release
  <2>3. QED BY <2>1, <2>2
<1>5. QED BY <1>1, <1>2, <1>3, <1>4, AheadTrans

\* on_app, whatever the event.
LEMMA OnAppAhead ==
  ASSUME NEW r, RunOK(r), NEW ev \in AppEvents,
         ev.type = "Frame" => ev.n \in Frames
  PROVE  Ahead(r, on_app(r, ev))
<1>0. r \in Run /\ r.taken + 1 \in Nat BY DEF RunOK, Run
<1>1. CASE ev.type = "SessionOpened"
  <2>1. PICK u : u = [r EXCEPT !.sessions = @ \cup {ev.id}, !.idle_timer = FALSE]
    OBVIOUS
  <2>2. ev.id \in Sessions BY DEF AppEvents
  <2>3. u \in Run BY <1>0, <2>1, <2>2 DEF Run
  <2>4. RunOK(u) /\ Same(r, u)
    BY <1>0, <2>1, <2>3 DEF RunOK, Run, Same
  <2>5. on_app(r, ev) = IF wants_link(u) THEN connect_if_idle(u) ELSE u
    BY <1>1, <2>1 DEF on_app, on_app_opened
  <2>6. QED BY <2>4, <2>5, ChangedAhead
<1>2. CASE ev.type = "SessionClosed"
  <2>1. PICK u : u = [r EXCEPT !.sessions = @ \ {ev.id}] OBVIOUS
  <2>2. u \in Run BY <1>0, <2>1 DEF Run
  <2>3. RunOK(u) /\ Same(r, u)
    BY <1>0, <2>1, <2>2 DEF RunOK, Run, Same
  <2>4. on_app(r, ev) \in {release(u), u}
    BY <1>2, <2>1 DEF on_app, on_app_closed
  <2>5. QED BY <2>3, <2>4, ChangedAhead
<1>3. CASE ev.type = "Frame"
  <2>1. PICK u : u = [r EXCEPT !.taken = @ + 1] OBVIOUS
  <2>2. u \in Run BY <1>0, <2>1 DEF Run
  <2>3. RunOK(u) /\ Same(r, u)
    BY <1>0, <2>1, <2>2 DEF RunOK, Run, Same
  <2>4. Ahead(r, u) BY <2>3, AheadSame
  <2>6. Ahead(u, uplink(u, ev.n)) BY <1>3, <2>3, UplinkAhead
  <2>7. Ahead(u, drop(u))
    <3>1. Same(u, drop(u)) BY <2>2 DEF Same, drop, Run
    <3>2. QED BY <2>3, <3>1, AheadSame
  <2>8. on_app(r, ev) \in {uplink(u, ev.n), drop(u)}
    BY <1>3, <2>1 DEF on_app, on_app_frame
  <2>9. QED BY <2>4, <2>6, <2>7, <2>8, AheadTrans
<1>4. QED BY <1>1, <1>2, <1>3 DEF AppEvents

\* The supervisor's commands.
LEMMA CmdAhead ==
  ASSUME NEW r, RunOK(r), NEW new \in TncSettings,
         NEW hold \in {"none", "up", "down"}
  PROVE  /\ Ahead(r, apply_settings(r, new)) /\ Ahead(r, on_connector(r))
         /\ Ahead(r, on_hold(r, hold))
<1>0. r \in Run BY DEF RunOK
<1>1. Ahead(r, apply_settings(r, new))
  <2>1. PICK u : u = [r EXCEPT !.settings = new] OBVIOUS
  <2>2. PICK w : w = [u EXCEPT !.idle_timer = FALSE] OBVIOUS
  <2>3. u \in Run /\ w \in Run
    <3>1. u \in Run BY <1>0, <2>1 DEF Run
    <3>2. w \in Run BY <2>2, <3>1 DEF Run
    <3>3. QED BY <3>1, <3>2
  <2>4. RunOK(u) /\ Same(r, u)
    BY <1>0, <2>1, <2>3 DEF RunOK, Run, Same
  <2>5. RunOK(w) /\ Same(r, w)
    BY <2>2, <2>3, <2>4 DEF RunOK, Run, Same
  <2>6. apply_settings(r, new) \in {connect_if_idle(w), release(u), u}
    <3>1. CASE r.settings.connect = "OnDemand" /\ new.connect = "Always"
      BY <2>1, <2>2, <3>1 DEF apply_settings
    <3>2. CASE /\ r.settings.connect = "Always" /\ new.connect = "OnDemand"
               /\ r.sessions = {}
      BY <2>1, <3>2 DEF apply_settings
    <3>3. CASE /\ ~(r.settings.connect = "OnDemand" /\ new.connect = "Always")
               /\ ~(/\ r.settings.connect = "Always" /\ new.connect = "OnDemand"
                    /\ r.sessions = {})
      BY <2>1, <3>3 DEF apply_settings
    <3>4. QED BY <3>1, <3>2, <3>3
  <2>7. QED BY <2>4, <2>5, <2>6, ChangedAhead
<1>2. Ahead(r, on_connector(r))
  <2>1. PICK c : c = close(r) OBVIOUS
  <2>2. RunOK(c) /\ Ahead(r, c) BY <2>1, DisconnectOK, DisconnectAhead DEF close
  <2>3. PICK u : u = [c EXCEPT !.attempt = 0] OBVIOUS
  <2>4. RunOK(u) BY <2>2, <2>3, AttemptOK
  <2>5. Same(c, u) BY <2>2, <2>3 DEF Same, RunOK, Run
  <2>6. Ahead(c, u) BY <2>2, <2>5, AheadSame
  <2>7. Ahead(u, start_connect(u)) BY <2>4, StartConnectAhead
  <2>8. on_connector(r) = IF wants_link(u) THEN start_connect(u) ELSE u
    BY <2>1, <2>3 DEF on_connector
  <2>9. QED BY <2>2, <2>6, <2>7, <2>8, AheadTrans
<1>3. Ahead(r, on_hold(r, hold))
  <2>1. PICK u : u = [r EXCEPT !.held = hold, !.idle_timer = FALSE] OBVIOUS
  <2>2. u \in Run BY <1>0, <2>1 DEF Run
  <2>3. RunOK(u) /\ Same(r, u)
    BY <1>0, <2>1, <2>2 DEF RunOK, Run, Same
  <2>4. on_hold(r, hold) \in {connect_if_idle(u), close(u), release(u)}
    <3>1. CASE wants_link(u) BY <2>1, <3>1 DEF on_hold
    <3>2. CASE ~wants_link(u) /\ hold = "none" BY <2>1, <3>2 DEF on_hold
    <3>3. CASE ~wants_link(u) /\ hold # "none" BY <2>1, <3>3 DEF on_hold
    <3>4. QED BY <3>1, <3>2, <3>3
  <2>5. QED BY <2>3, <2>4, ChangedAhead
<1>4. QED BY <1>1, <1>2, <1>3

\* Events of the TNC.
LEMMA OnTncAhead ==
  ASSUME NEW r, RunOK(r), NEW ev, NEW slow
  PROVE  /\ Ahead(r, on_tnc_frame(r, ev, slow))
         /\ Ahead(r, on_tnc_closed(r, ev))
<1>0. r \in Run /\ r.generation \in Nat BY DEF RunOK, Run
<1>1. PICK u : u = on_tnc_frame(r, ev, slow) OBVIOUS
<1>2. Same(r, u) BY <1>0, <1>1 DEF Same, on_tnc_frame, Run
<1>3. PICK w : w = on_tnc_closed(r, ev) OBVIOUS
<1>4. \/ w = r
      \/ /\ w.links = r.links /\ w.generation = r.generation + 1
         /\ w.link # "Connected" /\ w.writer_tx = 0 /\ w.pending = r.pending
  BY <1>0, <1>3 DEF on_tnc_closed, drop_link, start_backoff, Run
<1>5. Ahead(r, w)
  <2>1. Same(r, r) BY DEF Same
  <2>2. CASE w = r BY <2>1, <2>2, AheadSame
  <2>3. CASE w # r BY <1>4, <2>3, AheadDown
  <2>4. QED BY <2>2, <2>3
<1>6. QED BY <1>1, <1>2, <1>3, <1>5, AheadSame

\* The end of a connect that failed, of a backoff, and of the idle timer.
LEMMA RetryAhead ==
  ASSUME NEW r, RunOK(r), r.link # "Connected",
         NEW error \in {"Unpaired", "WaitingForDevice", "Other"}
  PROVE  Ahead(r, on_link_err(r, error)) /\ Ahead(r, on_backoff_over(r))
<1>0. r \in Run /\ r.generation \in Nat BY DEF RunOK, Run
<1>1. PICK i : i = [r EXCEPT !.link = "Idle"] OBVIOUS
<1>2. /\ i \in Run /\ i.links = r.links /\ i.generation = r.generation
      /\ i.writer_tx = r.writer_tx /\ i.pending = r.pending
  BY <1>0, <1>1 DEF Run, LinkNames
<1>3. ASSUME NEW u, \/ u = go_idle(i)
                    \/ u = start_backoff([i EXCEPT !.waiting = "none"])
                    \/ u = start_wait(i, error)
                    \/ u = start_connect(i)
      PROVE  Ahead(r, u)
  <2>1. /\ u.links = r.links /\ u.link # "Connected"
        /\ u.generation \in {r.generation, r.generation + 1}
        /\ u.writer_tx = r.writer_tx
        /\ u.pending = r.pending \/ u.pending = <<>>
    <3>1. CASE u = go_idle(i) BY <1>1, <1>2, <3>1 DEF go_idle, clear_pending, Run
    <3>2. CASE u = start_backoff([i EXCEPT !.waiting = "none"])
      <4>1. PICK v : v = [i EXCEPT !.waiting = "none"] OBVIOUS
      <4>2. /\ v \in Run /\ v.links = r.links /\ v.generation = r.generation
            /\ v.writer_tx = r.writer_tx /\ v.pending = r.pending
        BY <1>2, <4>1 DEF Run, Waits
      <4>3. QED BY <3>2, <4>1, <4>2 DEF start_backoff, Run
    <3>3. CASE u = start_wait(i, error) BY <1>2, <3>3 DEF start_wait, Run
    <3>4. CASE u = start_connect(i) BY <1>2, <3>4 DEF start_connect, Run
    <3>5. QED BY <1>3, <3>1, <3>2, <3>3, <3>4
  <2>2. QED BY <2>1, AheadDown
<1>4. on_link_err(r, error) \in {go_idle(i), start_wait(i, error),
                                 start_backoff([i EXCEPT !.waiting = "none"])}
  BY <1>1 DEF on_link_err
<1>5. on_backoff_over(r) \in {go_idle(i), start_connect(i)}
  BY <1>1 DEF on_backoff_over
<1>6. QED BY <1>3, <1>4, <1>5

\* The idle timer closes, or does nothing.
LEMMA OnIdleElapsedAhead ==
  ASSUME NEW r, RunOK(r)
  PROVE  Ahead(r, on_idle_elapsed(r))
<1>1. PICK u : u = [r EXCEPT !.idle_timer = FALSE] OBVIOUS
<1>2. u \in Run BY <1>1 DEF RunOK, Run
<1>3. RunOK(u) /\ Same(r, u)
  BY <1>1, <1>2 DEF RunOK, Run, Same
<1>4. on_idle_elapsed(r) \in {u, close(u)} BY <1>1 DEF on_idle_elapsed
<1>5. QED BY <1>3, <1>4, ChangedAhead

\* What is replayed are frames.
LEMMA ReplayedFrames ==
  ASSUME NEW r, RunOK(r), r.pending \in Seq(Frames)
  PROVE  replayed(r) \in Seq(Frames)
<1>1. /\ r.pending \in Seq(Nat) /\ r.stale \in Nat /\ r.stale <= Len(r.pending)
  BY DEF RunOK, Run
<1>2. /\ Len(fresh(r)) = Len(r.pending) - r.stale
      /\ fits(r) \in Nat /\ fits(r) <= Len(fresh(r))
  BY <1>1, DrainOK
<1>3. fresh(r) \in Seq(Frames)
  <2>. DEFINE m == r.stale + 1
              n == Len(r.pending)
  <2>1. m \in Int /\ n \in Int BY <1>1, LenProperties
  <2>2. \A i \in m .. n : r.pending[i] \in Frames BY <1>1, ElementOfSeq
  <2>. HIDE DEF m, n
  <2>3. SubSeq(r.pending, m, n) \in Seq(Frames) BY <2>1, <2>2, SubSeqProperties
  <2>4. QED BY <2>3 DEF fresh, m, n
<1>4. \A i \in 1 .. fits(r) : fresh(r)[i] \in Frames
  BY <1>2, <1>3, ElementOfSeq
<1>5. QED BY <1>2, <1>4, SubSeqProperties DEF replayed

\* The new link has the bridge's generation, and no other link had it: the
\* connect that led here bumped it.  Its writer has frames to replay.
LEMMA LinkUpGen ==
  ASSUME NEW r, RunOK(r), GenOK(r), KissOK(r), r.link = "Connecting",
         NEW exit_kiss \in BOOLEAN
  PROVE  LET u == link_up(r, exit_kiss) IN
         /\ GenOK(u) /\ CurrentOK(u) /\ KissOK(u)
         /\ Len(u.links) = Len(r.links) + 1
         /\ \A l \in 1 .. Len(r.links) : u.links[l] = r.links[l]
         /\ u.links[Len(u.links)].reader /\ u.links[Len(u.links)].writer
<1>1. PICK u : u = link_up(r, exit_kiss) OBVIOUS
<1>2. PICK link : link = [gen |-> r.generation, reader |-> TRUE,
                          writer |-> TRUE, q |-> replayed(r), busy |-> <<>>,
                          last |-> 0]
  OBVIOUS
<1>3. r \in Run /\ r.links \in Seq(Link) /\ r.generation \in Nat
  BY DEF RunOK, Run
<1>4. /\ u.links = Append(r.links, link) /\ u.generation = r.generation
      /\ u.link = "Connected" /\ u.pending = <<>>
      /\ u.writer_tx = Len(r.links) + 1
  BY <1>1, <1>2, <1>3 DEF link_up, Run
<1>5. /\ link.gen = r.generation /\ link.reader /\ link.writer
      /\ link.q = replayed(r) /\ link.busy = <<>>
  BY <1>2
<1>6. /\ Len(u.links) = Len(r.links) + 1 /\ Len(r.links) \in Nat
      /\ \A l \in 1 .. Len(r.links) : u.links[l] = r.links[l]
      /\ u.links[Len(r.links) + 1] = link
  BY <1>3, <1>4
<1>7. GenOK(u)
  <2>. SUFFICES ASSUME NEW l \in 1 .. Len(u.links)
                PROVE  /\ u.links[l].gen <= u.generation
                       /\ u.links[l].gen = u.generation =>
                            u.link = "Connected" /\ l = Len(u.links)
    BY DEF GenOK
  <2>1. CASE l \in 1 .. Len(r.links) BY <1>4, <1>6, <2>1 DEF GenOK
  <2>2. CASE l = Len(r.links) + 1 BY <1>3, <1>4, <1>5, <1>6, <2>2
  <2>3. QED BY <1>6, <2>1, <2>2
<1>8. CurrentOK(u)
  <2>1. u.links # <<>> BY <1>3, <1>4, <1>6
  <2>2. QED BY <1>4, <1>5, <1>6, <2>1 DEF CurrentOK
<1>9. KissOK(u)
  <2>1. ASSUME NEW l \in 1 .. Len(r.links) PROVE KissAt(u, l)
    <3>1. KissAt(r, l) /\ u.links[l] = r.links[l] BY <1>6, <2>1 DEF KissOK
    <3>2. l # u.writer_tx BY <1>4, <1>6, <2>1
    <3>3. QED BY <3>1, <3>2 DEF KissAt
  <2>2. KissAt(u, Len(r.links) + 1)
    <3>1. replayed(r) \in Seq(Frames) BY ReplayedFrames DEF KissOK
    <3>2. \A i \in 1 .. Len(replayed(r)) : replayed(r)[i] # ExitKiss
      BY <3>1, ElementOfSeq DEF Frames
    <3>3. Len(<<>>) = 0 OBVIOUS
    <3>4. QED BY <1>5, <1>6, <3>2, <3>3 DEF KissAt
  <2>3. u.pending \in Seq(Frames) BY <1>4
  <2>4. \A l \in 1 .. Len(u.links) : KissAt(u, l) BY <1>6, <2>1, <2>2
  <2>5. QED BY <2>3, <2>4 DEF KissOK
<1>10. QED BY <1>1, <1>5, <1>6, <1>7, <1>8, <1>9

\* A link that comes up, and may be closed again at once.
LEMMA OnLinkOkGen ==
  ASSUME NEW r, RunOK(r), GenOK(r), KissOK(r), r.link = "Connecting",
         NEW exit_kiss \in BOOLEAN
  PROVE  LET u == on_link_ok(r, exit_kiss) IN
         /\ GenOK(u) /\ CurrentOK(u) /\ KissOK(u)
         /\ Len(u.links) = Len(r.links) + 1
         /\ \A l \in 1 .. Len(r.links) : u.links[l].gen = r.links[l].gen
         /\ u.link = "Connected" =>
              u.links[Len(u.links)].reader /\ u.links[Len(u.links)].writer
<1>1. PICK u : u = link_up(r, exit_kiss) OBVIOUS
<1>2. /\ RunOK(u) /\ GenOK(u) /\ CurrentOK(u) /\ KissOK(u)
      /\ Len(u.links) = Len(r.links) + 1
      /\ \A l \in 1 .. Len(r.links) : u.links[l] = r.links[l]
      /\ u.links[Len(u.links)].reader /\ u.links[Len(u.links)].writer
  BY <1>1, LinkUpOK, LinkUpGen
<1>3. PICK d : d = close(u) OBVIOUS
<1>4. RunOK(d) /\ Ahead(u, d) BY <1>2, <1>3, DisconnectOK, DisconnectAhead DEF close
<1>5. GenOK(d) /\ CurrentOK(d) /\ KissOK(d) BY <1>2, <1>4, AheadKeeps
<1>6. Len(r.links) \in Nat BY DEF RunOK, Run
<1>7. /\ Len(d.links) = Len(r.links) + 1
      /\ \A l \in 1 .. Len(r.links) : d.links[l].gen = r.links[l].gen
  <2>1. /\ Len(d.links) = Len(u.links)
        /\ \A l \in 1 .. Len(u.links) : d.links[l].gen = u.links[l].gen
    BY <1>4 DEF Ahead, Onward
  <2>2. ASSUME NEW l \in 1 .. Len(r.links) PROVE d.links[l].gen = r.links[l].gen
    <3>1. l \in 1 .. Len(u.links) BY <1>2, <1>6
    <3>2. QED BY <1>2, <2>1, <3>1
  <2>3. QED BY <1>2, <2>1, <2>2
<1>8. d.links[Len(d.links)].reader /\ d.links[Len(d.links)].writer
  <2>1. Len(d.links) = Len(u.links) /\ Len(u.links) \in 1 .. Len(u.links)
    BY <1>2, <1>6, <1>7
  <2>2. QED BY <1>2, <1>4, <2>1 DEF Ahead
<1>9. on_link_ok(r, exit_kiss) \in {u, d} BY <1>1, <1>3 DEF on_link_ok
<1>10. QED BY <1>2, <1>5, <1>7, <1>8, <1>9

\* Events keep their links when no link changes its generation.
LEMMA EventsKeep ==
  ASSUME EventsOK(tncQ), tncQ' \in Seq(TncEvents), RunOK(run),
         Len(run.links) <= Len(run'.links), Len(run'.links) \in Nat,
         \A l \in 1 .. Len(run.links) : run'.links[l].gen = run.links[l].gen,
         \A i \in 1 .. Len(tncQ') :
           \/ \E j \in 1 .. Len(tncQ) : tncQ'[i] = tncQ[j]
           \/ \E type, l : /\ l \in 1 .. Len(run.links)
                           /\ tncQ'[i] = TncEvent(type, l)
  PROVE  EventsOK(tncQ)'
<1>. SUFFICES ASSUME NEW i \in 1 .. Len(tncQ')
              PROVE  /\ tncQ'[i].link \in 1 .. Len(run'.links)
                     /\ tncQ'[i].gen = run'.links[tncQ'[i].link].gen
  BY DEF EventsOK
<1>0. Len(run.links) \in Nat BY DEF RunOK, Run
<1>1. CASE \E j \in 1 .. Len(tncQ) : tncQ'[i] = tncQ[j]
  <2>. PICK j \in 1 .. Len(tncQ) : tncQ'[i] = tncQ[j] BY <1>1
  <2>1. PICK l : l = tncQ[j].link OBVIOUS
  <2>2. l \in 1 .. Len(run.links) /\ tncQ[j].gen = run.links[l].gen
    BY <2>1 DEF EventsOK
  <2>3. l \in 1 .. Len(run'.links) BY <1>0, <2>2
  <2>4. QED BY <2>1, <2>2, <2>3
<1>2. CASE \E type, l : l \in 1 .. Len(run.links) /\ tncQ'[i] = TncEvent(type, l)
  <2>. PICK type, l : l \in 1 .. Len(run.links) /\ tncQ'[i] = TncEvent(type, l)
    BY <1>2
  <2>1. tncQ'[i].link = l /\ tncQ'[i].gen = run.links[l].gen BY DEF TncEvent
  <2>2. QED BY <1>0, <2>1
<1>3. QED BY <1>1, <1>2

\* What is left of the channel after an event was taken was there before.
LEMMA TailEvents ==
  ASSUME NEW q \in Seq(TncEvents), q # <<>>
  PROVE  \A i \in 1 .. Len(Tail(q)) : \E j \in 1 .. Len(q) : Tail(q)[i] = q[j]
<1>. SUFFICES ASSUME NEW i \in 1 .. Len(Tail(q))
              PROVE  \E j \in 1 .. Len(q) : Tail(q)[i] = q[j]
  OBVIOUS
<1>1. Len(q) \in Nat /\ Len(Tail(q)) = Len(q) - 1 /\ Tail(q)[i] = q[i + 1]
  BY HeadTailProperties, LenProperties
<1>2. i + 1 \in 1 .. Len(q) BY <1>1
<1>3. QED BY <1>1, <1>2

\* The generations are in order in a bridge that starts.
LEMMA InitGen == Init => GenInvariant
<1>. SUFFICES ASSUME Init PROVE GenInvariant OBVIOUS
<1>1. run.links = <<>> /\ run.pending = <<>> /\ run.link # "Connected"
  BY DEF Init, New, start_connect
<1>2. tncQ = <<>> /\ appQ = <<>> BY DEF Init
<1>3. <<>> \in Seq(Frames) OBVIOUS
<1>4. QED BY <1>1, <1>2, <1>3
  DEF GenInvariant, GenOK, CurrentOK, KissOK, EventsOK, AppOK, DeadLinkNoticed

\* Steps of the loop other than a connect that succeeds.
LEMMA LoopAhead ==
  ASSUME TypeOK, AppOK(appQ), Loop, ~ConnectOk
  PROVE  Ahead(run, run')
<1>. RunOK(run) BY DEF TypeOK
<1>1. CASE TakeApp
  <2>1. Head(appQ) \in AppEvents
    BY <1>1, TakenOK, BridgeAssumption DEF TakeApp, TypeOK
  <2>2. Head(appQ).type = "Frame" => Head(appQ).n \in Frames
    <3>1. appQ \in Seq(AppEvents) /\ appQ # <<>> BY <1>1 DEF TakeApp, TypeOK
    <3>2. 1 \in 1 .. Len(appQ) /\ Head(appQ) = appQ[1] BY <3>1
    <3>3. QED BY <3>2 DEF AppOK
  <2>3. QED BY <1>1, <2>1, <2>2, OnAppAhead DEF TakeApp
<1>2. CASE TakeTncFrame \/ TakeTncClosed
  BY <1>2, OnTncAhead DEF TakeTncFrame, TakeTncClosed
<1>3. CASE ConnectErr \/ BackoffOver
  BY <1>3, RetryAhead DEF ConnectErr, BackoffOver
<1>4. CASE IdleElapsed BY <1>4, OnIdleElapsedAhead DEF IdleElapsed
<1>5. CASE Shutdown
  <2>1. PICK d : d = disconnect(run) OBVIOUS
  <2>2. RunOK(d) /\ Ahead(run, d) BY <2>1, DisconnectOK, DisconnectAhead
  <2>3. run' = [d EXCEPT !.phase = "stopping", !.ending = run.writer_tx]
    BY <1>5, <2>1 DEF Shutdown
  <2>4. Same(d, run') BY <2>2, <2>3 DEF Same, RunOK, Run
  <2>5. QED BY <2>2, <2>4, AheadSame, AheadTrans
<1>6. CASE Stopped
  <2>1. Same(run, run') BY <1>6 DEF Same, Stopped, RunOK, Run
  <2>2. QED BY <2>1, AheadSame
<1>7. CASE CmdSettings BY <1>7, CmdAhead, BridgeAssumption DEF CmdSettings
<1>8. CASE CmdConnector
  <2>1. run.settings \in TncSettings BY DEF RunOK, Run
  <2>2. QED BY <1>8, <2>1, CmdAhead DEF CmdConnector
<1>9. CASE CmdHold
  <2>1. run.settings \in TncSettings BY DEF RunOK, Run
  <2>2. QED BY <1>9, <2>1, CmdAhead, BridgeAssumption DEF CmdHold
<1>10. QED
  BY <1>1, <1>2, <1>3, <1>4, <1>5, <1>6, <1>7, <1>8, <1>9 DEF Loop

\* What the steps of a link's tasks do to the channel: nothing, or add an
\* event of that link.
LEMMA TasksEvents ==
  ASSUME TypeOK, NEW l \in DOMAIN run.links, ReaderStep(l) \/ WriterStep(l)
  PROVE  \A i \in 1 .. Len(tncQ') :
           \/ \E j \in 1 .. Len(tncQ) : tncQ'[i] = tncQ[j]
           \/ \E type, k : /\ k \in 1 .. Len(run.links)
                           /\ tncQ'[i] = TncEvent(type, k)
<1>1. l \in 1 .. Len(run.links)
  <2>1. run.links \in Seq(Link) BY DEF TypeOK, RunOK, Run
  <2>2. QED BY <2>1, LenProperties
<1>2. tncQ \in Seq(TncEvents) BY DEF TypeOK
<1>3. \/ tncQ' = tncQ
      \/ \E type : tncQ' = Append(tncQ, TncEvent(type, l))
  BY DEF ReaderStep, ReaderFrame, ReaderClosed, ReaderStop, WriterStep,
         WriterTake, WriterWrite, WriterFail, WriterDone, WriterAbort, send_tnc
<1>4. CASE tncQ' = tncQ BY <1>4
<1>5. ASSUME NEW type, tncQ' = Append(tncQ, TncEvent(type, l)),
             NEW i \in 1 .. Len(tncQ')
      PROVE  \/ \E j \in 1 .. Len(tncQ) : tncQ'[i] = tncQ[j]
             \/ \E t, k : /\ k \in 1 .. Len(run.links)
                          /\ tncQ'[i] = TncEvent(t, k)
  <2>1. /\ Len(tncQ') = Len(tncQ) + 1 /\ Len(tncQ) \in Nat
        /\ \A j \in 1 .. Len(tncQ) : tncQ'[j] = tncQ[j]
        /\ tncQ'[Len(tncQ) + 1] = TncEvent(type, l)
    BY <1>2, <1>5
  <2>2. CASE i \in 1 .. Len(tncQ) BY <2>1, <2>2
  <2>3. CASE i = Len(tncQ) + 1 BY <1>1, <2>1, <2>3
  <2>4. QED BY <2>1, <2>2, <2>3
<1>6. QED BY <1>3, <1>4, <1>5

\* What the steps of a link's tasks make of its record.
LEMMA LinkStepTo ==
  ASSUME RunOK(run), NEW l \in DOMAIN run.links, ReaderStep(l) \/ WriterStep(l)
  PROVE  LET k == run.links[l]
             n == run'.links[l] IN
         \/ ReaderFrame(l) /\ n = k
         \/ /\ ReaderClosed(l) \/ ReaderStop(l)
            /\ n.q = k.q /\ n.busy = k.busy
         \/ /\ WriterTake(l) /\ n.reader = k.reader /\ n.writer = k.writer
            /\ n.q = Tail(k.q) /\ n.busy = <<Head(k.q)>>
         \/ /\ WriterWrite(l) /\ n.reader = k.reader /\ n.writer = k.writer
            /\ n.q = k.q /\ n.busy = <<>>
         \/ /\ WriterFail(l) \/ WriterDone(l) \/ WriterAbort(l)
            /\ n.q = <<>> /\ n.busy = <<>>
<1>. PICK k : k = run.links[l] OBVIOUS
<1>0. run \in Run BY DEF RunOK
<1>1. l \in 1 .. Len(run.links) /\ run.links \in Seq(Link) /\ run \in Run
  <2>1. run.links \in Seq(Link) BY <1>0 DEF Run
  <2>2. PICK s : s = run.links OBVIOUS
  <2>3. s \in Seq(Link) /\ l \in DOMAIN s BY <2>1, <2>2
  <2>4. l \in 1 .. Len(s) BY <2>3
  <2>5. QED BY <1>0, <2>1, <2>2, <2>4
<1>2. k \in Link BY <1>1, ElementOfSeq
<1>3. ASSUME NEW link, run' = set_link(l, link) PROVE run'.links[l] = link
  BY <1>1, <1>3 DEF set_link, Run
<1>4. CASE ReaderFrame(l) BY <1>4 DEF ReaderFrame
<1>5. CASE ReaderClosed(l) \/ ReaderStop(l)
  <2>1. run'.links[l] = end_reader(l) BY <1>3, <1>5 DEF ReaderClosed, ReaderStop
  <2>2. end_reader(l).q = k.q /\ end_reader(l).busy = k.busy
    BY <1>2 DEF end_reader, Link
  <2>3. QED BY <1>5, <2>1, <2>2
<1>6. CASE WriterTake(l)
  <2>1. run'.links[l] = take(l) BY <1>3, <1>6 DEF WriterTake
  <2>2. /\ take(l).reader = k.reader /\ take(l).writer = k.writer
        /\ take(l).q = Tail(k.q) /\ take(l).busy = <<Head(k.q)>>
    BY <1>2 DEF take, Link
  <2>3. QED BY <1>6, <2>1, <2>2
<1>7. CASE WriterWrite(l)
  <2>1. run'.links[l] = write(l) BY <1>3, <1>7 DEF WriterWrite
  <2>2. /\ write(l).reader = k.reader /\ write(l).writer = k.writer
        /\ write(l).q = k.q /\ write(l).busy = <<>>
    BY <1>2 DEF write, Link
  <2>3. QED BY <1>7, <2>1, <2>2
<1>8. CASE WriterFail(l) \/ WriterDone(l) \/ WriterAbort(l)
  <2>1. run'.links[l] = end_writer(l)
    BY <1>3, <1>8 DEF WriterFail, WriterDone, WriterAbort
  <2>2. end_writer(l).q = <<>> /\ end_writer(l).busy = <<>>
    BY <1>2 DEF end_writer, Link
  <2>3. QED BY <1>8, <2>1, <2>2
<1>9. QED BY <1>4, <1>5, <1>6, <1>7, <1>8 DEF ReaderStep, WriterStep

\* They keep ExitKiss last: the writer takes the head of its queue.
LEMMA TasksKiss ==
  ASSUME RunOK(run), KissOK(run), NEW l \in DOMAIN run.links,
         ReaderStep(l) \/ WriterStep(l)
  PROVE  KissOK(run')
<1>1. SameButLink(run, run', l) BY LinkStepLeaves
<1>2. l \in 1 .. Len(run.links) /\ run.links \in Seq(Link)
  BY DEF RunOK, Run
<1>3. run'.pending \in Seq(Frames) BY <1>1 DEF KissOK, SameButLink
<1>4. ASSUME NEW k \in 1 .. Len(run.links), k # l PROVE KissAt(run', k)
  <2>1. KissAt(run, k) /\ run'.links[k] = run.links[k]
        /\ run'.writer_tx = run.writer_tx
    BY <1>1, <1>4 DEF KissOK, SameButLink
  <2>2. QED BY <2>1 DEF KissAt
<1>5. KissAt(run', l)
  <2>1. KissAt(run, l) /\ run'.writer_tx = run.writer_tx
    BY <1>1, <1>2 DEF KissOK, SameButLink
  <2>2. Len(<<>>) = 0 OBVIOUS
  <2>3. CASE run'.links[l].q = run.links[l].q /\ run'.links[l].busy = run.links[l].busy
    BY <2>1, <2>3 DEF KissAt
  <2>4. CASE run'.links[l].q = run.links[l].q /\ run'.links[l].busy = <<>>
    BY <2>1, <2>2, <2>4 DEF KissAt
  <2>5. CASE run'.links[l].q = <<>> /\ run'.links[l].busy = <<>>
    BY <2>2, <2>5 DEF KissAt
  <2>6. CASE /\ WriterTake(l) /\ run'.links[l].q = Tail(run.links[l].q)
             /\ run'.links[l].busy = <<Head(run.links[l].q)>>
    <3>1. PICK q : q = run.links[l].q OBVIOUS
    <3>2. q # <<>> BY <2>6, <3>1 DEF WriterTake
    <3>3. q \in Seq(Nat)
      <4>1. run.links[l] \in Link BY <1>2, ElementOfSeq
      <4>2. QED BY <3>1, <4>1 DEF Link
    <3>4. /\ Len(Tail(q)) = Len(q) - 1 /\ Len(q) \in Nat /\ Len(q) >= 1
          /\ \A i \in 1 .. Len(Tail(q)) : Tail(q)[i] = q[i + 1]
          /\ Head(q) = q[1]
      BY <3>2, <3>3
    <3>5. \A i \in 1 .. Len(q) : q[i] = ExitKiss =>
            i = Len(q) /\ l # run.writer_tx
      BY <2>1, <3>1 DEF KissAt
    <3>6. Len(<<Head(q)>>) = 1 /\ <<Head(q)>>[1] = Head(q) OBVIOUS
    <3>7. ASSUME Head(q) = ExitKiss
          PROVE  Tail(q) = <<>> /\ l # run.writer_tx
      <4>0. 1 \in 1 .. Len(q) /\ q[1] = ExitKiss BY <3>4, <3>7
      <4>1. 1 = Len(q) /\ l # run.writer_tx BY <3>5, <4>0
      <4>2. Tail(q) \in Seq(Nat) BY <3>2, <3>3, HeadTailProperties
      <4>3. Len(Tail(q)) = 0 BY <3>4, <4>1
      <4>4. Tail(q) = <<>> BY <4>2, <4>3, EmptySeq
      <4>5. QED BY <4>1, <4>4
    <3>8. ASSUME NEW i \in 1 .. Len(Tail(q)), Tail(q)[i] = ExitKiss
          PROVE  i = Len(Tail(q)) /\ l # run.writer_tx
      <4>1. i + 1 \in 1 .. Len(q) /\ q[i + 1] = ExitKiss BY <3>4, <3>8
      <4>2. i + 1 = Len(q) /\ l # run.writer_tx BY <3>5, <4>1
      <4>3. QED BY <3>4, <4>2
    <3>9. run'.links[l].q = Tail(q) /\ run'.links[l].busy = <<Head(q)>>
      BY <2>6, <3>1
    <3>10. QED BY <2>1, <3>6, <3>7, <3>8, <3>9 DEF KissAt
  <2>7. QED BY <2>3, <2>4, <2>5, <2>6, LinkStepTo
<1>6. Len(run'.links) = Len(run.links) BY <1>1 DEF SameButLink
<1>7. QED BY <1>3, <1>4, <1>5, <1>6 DEF KissOK

\* A link whose reader or writer ends while it is connected has said so.
LEMMA TasksNotice ==
  ASSUME TypeOK, LinkConsistent, CurrentOK(run), KissOK(run), DeadLinkNoticed,
         NEW l \in DOMAIN run.links, ReaderStep(l) \/ WriterStep(l)
  PROVE  DeadLinkNoticed'
<1>. DEFINE m == Len(run.links)
<1>. SUFFICES ASSUME run'.link = "Connected"
              PROVE  \/ run'.links[Len(run'.links)].reader /\ run'.links[Len(run'.links)].writer
                     \/ \E i \in 1 .. Len(tncQ') :
                          tncQ'[i].type = "Closed" /\ tncQ'[i].gen = run'.generation
  BY DEF DeadLinkNoticed
<1>0. RunOK(run) /\ tncQ \in Seq(TncEvents) BY DEF TypeOK
<1>1. SameButLink(run, run', l) BY <1>0, LinkStepLeaves
<1>2. /\ run.link = "Connected" /\ run'.generation = run.generation
      /\ Len(run'.links) = m
  BY <1>1 DEF SameButLink
<1>3. run.links \in Seq(Link) /\ run.writer_tx = m /\ run.links # <<>>
      /\ run.links[m].gen = run.generation
  BY <1>0, <1>2 DEF RunOK, Run, LinkConsistent, CurrentOK
<1>4. m \in 1 .. Len(run.links) /\ l \in 1 .. Len(run.links) BY <1>3
<1>5. \/ tncQ' = tncQ
      \/ \E type : tncQ' = Append(tncQ, TncEvent(type, l))
  BY DEF ReaderStep, ReaderFrame, ReaderClosed, ReaderStop, WriterStep,
         WriterTake, WriterWrite, WriterFail, WriterDone, WriterAbort, send_tnc
<1>6. CASE \E i \in 1 .. Len(tncQ) :
             tncQ[i].type = "Closed" /\ tncQ[i].gen = run.generation
  <2>1. PICK i \in 1 .. Len(tncQ) :
               tncQ[i].type = "Closed" /\ tncQ[i].gen = run.generation
    BY <1>6
  <2>2. i \in 1 .. Len(tncQ') /\ tncQ'[i] = tncQ[i] BY <1>0, <1>5
  <2>3. QED BY <1>2, <2>1, <2>2
<1>7. CASE run.links[m].reader /\ run.links[m].writer /\ l # m
  <2>1. run'.links[m] = run.links[m] BY <1>1, <1>4, <1>7 DEF SameButLink
  <2>2. QED BY <1>2, <1>7, <2>1
<1>8. CASE run.links[m].reader /\ run.links[m].writer /\ l = m
  <2>1. ASSUME tncQ' = Append(tncQ, TncEvent("Closed", l))
        PROVE  \E i \in 1 .. Len(tncQ') :
                 tncQ'[i].type = "Closed" /\ tncQ'[i].gen = run'.generation
    <3>1. Len(tncQ) + 1 \in 1 .. Len(tncQ') /\ tncQ'[Len(tncQ) + 1] = TncEvent("Closed", l)
      BY <1>0, <2>1
    <3>2. /\ TncEvent("Closed", l).type = "Closed"
          /\ TncEvent("Closed", l).gen = run'.generation
      BY <1>2, <1>3, <1>8 DEF TncEvent
    <3>3. QED BY <3>1, <3>2
  <2>2. CASE ReaderClosed(l) BY <2>1, <2>2 DEF ReaderClosed, send_tnc
  <2>3. CASE ReaderStop(l) \/ WriterDone(l) \/ WriterAbort(l)
    BY <1>3, <1>8, <2>3 DEF ReaderStop, WriterDone, WriterAbort
  <2>4. CASE WriterFail(l)
    <3>1. PICK b : b = run.links[m].busy OBVIOUS
    <3>2. b # <<>> /\ b \in Seq(Nat)
      <4>1. run.links[m] \in Link BY <1>3, <1>4, ElementOfSeq
      <4>2. QED BY <1>8, <2>4, <3>1, <4>1 DEF WriterFail, Link
    <3>3. 1 \in 1 .. Len(b) /\ Head(b) = b[1] BY <3>2
    <3>4. KissAt(run, m) BY <1>4 DEF KissOK
    <3>5. Head(b) # ExitKiss BY <1>3, <3>1, <3>3, <3>4 DEF KissAt
    <3>6. tncQ' = Append(tncQ, TncEvent("Closed", l))
      BY <1>8, <2>4, <3>1, <3>5 DEF WriterFail, send_tnc
    <3>7. QED BY <2>1, <3>6
  <2>5. CASE ReaderFrame(l) BY <1>2, <1>8, <2>5 DEF ReaderFrame
  <2>6. CASE /\ run'.links[l].reader = run.links[l].reader
             /\ run'.links[l].writer = run.links[l].writer
    BY <1>2, <1>8, <2>6
  <2>7. QED BY <1>0, <2>2, <2>3, <2>4, <2>5, <2>6, LinkStepTo
<1>9. QED BY <1>2, <1>6, <1>7, <1>8 DEF DeadLinkNoticed

\* The event that closes the connected link takes it down.
LEMMA ClosedTakesDown ==
  ASSUME NEW r, RunOK(r), NEW ev, ev.gen = r.generation, r.link = "Connected"
  PROVE  on_tnc_closed(r, ev).link # "Connected"
<1>1. r \in Run BY DEF RunOK
<1>2. QED BY <1>1 DEF on_tnc_closed, drop_link, start_backoff, Run

\* The loop takes the event of a dead link out of the channel only to close it.
LEMMA LoopNotice ==
  ASSUME TypeOK, TypeOK', CurrentOK(run), DeadLinkNoticed, Ahead(run, run'),
         \/ tncQ' = tncQ
         \/ TakeTncFrame \/ TakeTncClosed
  PROVE  DeadLinkNoticed'
<1>. SUFFICES ASSUME run'.link = "Connected"
              PROVE  \/ run'.links[Len(run'.links)].reader /\ run'.links[Len(run'.links)].writer
                     \/ \E i \in 1 .. Len(tncQ') :
                          tncQ'[i].type = "Closed" /\ tncQ'[i].gen = run'.generation
  BY DEF DeadLinkNoticed
<1>0. RunOK(run) /\ tncQ \in Seq(TncEvents) BY DEF TypeOK
<1>1. /\ run.link = "Connected" /\ run'.generation = run.generation
      /\ Len(run'.links) = Len(run.links)
  BY DEF Ahead, Onward
<1>2. run.links \in Seq(Link) /\ run.links # <<>>
  BY <1>0, <1>1 DEF RunOK, Run, CurrentOK
<1>3. Len(run.links) \in 1 .. Len(run.links) BY <1>2
<1>4. CASE run.links[Len(run.links)].reader /\ run.links[Len(run.links)].writer
  BY <1>1, <1>3, <1>4 DEF Ahead
<1>5. ASSUME NEW i \in 1 .. Len(tncQ), tncQ[i].type = "Closed",
             tncQ[i].gen = run.generation
      PROVE  \E j \in 1 .. Len(tncQ') :
               tncQ'[j].type = "Closed" /\ tncQ'[j].gen = run'.generation
  <2>1. CASE tncQ' = tncQ BY <1>1, <1>5, <2>1
  <2>2. CASE TakeTncFrame \/ TakeTncClosed
    <3>1. tncQ # <<>> /\ tncQ' = Tail(tncQ)
      BY <2>2 DEF TakeTncFrame, TakeTncClosed
    <3>2. /\ Len(tncQ') = Len(tncQ) - 1 /\ Len(tncQ) \in Nat
          /\ \A j \in 1 .. Len(tncQ') : tncQ'[j] = tncQ[j + 1]
          /\ Head(tncQ) = tncQ[1]
      BY <1>0, <3>1
    <3>3. i # 1
      <4>1. CASE TakeTncFrame BY <1>5, <3>2, <4>1 DEF TakeTncFrame
      <4>2. CASE TakeTncClosed
        <5>1. ASSUME i = 1 PROVE FALSE
          <6>1. run' = on_tnc_closed(run, tncQ[i])
            BY <3>2, <4>2, <5>1 DEF TakeTncClosed
          <6>2. QED BY <1>0, <1>1, <1>5, <6>1, ClosedTakesDown
        <5>2. QED BY <5>1
      <4>3. QED BY <2>2, <4>1, <4>2
    <3>4. i - 1 \in 1 .. Len(tncQ') /\ tncQ'[i - 1] = tncQ[i] BY <3>2, <3>3
    <3>5. QED BY <1>1, <1>5, <3>4
  <2>3. QED BY <2>1, <2>2
<1>6. QED BY <1>1, <1>4, <1>5 DEF DeadLinkNoticed

\* Frames are numbered from 1.
LEMMA NextApp ==
  ASSUME TypeOK, AppOK(appQ), [Next]_vars
  PROVE  AppOK(appQ')
<1>0. appQ \in Seq(AppEvents) BY DEF TypeOK
<1>1. ASSUME appQ # <<>>, appQ' = Tail(appQ) PROVE AppOK(appQ')
  <2>1. /\ Len(appQ') = Len(appQ) - 1 /\ Len(appQ) \in Nat
        /\ \A j \in 1 .. Len(appQ') : appQ'[j] = appQ[j + 1]
    BY <1>0, <1>1
  <2>2. QED BY <2>1 DEF AppOK
<1>2. ASSUME NEW ev, ev.type = "Frame" => ev.n \in Frames,
             appQ' = Append(appQ, ev)
      PROVE  AppOK(appQ')
  <2>1. /\ Len(appQ') = Len(appQ) + 1 /\ Len(appQ) \in Nat
        /\ \A j \in 1 .. Len(appQ) : appQ'[j] = appQ[j]
        /\ appQ'[Len(appQ) + 1] = ev
    BY <1>0, <1>2
  <2>2. QED BY <1>2, <2>1 DEF AppOK
<1>3. CASE TakeApp BY <1>1, <1>3 DEF TakeApp
<1>4. ASSUME NEW id \in Sessions, AppOpen(id) \/ AppClose(id) \/ AppSend(id)
      PROVE  AppOK(appQ')
  <2>1. CASE AppOpen(id)
    <3>1. PICK ev : ev = [type |-> "SessionOpened", id |-> id] OBVIOUS
    <3>2. appQ' = Append(appQ, ev) /\ ev.type # "Frame"
      BY <2>1, <3>1 DEF AppOpen, send_app
    <3>3. QED BY <1>2, <3>2
  <2>2. CASE AppClose(id)
    <3>1. PICK ev : ev = [type |-> "SessionClosed", id |-> id] OBVIOUS
    <3>2. appQ' = Append(appQ, ev) /\ ev.type # "Frame"
      BY <2>2, <3>1 DEF AppClose, send_app
    <3>3. QED BY <1>2, <3>2
  <2>3. CASE AppSend(id)
    <3>1. PICK cmd \in Cmds : send_app([type |-> "Frame", id |-> id,
                                        n |-> used.frames + 1, cmd |-> cmd])
      BY <2>3 DEF AppSend
    <3>2. PICK ev : ev = [type |-> "Frame", id |-> id,
                          n |-> used.frames + 1, cmd |-> cmd]
      OBVIOUS
    <3>3. used.frames \in Nat BY DEF TypeOK
    <3>4. ev.n \in Frames BY <3>2, <3>3 DEF Frames, ExitKiss
    <3>5. appQ' = Append(appQ, ev) BY <3>1, <3>2 DEF send_app
    <3>6. QED BY <1>2, <3>4, <3>5
  <2>4. QED BY <1>4, <2>1, <2>2, <2>3
<1>5. CASE appQ' = appQ BY <1>5
<1>6. \/ appQ' = appQ \/ TakeApp
      \/ \E id \in Sessions : AppOpen(id) \/ AppClose(id) \/ AppSend(id)
  BY DEF Next, Loop, TakeTncFrame, TakeTncClosed, ConnectOk, ConnectErr,
         BackoffOver, IdleElapsed, Shutdown, Stopped, CmdSettings,
         CmdConnector, CmdHold, FrameAges, ReaderStep, ReaderFrame,
         ReaderClosed, ReaderStop, WriterStep, WriterTake, WriterWrite,
         WriterFail, WriterDone, WriterAbort, vars
<1>7. QED BY <1>3, <1>4, <1>5, <1>6

\* Every step keeps all of it.
LEMMA NextGen ==
  TypeOK /\ TypeOK' /\ LinkConsistent /\ GenInvariant /\ [Next]_vars
    => GenInvariant'
<1>. SUFFICES ASSUME TypeOK, TypeOK', LinkConsistent, GenInvariant, [Next]_vars
              PROVE  GenInvariant'
  OBVIOUS
<1>1. /\ RunOK(run) /\ RunOK(run') /\ GenOK(run) /\ EventsOK(tncQ)
      /\ CurrentOK(run) /\ KissOK(run) /\ AppOK(appQ) /\ DeadLinkNoticed
      /\ tncQ \in Seq(TncEvents) /\ tncQ' \in Seq(TncEvents)
  BY DEF TypeOK, GenInvariant
<1>2. Len(run.links) \in Nat /\ Len(run'.links) \in Nat
  <2>1. run.links \in Seq(Link) /\ run'.links \in Seq(Link)
    BY <1>1 DEF RunOK, Run
  <2>2. QED BY <2>1, LenProperties
<1>3. AppOK(appQ') BY <1>1, NextApp
<1>4. ASSUME GenOK(run'), CurrentOK(run'), KissOK(run'), EventsOK(tncQ)',
             DeadLinkNoticed'
      PROVE  GenInvariant'
  BY <1>3, <1>4 DEF GenInvariant, GenOK, CurrentOK, KissOK, KissAt, AppOK
<1>5. ASSUME Onward(run, run'),
             \A i \in 1 .. Len(tncQ') :
               \/ \E j \in 1 .. Len(tncQ) : tncQ'[i] = tncQ[j]
               \/ \E type, l : /\ l \in 1 .. Len(run.links)
                               /\ tncQ'[i] = TncEvent(type, l)
      PROVE  GenOK(run') /\ EventsOK(tncQ)'
  <2>1. GenOK(run') BY <1>1, <1>5, OnwardKeeps
  <2>2. /\ Len(run.links) <= Len(run'.links)
        /\ \A l \in 1 .. Len(run.links) : run'.links[l].gen = run.links[l].gen
    BY <1>2, <1>5 DEF Onward
  <2>3. EventsOK(tncQ)' BY <1>1, <1>2, <1>5, <2>2, EventsKeep
  <2>4. QED BY <2>1, <2>3
<1>6. ASSUME Ahead(run, run'), tncQ' = tncQ \/ TakeTncFrame \/ TakeTncClosed
      PROVE  GenInvariant'
  <2>1. GenOK(run') /\ CurrentOK(run') /\ KissOK(run') BY <1>1, <1>6, AheadKeeps
  <2>2. DeadLinkNoticed' BY <1>1, <1>6, LoopNotice
  <2>3. \A i \in 1 .. Len(tncQ') : \E j \in 1 .. Len(tncQ) : tncQ'[i] = tncQ[j]
    <3>1. CASE tncQ' = tncQ BY <3>1
    <3>2. CASE tncQ # <<>> /\ tncQ' = Tail(tncQ) BY <1>1, <3>2, TailEvents
    <3>3. QED BY <1>6, <3>1, <3>2 DEF TakeTncFrame, TakeTncClosed
  <2>4. EventsOK(tncQ)' BY <1>5, <1>6, <2>3 DEF Ahead
  <2>5. QED BY <1>4, <2>1, <2>2, <2>4
<1>7. CASE ConnectOk
  <2>1. PICK exit_kiss \in BOOLEAN : run' = on_link_ok(run, exit_kiss)
    BY <1>7 DEF ConnectOk
  <2>2. run.link = "Connecting" /\ tncQ' = tncQ BY <1>7 DEF ConnectOk
  <2>3. /\ GenOK(run') /\ CurrentOK(run') /\ KissOK(run')
        /\ Len(run'.links) = Len(run.links) + 1
        /\ \A l \in 1 .. Len(run.links) : run'.links[l].gen = run.links[l].gen
        /\ run'.link = "Connected" =>
             run'.links[Len(run'.links)].reader /\ run'.links[Len(run'.links)].writer
    BY <1>1, <2>1, <2>2, OnLinkOkGen
  <2>4. EventsOK(tncQ)'
    <3>1. Len(run.links) <= Len(run'.links) BY <1>2, <2>3
    <3>2. \A i \in 1 .. Len(tncQ') : \E j \in 1 .. Len(tncQ) : tncQ'[i] = tncQ[j]
      BY <2>2
    <3>3. QED BY <1>1, <1>2, <2>3, <3>1, <3>2, EventsKeep
  <2>5. DeadLinkNoticed' BY <2>3 DEF DeadLinkNoticed
  <2>6. QED BY <1>4, <2>3, <2>4, <2>5
<1>8. CASE Loop /\ ~ConnectOk
  <2>1. Ahead(run, run') BY <1>1, <1>8, LoopAhead
  <2>2. tncQ' = tncQ \/ TakeTncFrame \/ TakeTncClosed
    BY <1>8 DEF Loop, TakeApp, ConnectErr, BackoffOver, IdleElapsed, Shutdown,
                Stopped, CmdSettings, CmdConnector, CmdHold
  <2>3. QED BY <1>6, <2>1, <2>2
<1>9. CASE \E l \in DOMAIN run.links : ReaderStep(l) \/ WriterStep(l)
  <2>. PICK l \in DOMAIN run.links : ReaderStep(l) \/ WriterStep(l) BY <1>9
  <2>1. SameButLink(run, run', l) BY <1>1, LinkStepLeaves
  <2>2. run.generation \in Nat BY <1>1 DEF RunOK, Run
  <2>3. /\ run'.generation = run.generation /\ run'.link = run.link
        /\ Len(run'.links) = Len(run.links)
        /\ \A k \in 1 .. Len(run.links) : run'.links[k].gen = run.links[k].gen
    BY <2>1 DEF SameButLink
  <2>4. Onward(run, run') BY <2>2, <2>3 DEF Onward
  <2>5. GenOK(run') /\ EventsOK(tncQ)' BY <1>5, <2>4, TasksEvents
  <2>6. CurrentOK(run')
    <3>1. run.links \in Seq(Link) /\ run'.links \in Seq(Link)
      BY <1>1 DEF RunOK, Run
    <3>2. ASSUME run.links # <<>>
          PROVE  run'.links # <<>> /\ Len(run.links) \in 1 .. Len(run.links)
      <4>1. PICK s, u : s = run.links /\ u = run'.links OBVIOUS
      <4>2. s \in Seq(Link) /\ s # <<>> /\ Len(u) = Len(s) BY <2>3, <3>1, <3>2, <4>1
      <4>3. Len(s) \in Nat \ {0} BY <4>2, EmptySeq
      <4>4. u # <<>> /\ Len(s) \in 1 .. Len(s) BY <4>2, <4>3
      <4>5. QED BY <4>1, <4>4
    <3>3. QED BY <1>1, <2>3, <3>2 DEF CurrentOK
  <2>7. KissOK(run') BY <1>1, TasksKiss
  <2>8. DeadLinkNoticed' BY <1>1, TasksNotice
  <2>9. QED BY <1>4, <2>5, <2>6, <2>7, <2>8
<1>10. CASE FrameAges
  <2>1. Same(run, run') /\ tncQ' = tncQ
    BY <1>1, <1>10 DEF Same, FrameAges, RunOK, Run
  <2>2. QED BY <1>1, <1>6, <2>1, AheadSame
<1>11. CASE \/ UNCHANGED vars
            \/ \E id \in Sessions : AppOpen(id) \/ AppClose(id) \/ AppSend(id)
  <2>1. run' = run /\ tncQ' = tncQ
    BY <1>11 DEF AppOpen, AppClose, AppSend, vars
  <2>2. Same(run, run') BY <2>1 DEF Same
  <2>3. QED BY <1>1, <1>6, <2>1, <2>2, AheadSame
<1>12. QED BY <1>7, <1>8, <1>9, <1>10, <1>11 DEF Next

LEMMA GenAlways == Spec => []GenInvariant
<1>1. LinkConsistent /\ TypeOK /\ TypeOK' /\ GenInvariant /\ [Next]_vars
        => GenInvariant'
  BY NextGen
<1>2. QED BY <1>1, InitGen, TypeCorrect, LinkConsistentAlways, PTL DEF Spec

\* Whatever late events the tasks of former links have in the channel, an
\* event that passes on_tnc's generation check is from the link that is
\* connected now.
THEOREM StaleSafe == Spec => []StaleEventsIgnored
<1>1. GenInvariant => StaleEventsIgnored
  <2>. SUFFICES ASSUME GenInvariant, NEW i \in 1 .. Len(tncQ),
                       tncQ[i].gen = run.generation
                PROVE  run.link = "Connected" /\ tncQ[i].link = Len(run.links)
    BY DEF StaleEventsIgnored
  <2>1. QED BY DEF GenInvariant, EventsOK, GenOK
<1>2. QED BY <1>1, GenAlways, PTL

\* A connected link that has lost its reader or its writer never goes
\* unnoticed: the Closed event that will bring it down is in the channel, and
\* carries the bridge's generation (link_reader and link_writer send it
\* before they end).
THEOREM DeadNoticed == Spec => []DeadLinkNoticed
<1>1. GenInvariant => DeadLinkNoticed BY DEF GenInvariant
<1>2. QED BY <1>1, GenAlways, PTL

\* Whatever is pending, sent or replayed, ExitKiss is the last message of a
\* link, and the bridge sends to that link no more (disconnect queues it and
\* drops the sender).
THEOREM ExitKissSafe == Spec => []ExitKissLast
<1>1. TypeOK /\ GenInvariant => ExitKissLast
  <2>. SUFFICES ASSUME TypeOK, GenInvariant, NEW l \in 1 .. Len(run.links)
                PROVE  LET out == run.links[l].busy \o run.links[l].q IN
                       \A i \in 1 .. Len(out) :
                         out[i] = ExitKiss => i = Len(out) /\ l # run.writer_tx
    BY DEF ExitKissLast
  <2>1. PICK b, q : b = run.links[l].busy /\ q = run.links[l].q OBVIOUS
  <2>2. b \in Seq(Nat) /\ q \in Seq(Nat)
    <3>1. run.links \in Seq(Link) BY DEF TypeOK, RunOK, Run
    <3>2. run.links[l] \in Link BY <3>1, ElementOfSeq
    <3>3. QED BY <2>1, <3>2 DEF Link
  <2>3. KissAt(run, l) BY DEF GenInvariant, KissOK
  <2>4. /\ Len(b) <= 1
        /\ \A i \in 1 .. Len(b) : b[i] = ExitKiss => q = <<>> /\ l # run.writer_tx
        /\ \A i \in 1 .. Len(q) : q[i] = ExitKiss => i = Len(q) /\ l # run.writer_tx
    BY <2>1, <2>3 DEF KissAt
  <2>5. /\ Len(b) \in Nat /\ Len(q) \in Nat /\ Len(b \o q) = Len(b) + Len(q)
        /\ \A i \in 1 .. Len(b \o q) :
             (b \o q)[i] = IF i <= Len(b) THEN b[i] ELSE q[i - Len(b)]
    BY <2>2
  <2>6. ASSUME NEW i \in 1 .. Len(b \o q), (b \o q)[i] = ExitKiss
        PROVE  i = Len(b \o q) /\ l # run.writer_tx
    <3>1. CASE i <= Len(b)
      <4>1. i \in 1 .. Len(b) /\ b[i] = ExitKiss BY <2>5, <2>6, <3>1
      <4>2a. q = <<>> /\ l # run.writer_tx BY <2>4, <4>1
      <4>2b. i \in Nat /\ 1 <= i /\ i <= Len(b) /\ Len(b) <= 1
        BY <2>4, <2>5, <4>1
      <4>2. q = <<>> /\ l # run.writer_tx /\ Len(b) = 1 /\ i = 1
        BY <2>5, <4>2a, <4>2b
      <4>3. Len(q) = 0 BY <4>2
      <4>4. QED BY <2>5, <4>2, <4>3
    <3>2. CASE ~(i <= Len(b))
      <4>1. i - Len(b) \in 1 .. Len(q) /\ q[i - Len(b)] = ExitKiss
        BY <2>5, <2>6, <3>2
      <4>2. i - Len(b) = Len(q) /\ l # run.writer_tx BY <2>4, <4>1
      <4>3. QED BY <2>5, <4>2
    <3>3. QED BY <3>1, <3>2
  <2>7. QED BY <2>1, <2>6
<1>2. QED BY <1>1, GenAlways, TypeCorrect, PTL

------------------------------------------------------------------------------
\* The books.

\* FramesAccounted and WriterNeverOverrun of a given Run, when k frames that
\* were taken are still in the handler's hands.
Owed(r, k) ==
  /\ r.taken + r.slow
       = r.frames_up + r.dropped + r.cleared + Len(r.pending) + k
  /\ r.overrun = 0

\* The invariant of the proof: inductive together with TypeOK.
BooksInvariant == Owed(run, 0)

\* The counters and the pending queue, as numbers.
LEMMA BooksTypes ==
  ASSUME NEW r, RunOK(r)
  PROVE  /\ r \in Run
         /\ r.taken \in Nat /\ r.slow \in Nat /\ r.frames_up \in Nat
         /\ r.dropped \in Nat /\ r.cleared \in Nat /\ r.overrun \in Nat
         /\ r.pending \in Seq(Nat) /\ Len(r.pending) \in Nat
         /\ r.stale \in Nat /\ r.stale <= Len(r.pending)
         /\ Len(r.pending) <= UPLINK_QUEUE_FRAMES
<1>1. r \in Run BY DEF RunOK
<1>2. r.pending \in Seq(Nat) BY <1>1 DEF Run
<1>3. Len(r.pending) \in Nat BY <1>2, LenProperties
<1>4. QED BY <1>1, <1>2, <1>3 DEF RunOK, Run

\* Adding one, spread over three places.
LEMMA Spread ==
  ASSUME NEW c \in Nat, NEW d \in Nat, NEW e \in Nat, NEW f \in Nat,
         NEW i \in Nat, NEW j \in Nat, NEW k \in Nat, i + j + k = 1
  PROVE  c + d + e + f + 1 = (c + i) + (d + j) + e + (f + k) + 0
OBVIOUS

\* One frame is settled: it is counted as sent, counted as dropped, or kept.
LEMMA SettledOwed ==
  ASSUME NEW r, NEW u, RunOK(r), Owed(r, 1),
         u.taken = r.taken, u.slow = r.slow, u.cleared = r.cleared,
         u.overrun = r.overrun,
         NEW i \in Nat, NEW j \in Nat, NEW k \in Nat, i + j + k = 1,
         u.frames_up = r.frames_up + i, u.dropped = r.dropped + j,
         Len(u.pending) = Len(r.pending) + k
  PROVE  Owed(u, 0)
<1>1. /\ r.taken \in Nat /\ r.slow \in Nat /\ r.frames_up \in Nat
      /\ r.dropped \in Nat /\ r.cleared \in Nat /\ Len(r.pending) \in Nat
  BY BooksTypes
<1>2. PICK c \in Nat, d \in Nat, e \in Nat, f \in Nat :
        /\ c = r.frames_up /\ d = r.dropped /\ e = r.cleared
        /\ f = Len(r.pending)
  BY <1>1
<1>3. c + d + e + f + 1 = (c + i) + (d + j) + e + (f + k) + 0 BY Spread
<1>4. r.taken + r.slow = c + d + e + f + 1 /\ r.overrun = 0
  BY <1>2 DEF Owed
<1>5. u.taken + u.slow = (c + i) + (d + j) + e + (f + k) + 0
  BY <1>3, <1>4
<1>6. QED BY <1>2, <1>4, <1>5 DEF Owed

\* What a handler leaves alone when it moves no frame.
SameBooks(r, u) ==
  /\ u.taken = r.taken /\ u.slow = r.slow /\ u.frames_up = r.frames_up
  /\ u.dropped = r.dropped /\ u.cleared = r.cleared /\ u.pending = r.pending
  /\ u.overrun = r.overrun

\* It then owes what it owed.
LEMMA SameOwed ==
  ASSUME NEW r, NEW u, NEW k, Owed(r, k), SameBooks(r, u)
  PROVE  Owed(u, k)
BY DEF Owed, SameBooks

\* Connecting, waiting and backing off move no frame.
LEMMA RetryBooks ==
  ASSUME NEW r, r \in Run, NEW kind
  PROVE  /\ SameBooks(r, start_connect(r)) /\ SameBooks(r, start_wait(r, kind))
         /\ SameBooks(r, start_backoff(r)) /\ SameBooks(r, drop_link(r))
         /\ SameBooks(r, [r EXCEPT !.link = "Idle"])
         /\ SameBooks(r, [r EXCEPT !.waiting = "none"])
         /\ SameBooks(r, [r EXCEPT !.attempt = 0])
         /\ SameBooks(r, [r EXCEPT !.state = "Idle"])
         /\ SameBooks(r, [r EXCEPT !.idle_timer = TRUE])
         /\ SameBooks(r, [r EXCEPT !.idle_timer = FALSE])
BY DEF SameBooks, start_connect, start_wait, start_backoff, drop_link, Run

\* A message for the writer is counted by its sender.
LEMMA SendWriterBooks ==
  ASSUME NEW r, r \in Run, NEW msg
  PROVE  SameBooks(r, send_writer(r, msg))
<1>1. PICK links : send_writer(r, msg) = [r EXCEPT !.links = links]
  BY DEF send_writer
<1>2. QED BY <1>1 DEF SameBooks, Run

\* Giving up on a link moves the pending frames to those cleared.
LEMMA GoIdleBooks ==
  ASSUME NEW r, RunOK(r), Owed(r, 0)
  PROVE  Owed(go_idle(r), 0)
<1>1. PICK u : u = go_idle(r) OBVIOUS
<1>2. /\ u.taken = r.taken /\ u.slow = r.slow /\ u.frames_up = r.frames_up
      /\ u.dropped = r.dropped /\ u.overrun = r.overrun
      /\ u.cleared = r.cleared + Len(r.pending) /\ u.pending = <<>>
  BY <1>1, BooksTypes DEF go_idle, clear_pending, Run
<1>3. Len(u.pending) = 0 BY <1>2
<1>4. QED BY <1>1, <1>2, <1>3, BooksTypes DEF Owed

\* Closing, with a teardown or without.
LEMMA DisconnectBooks ==
  ASSUME NEW r, RunOK(r), Owed(r, 0)
  PROVE  Owed(disconnect(r), 0)
<1>1. PICK s : s = say_exit_kiss(r) OBVIOUS
<1>2. RunOK(s) BY <1>1, SayExitKissOK
<1>3. SameBooks(r, s)
  BY <1>1, SendWriterBooks, BooksTypes DEF say_exit_kiss, SameBooks
<1>4. RunOK(drop_link(s)) BY <1>2, DropLinkOK
<1>5. SameBooks(s, drop_link(s)) BY <1>2, RetryBooks, BooksTypes
<1>6. Owed(drop_link(s), 0) BY <1>3, <1>5, SameOwed
<1>7. QED BY <1>1, <1>4, <1>6, GoIdleBooks DEF disconnect

\* Letting go, at once or later, and connecting if idle.
LEMMA ReleaseBooks ==
  ASSUME NEW r, RunOK(r), Owed(r, 0)
  PROVE  /\ Owed(close(r), 0) /\ Owed(release(r), 0)
         /\ Owed(connect_if_idle(r), 0)
<1>1. Owed(close(r), 0) BY DisconnectBooks DEF close
<1>2. Owed([r EXCEPT !.idle_timer = TRUE], 0) /\ Owed(start_connect(r), 0)
  BY RetryBooks, SameOwed, BooksTypes
<1>3. QED BY <1>1, <1>2 DEF release, connect_if_idle

\* A frame that is dropped is counted.
LEMMA DropBooks ==
  ASSUME NEW r, RunOK(r), Owed(r, 1)
  PROVE  Owed(drop(r), 0)
<1>1. PICK u : u = drop(r) OBVIOUS
<1>2. /\ u.taken = r.taken /\ u.slow = r.slow /\ u.frames_up = r.frames_up
      /\ u.dropped = r.dropped + 1 /\ u.overrun = r.overrun
      /\ u.cleared = r.cleared /\ u.pending = r.pending
  BY <1>1, BooksTypes DEF drop, Run
<1>3. u.frames_up = r.frames_up + 0 /\ Len(u.pending) = Len(r.pending) + 0
  BY <1>2, BooksTypes
<1>4. QED BY <1>1, <1>2, <1>3, SettledOwed

\* A frame that is kept takes a free place, or that of the oldest, which is
\* counted as dropped.
LEMMA QueuePendingBooks ==
  ASSUME NEW r, RunOK(r), Owed(r, 1), NEW n \in Nat
  PROVE  Owed(queue_pending(r, n), 0)
<1>1. PICK u : u = queue_pending(r, n) OBVIOUS
<1>2. CASE Len(r.pending) >= UPLINK_QUEUE_FRAMES
  <2>1. /\ u.taken = r.taken /\ u.slow = r.slow /\ u.frames_up = r.frames_up
        /\ u.dropped = r.dropped + 1 /\ u.overrun = r.overrun
        /\ u.cleared = r.cleared /\ u.pending = Append(Tail(r.pending), n)
    <3>. DEFINE p == Append(Tail(r.pending), n)
                s == IF r.stale > 0 THEN r.stale - 1 ELSE 0
                d == r.dropped + 1
    <3>1. u = [r EXCEPT !.pending = p, !.stale = s, !.dropped = d]
      BY <1>1, <1>2 DEF queue_pending
    <3>. HIDE DEF p, s, d
    <3>2. /\ u.taken = r.taken /\ u.slow = r.slow /\ u.frames_up = r.frames_up
          /\ u.dropped = d /\ u.overrun = r.overrun
          /\ u.cleared = r.cleared /\ u.pending = p
      BY <3>1, BooksTypes DEF Run
    <3>3. QED BY <3>2 DEF p, d
  <2>2. r.pending # <<>> /\ Len(r.pending) > 0
    BY <1>2, BooksTypes, BridgeAssumption
  <2>3. Tail(r.pending) \in Seq(Nat) /\ Len(Tail(r.pending)) = Len(r.pending) - 1
    BY <2>2, BooksTypes, HeadTailProperties
  <2>4. Len(u.pending) = Len(r.pending) + 0 /\ u.frames_up = r.frames_up + 0
    BY <2>1, <2>3, BooksTypes
  <2>5. QED BY <1>1, <2>1, <2>4, SettledOwed
<1>3. CASE ~(Len(r.pending) >= UPLINK_QUEUE_FRAMES)
  <2>1. /\ u.taken = r.taken /\ u.slow = r.slow /\ u.frames_up = r.frames_up
        /\ u.dropped = r.dropped /\ u.overrun = r.overrun
        /\ u.cleared = r.cleared /\ u.pending = Append(r.pending, n)
    BY <1>1, <1>3, BooksTypes DEF queue_pending, Run
  <2>2. /\ Len(u.pending) = Len(r.pending) + 1
        /\ u.frames_up = r.frames_up + 0 /\ u.dropped = r.dropped + 0
    BY <2>1, BooksTypes
  <2>3. QED BY <1>1, <2>1, <2>2, SettledOwed
<1>4. QED BY <1>2, <1>3

\* uplink settles one frame; app_ready says that a living writer has room.
LEMMA UplinkBooks ==
  ASSUME NEW r, RunOK(r), Owed(r, 1), app_ready(r), NEW n \in Nat
  PROVE  Owed(uplink(r, n), 0)
<1>1. CASE r.link = "Connected" /\ WriterLives(r)
  <2>1. PICK s : s = send_writer(r, n) OBVIOUS
  <2>2. RunOK(s) BY <1>1, <2>1, SendWriterOK DEF app_ready
  <2>3. Owed(s, 1) BY <2>1, SendWriterBooks, SameOwed, BooksTypes
  <2>4. PICK u : u = [s EXCEPT !.frames_up = @ + 1] OBVIOUS
  <2>5. /\ u.taken = s.taken /\ u.slow = s.slow
        /\ u.frames_up = s.frames_up + 1 /\ u.dropped = s.dropped
        /\ u.overrun = s.overrun /\ u.cleared = s.cleared
        /\ u.pending = s.pending
    BY <2>2, <2>4, BooksTypes DEF Run
  <2>6. Owed(u, 0)
    <3>1. Len(u.pending) = Len(s.pending) + 0 /\ u.dropped = s.dropped + 0
      BY <2>2, <2>5, BooksTypes
    <3>2. QED BY <2>2, <2>3, <2>5, <3>1, SettledOwed
  <2>7. uplink(r, n) = u BY <1>1, <2>1, <2>4 DEF uplink, app_ready
  <2>8. QED BY <2>6, <2>7
<1>2. CASE r.link = "Connected" /\ ~WriterLives(r)
  BY <1>2, DropBooks DEF uplink
<1>3. CASE r.link = "Idle" /\ r.held = "down" BY <1>3, DropBooks DEF uplink
<1>4. CASE r.link = "Idle" /\ r.held # "down"
  <2>1. PICK q : q = queue_pending(r, n) OBVIOUS
  <2>2. RunOK(q) /\ Owed(q, 0) BY <2>1, QueuePendingOK, QueuePendingBooks
  <2>3. Owed(start_connect(q), 0) BY <2>2, RetryBooks, SameOwed, BooksTypes
  <2>4. QED BY <1>4, <2>1, <2>3 DEF uplink
<1>5. CASE r.link \notin {"Connected", "Idle"}
  BY <1>5, QueuePendingBooks DEF uplink
<1>6. QED BY <1>1, <1>2, <1>3, <1>4, <1>5

\* on_app: a frame is taken and settled; sessions move no frame, unless the
\* last one to leave closes the link.
LEMMA OnAppBooks ==
  ASSUME NEW r, RunOK(r), Owed(r, 0), app_ready(r), NEW ev \in AppEvents
  PROVE  Owed(on_app(r, ev), 0)
<1>0. r \in Run BY BooksTypes
<1>1. CASE ev.type = "SessionOpened"
  <2>1. PICK u : u = [r EXCEPT !.sessions = @ \cup {ev.id}, !.idle_timer = FALSE]
    OBVIOUS
  <2>2. ev.id \in Sessions BY DEF AppEvents
  <2>3. u \in Run BY <1>0, <2>1, <2>2 DEF Run
  <2>4. RunOK(u) /\ SameBooks(r, u)
    BY <1>0, <2>1, <2>3 DEF RunOK, Run, SameBooks
  <2>5. on_app(r, ev) = IF wants_link(u) THEN connect_if_idle(u) ELSE u
    BY <1>1, <2>1 DEF on_app, on_app_opened
  <2>6. Owed(u, 0) BY <2>4, SameOwed
  <2>7. QED BY <2>4, <2>5, <2>6, ReleaseBooks
<1>2. CASE ev.type = "SessionClosed"
  <2>1. PICK u : u = [r EXCEPT !.sessions = @ \ {ev.id}] OBVIOUS
  <2>2. u \in Run BY <1>0, <2>1 DEF Run
  <2>3. RunOK(u) /\ SameBooks(r, u)
    BY <1>0, <2>1, <2>2 DEF RunOK, Run, SameBooks
  <2>4. on_app(r, ev) \in {release(u), u}
    BY <1>2, <2>1 DEF on_app, on_app_closed
  <2>5. Owed(u, 0) BY <2>3, SameOwed
  <2>6. QED BY <2>3, <2>4, <2>5, ReleaseBooks
<1>3. CASE ev.type = "Frame"
  <2>1. PICK u : u = [r EXCEPT !.taken = @ + 1] OBVIOUS
  <2>2. r.taken + 1 \in Nat BY BooksTypes
  <2>3. u \in Run BY <1>0, <2>1, <2>2 DEF Run
  <2>4. /\ RunOK(u) /\ u.taken = r.taken + 1 /\ u.slow = r.slow
        /\ u.frames_up = r.frames_up /\ u.dropped = r.dropped
        /\ u.cleared = r.cleared /\ u.pending = r.pending
        /\ u.overrun = r.overrun /\ u.links = r.links
        /\ u.writer_tx = r.writer_tx
    BY <1>0, <2>1, <2>3 DEF RunOK, Run
  <2>5. Owed(u, 1)
    <3>1. /\ r.taken \in Nat /\ r.slow \in Nat /\ r.frames_up \in Nat
          /\ r.dropped \in Nat /\ r.cleared \in Nat /\ Len(r.pending) \in Nat
      BY BooksTypes
    <3>2. /\ r.overrun = 0
          /\ r.taken + r.slow
               = r.frames_up + r.dropped + r.cleared + Len(r.pending) + 0
      BY DEF Owed
    <3>3. (r.taken + 1) + r.slow
            = r.frames_up + r.dropped + r.cleared + Len(r.pending) + 1
      <4>1. PICK a \in Nat, b \in Nat, c \in Nat, d \in Nat, e \in Nat,
                 f \in Nat :
              /\ a = r.taken /\ b = r.slow /\ c = r.frames_up
              /\ d = r.dropped /\ e = r.cleared /\ f = Len(r.pending)
        BY <3>1
      <4>2. a + b = c + d + e + f + 0 BY <3>2, <4>1
      <4>3. (a + 1) + b = c + d + e + f + 1 BY <4>2
      <4>4. QED BY <4>1, <4>3
    <3>4. QED BY <2>4, <3>2, <3>3 DEF Owed
  <2>6. app_ready(u) BY <2>4 DEF app_ready, WriterLives, WriterHasRoom
  <2>7. ev.n \in Nat BY <1>3 DEF AppEvents
  <2>8. Owed(uplink(u, ev.n), 0) /\ Owed(drop(u), 0)
    BY <2>4, <2>5, <2>6, <2>7, UplinkBooks, DropBooks
  <2>9. on_app(r, ev) \in {uplink(u, ev.n), drop(u)}
    BY <1>3, <2>1 DEF on_app, on_app_frame
  <2>10. QED BY <2>8, <2>9
<1>4. QED BY <1>1, <1>2, <1>3 DEF AppEvents

\* The supervisor's commands move no frame, unless they close the link.
LEMMA CmdBooks ==
  ASSUME NEW r, RunOK(r), Owed(r, 0), NEW new \in TncSettings,
         NEW hold \in {"none", "up", "down"}
  PROVE  /\ Owed(apply_settings(r, new), 0) /\ Owed(on_connector(r), 0)
         /\ Owed(on_hold(r, hold), 0)
<1>0. r \in Run BY BooksTypes
<1>1. Owed(apply_settings(r, new), 0)
  <2>1. PICK u : u = [r EXCEPT !.settings = new] OBVIOUS
  <2>2. PICK w : w = [u EXCEPT !.idle_timer = FALSE] OBVIOUS
  <2>3. u \in Run /\ w \in Run
    <3>1. u \in Run BY <1>0, <2>1 DEF Run
    <3>2. w \in Run BY <2>2, <3>1 DEF Run
    <3>3. QED BY <3>1, <3>2
  <2>4. RunOK(u) /\ SameBooks(r, u)
    BY <1>0, <2>1, <2>3 DEF RunOK, Run, SameBooks
  <2>5. RunOK(w) /\ SameBooks(u, w)
    BY <2>2, <2>3, <2>4 DEF RunOK, Run, SameBooks
  <2>6. Owed(u, 0) /\ Owed(w, 0) BY <2>4, <2>5, SameOwed
  <2>7. /\ Owed(connect_if_idle(w), 0) /\ Owed(release(u), 0)
    BY <2>4, <2>5, <2>6, ReleaseBooks
  <2>8. apply_settings(r, new) \in {connect_if_idle(w), release(u), u}
    <3>1. CASE r.settings.connect = "OnDemand" /\ new.connect = "Always"
      BY <2>1, <2>2, <3>1 DEF apply_settings
    <3>2. CASE /\ r.settings.connect = "Always" /\ new.connect = "OnDemand"
               /\ r.sessions = {}
      BY <2>1, <3>2 DEF apply_settings
    <3>3. CASE /\ ~(r.settings.connect = "OnDemand" /\ new.connect = "Always")
               /\ ~(/\ r.settings.connect = "Always" /\ new.connect = "OnDemand"
                    /\ r.sessions = {})
      BY <2>1, <3>3 DEF apply_settings
    <3>4. QED BY <3>1, <3>2, <3>3
  <2>9. QED BY <2>6, <2>7, <2>8
<1>2. Owed(on_connector(r), 0)
  <2>1. PICK c : c = close(r) OBVIOUS
  <2>2. RunOK(c) /\ Owed(c, 0) BY <2>1, DisconnectOK, ReleaseBooks DEF close
  <2>3. PICK u : u = [c EXCEPT !.attempt = 0] OBVIOUS
  <2>4. RunOK(u) BY <2>2, <2>3, AttemptOK
  <2>5. Owed(u, 0) BY <2>2, <2>3, RetryBooks, SameOwed, BooksTypes
  <2>6. Owed(start_connect(u), 0) BY <2>4, <2>5, RetryBooks, SameOwed, BooksTypes
  <2>7. QED BY <2>1, <2>3, <2>5, <2>6 DEF on_connector
<1>3. Owed(on_hold(r, hold), 0)
  <2>1. PICK u : u = [r EXCEPT !.held = hold, !.idle_timer = FALSE] OBVIOUS
  <2>2. u \in Run BY <1>0, <2>1 DEF Run
  <2>3. RunOK(u) /\ SameBooks(r, u)
    BY <1>0, <2>1, <2>2 DEF RunOK, Run, SameBooks
  <2>4. Owed(u, 0) BY <2>3, SameOwed
  <2>5. on_hold(r, hold) \in {connect_if_idle(u), close(u), release(u)}
    <3>1. CASE wants_link(u) BY <2>1, <3>1 DEF on_hold
    <3>2. CASE ~wants_link(u) /\ hold = "none" BY <2>1, <3>2 DEF on_hold
    <3>3. CASE ~wants_link(u) /\ hold # "none" BY <2>1, <3>3 DEF on_hold
    <3>4. QED BY <3>1, <3>2, <3>3
  <2>6. QED BY <2>3, <2>4, <2>5, ReleaseBooks
<1>4. QED BY <1>1, <1>2, <1>3

\* A frame from the TNC is counted once for each session too slow for it.
LEMMA OnTncFrameBooks ==
  ASSUME NEW r, RunOK(r), Owed(r, 0), NEW ev, NEW slow,
         Cardinality(slow) \in Nat
  PROVE  Owed(on_tnc_frame(r, ev, slow), 0)
<1>1. CASE ev.gen # r.generation BY <1>1 DEF on_tnc_frame
<1>2. CASE ev.gen = r.generation
  <2>1. PICK u : u = on_tnc_frame(r, ev, slow) OBVIOUS
  <2>2. /\ u.taken = r.taken /\ u.slow = r.slow + Cardinality(slow)
        /\ u.frames_up = r.frames_up /\ u.cleared = r.cleared
        /\ u.dropped = r.dropped + Cardinality(slow)
        /\ u.pending = r.pending /\ u.overrun = r.overrun
    BY <1>2, <2>1, BooksTypes DEF on_tnc_frame, Run
  <2>3. PICK a \in Nat, b \in Nat, c \in Nat, d \in Nat, e \in Nat, f \in Nat,
             m \in Nat :
          /\ a = r.taken /\ b = r.slow /\ c = r.frames_up /\ d = r.dropped
          /\ e = r.cleared /\ f = Len(r.pending) /\ m = Cardinality(slow)
    BY BooksTypes
  <2>4. a + b = c + d + e + f + 0 /\ r.overrun = 0 BY <2>3 DEF Owed
  <2>5. a + (b + m) = c + (d + m) + e + f + 0 BY <2>4
  <2>6. QED BY <2>1, <2>2, <2>3, <2>4, <2>5 DEF Owed
<1>3. QED BY <1>1, <1>2

\* A lost link moves no frame: those its writer had were counted as sent.
LEMMA OnTncClosedBooks ==
  ASSUME NEW r, RunOK(r), Owed(r, 0), NEW ev
  PROVE  Owed(on_tnc_closed(r, ev), 0)
<1>1. PICK d : d = drop_link(r) OBVIOUS
<1>2. RunOK(d) /\ Owed(d, 0)
  BY <1>1, DropLinkOK, RetryBooks, SameOwed, BooksTypes
<1>3. PICK a : a = [d EXCEPT !.attempt = 0] OBVIOUS
<1>4a. RunOK(a) BY <1>2, <1>3, AttemptOK
<1>4b. SameBooks(d, a) BY <1>2, <1>3, BooksTypes DEF SameBooks, Run
<1>4. RunOK(a) /\ Owed(a, 0) BY <1>2, <1>4a, <1>4b, SameOwed
<1>5. Owed(start_backoff(a), 0) /\ Owed([d EXCEPT !.state = "Idle"], 0)
  <2>1. SameBooks(d, [d EXCEPT !.state = "Idle"])
    BY <1>2, BooksTypes DEF SameBooks, Run
  <2>2. a \in Run BY <1>4 DEF RunOK
  <2>3. SameBooks(a, start_backoff(a)) BY <2>2, RetryBooks
  <2>4. QED BY <1>2, <1>4, <2>1, <2>3, SameOwed
<1>6. QED BY <1>1, <1>3, <1>5 DEF on_tnc_closed

\* A failed connect, and the end of a backoff.
LEMMA RetriedBooks ==
  ASSUME NEW r, RunOK(r), Owed(r, 0), NEW error
  PROVE  Owed(on_link_err(r, error), 0) /\ Owed(on_backoff_over(r), 0)
<1>1. PICK i : i = [r EXCEPT !.link = "Idle"] OBVIOUS
<1>2. RunOK(i) /\ i \in Run BY <1>1, LinkIdleOK, BooksTypes
<1>3. SameBooks(r, i) BY <1>1, RetryBooks, BooksTypes
<1>4. Owed(i, 0) BY <1>3, SameOwed
<1>5. PICK n : n = [i EXCEPT !.waiting = "none"] OBVIOUS
<1>6. n \in Run BY <1>2, <1>5 DEF Run
<1>7. SameBooks(i, n) BY <1>2, <1>5, RetryBooks
<1>8. Owed(n, 0) BY <1>4, <1>7, SameOwed
<1>9. /\ SameBooks(n, start_backoff(n)) /\ SameBooks(i, start_wait(i, error))
      /\ SameBooks(i, start_connect(i))
  BY <1>2, <1>6, RetryBooks
<1>10. /\ Owed(start_backoff(n), 0) /\ Owed(start_wait(i, error), 0)
       /\ Owed(start_connect(i), 0)
  BY <1>4, <1>8, <1>9, SameOwed
<1>11. Owed(go_idle(i), 0) BY <1>2, <1>4, GoIdleBooks
<1>12. QED BY <1>1, <1>5, <1>10, <1>11 DEF on_link_err, on_backoff_over

\* A link that comes up: stale frames are counted as dropped, and the others
\* as sent; they all fit, since no more are kept than a writer's queue takes.
LEMMA LinkUpBooks ==
  ASSUME NEW r, RunOK(r), Owed(r, 0), NEW exit_kiss \in BOOLEAN
  PROVE  Owed(link_up(r, exit_kiss), 0)
<1>1. PICK u : u = link_up(r, exit_kiss) OBVIOUS
<1>2. PICK over : over = Len(fresh(r)) - fits(r) OBVIOUS
<1>3. /\ u.taken = r.taken /\ u.slow = r.slow
      /\ u.frames_up = r.frames_up + fits(r)
      /\ u.dropped = r.dropped + r.stale + over /\ u.cleared = r.cleared
      /\ u.pending = <<>> /\ u.overrun = r.overrun + over
  BY <1>1, <1>2, BooksTypes DEF link_up, Run
<1>4. PICK a \in Nat, b \in Nat, c \in Nat, d \in Nat, e \in Nat, f \in Nat,
           m \in Nat :
        /\ a = r.taken /\ b = r.slow /\ c = r.frames_up /\ d = r.dropped
        /\ e = r.cleared /\ f = Len(r.pending) /\ m = r.stale
  BY BooksTypes
<1>5. Len(fresh(r)) = f - m /\ m <= f /\ f <= UPLINK_QUEUE_FRAMES
  BY <1>4, BooksTypes, DrainOK
<1>6. f - m \in Nat /\ f - m <= WRITER_QUEUE BY <1>5, BridgeAssumption
<1>7. fits(r) = f - m /\ over = 0 BY <1>2, <1>5, <1>6 DEF fits
<1>8. a + b = c + d + e + f + 0 /\ r.overrun = 0 BY <1>4 DEF Owed
<1>9. a + b = (c + (f - m)) + (d + m + 0) + e + 0 + 0 BY <1>5, <1>8
<1>10. Len(u.pending) = 0 /\ u.overrun = 0 BY <1>3, <1>7, <1>8
<1>11. QED BY <1>1, <1>3, <1>4, <1>7, <1>9, <1>10 DEF Owed

\* A link that comes up, and may be closed again at once.
LEMMA OnLinkOkBooks ==
  ASSUME NEW r, RunOK(r), Owed(r, 0), NEW exit_kiss \in BOOLEAN
  PROVE  Owed(on_link_ok(r, exit_kiss), 0)
<1>1. RunOK(link_up(r, exit_kiss)) /\ Owed(link_up(r, exit_kiss), 0)
  BY LinkUpOK, LinkUpBooks
<1>2. QED BY <1>1, ReleaseBooks DEF on_link_ok

\* The idle timer moves no frame, unless it closes the link.
LEMMA OnIdleElapsedBooks ==
  ASSUME NEW r, RunOK(r), Owed(r, 0)
  PROVE  Owed(on_idle_elapsed(r), 0)
<1>1. PICK u : u = [r EXCEPT !.idle_timer = FALSE] OBVIOUS
<1>2. RunOK(u) /\ Owed(u, 0)
  BY <1>1, IdleTimerOK, RetryBooks, SameOwed, BooksTypes
<1>3. QED BY <1>1, <1>2, ReleaseBooks DEF on_idle_elapsed

\* Every step keeps the books.
LEMMA NextBooks == TypeOK /\ BooksInvariant /\ [Next]_vars => BooksInvariant'
<1>. SUFFICES ASSUME TypeOK, BooksInvariant, [Next]_vars PROVE Owed(run', 0)
  BY DEF BooksInvariant, Owed
<1>. RunOK(run) BY DEF TypeOK
<1>. Owed(run, 0) BY DEF BooksInvariant
<1>0. run \in Run /\ run.settings \in TncSettings BY DEF RunOK, Run
<1>1. CASE TakeApp
  <2>1. Head(appQ) \in AppEvents
    BY <1>1, TakenOK, BridgeAssumption DEF TakeApp, TypeOK
  <2>2. QED BY <1>1, <2>1, OnAppBooks DEF TakeApp
<1>2. CASE TakeTncFrame
  BY <1>2, OnTncFrameBooks, SlowCounted DEF TakeTncFrame
<1>3. CASE TakeTncClosed BY <1>3, OnTncClosedBooks DEF TakeTncClosed
<1>4. CASE ConnectOk BY <1>4, OnLinkOkBooks DEF ConnectOk
<1>5. CASE ConnectErr \/ BackoffOver
  BY <1>5, RetriedBooks DEF ConnectErr, BackoffOver
<1>6. CASE IdleElapsed BY <1>6, OnIdleElapsedBooks DEF IdleElapsed
<1>7. CASE Shutdown
  <2>1. PICK d : d = disconnect(run) OBVIOUS
  <2>2. RunOK(d) /\ Owed(d, 0) BY <2>1, DisconnectOK, DisconnectBooks
  <2>3. run' = [d EXCEPT !.phase = "stopping", !.ending = run.writer_tx]
    BY <1>7, <2>1 DEF Shutdown
  <2>4. SameBooks(d, run') BY <2>2, <2>3 DEF SameBooks, RunOK, Run
  <2>5. QED BY <2>2, <2>4, SameOwed
<1>8. CASE Stopped \/ FrameAges
  <2>1. SameBooks(run, run') BY <1>0, <1>8 DEF Stopped, FrameAges, SameBooks, Run
  <2>2. QED BY <2>1, SameOwed
<1>9. CASE CmdSettings
  BY <1>9, CmdBooks, BridgeAssumption DEF CmdSettings
<1>10. CASE CmdConnector \/ CmdHold
  BY <1>0, <1>10, CmdBooks, BridgeAssumption DEF CmdConnector, CmdHold
<1>11. CASE \E l \in DOMAIN run.links : ReaderStep(l) \/ WriterStep(l)
  <2>. PICK l \in DOMAIN run.links : ReaderStep(l) \/ WriterStep(l) BY <1>11
  <2>1. run' = run \/ \E link \in Link : run' = set_link(l, link)
    BY LinkStepIs
  <2>2. ASSUME NEW link, run' = set_link(l, link) PROVE SameBooks(run, run')
    <3>1. PICK links : run' = [run EXCEPT !.links = links]
      BY <2>2 DEF set_link
    <3>2. QED BY <1>0, <3>1 DEF SameBooks, Run
  <2>3. QED BY <2>1, <2>2, SameOwed
<1>12. CASE \/ UNCHANGED vars
            \/ \E id \in Sessions : AppOpen(id) \/ AppClose(id) \/ AppSend(id)
  <2>1. run' = run BY <1>12 DEF AppOpen, AppClose, AppSend, vars
  <2>2. QED BY <2>1
<1>13. QED
  BY <1>1, <1>2, <1>3, <1>4, <1>5, <1>6, <1>7, <1>8, <1>9, <1>10, <1>11,
     <1>12 DEF Next, Loop

\* Whatever happens to sessions and links: a frame taken from an app is
\* counted as sent or dropped, is pending, or was discarded by a deliberate
\* close; and app_ready never lets one through to a full writer.
THEOREM FramesSafe == Spec => [](FramesAccounted /\ WriterNeverOverrun)
<1>1. Init => BooksInvariant
  <2>. SUFFICES ASSUME Init PROVE BooksInvariant OBVIOUS
  <2>1. PICK s : run = New(s) \/ run = start_connect(New(s)) BY DEF Init
  <2>2. Owed(New(s), 0)
    <3>1. PICK n : n = New(s) OBVIOUS
    <3>2. /\ n.taken = 0 /\ n.slow = 0 /\ n.frames_up = 0 /\ n.dropped = 0
          /\ n.cleared = 0 /\ n.pending = <<>> /\ n.overrun = 0
      BY <3>1 DEF New
    <3>3. Len(n.pending) = 0 BY <3>2
    <3>4. QED BY <3>1, <3>2, <3>3 DEF Owed
  <2>3. SameBooks(New(s), start_connect(New(s)))
    BY DEF SameBooks, start_connect, New
  <2>4. QED BY <2>1, <2>2, <2>3, SameOwed DEF BooksInvariant
<1>2. TypeOK /\ BooksInvariant => FramesAccounted /\ WriterNeverOverrun
  <2>. SUFFICES ASSUME TypeOK, BooksInvariant
                PROVE  FramesAccounted /\ WriterNeverOverrun
    OBVIOUS
  <2>1. RunOK(run) /\ Owed(run, 0) BY DEF TypeOK, BooksInvariant
  <2>2. PICK c \in Nat, d \in Nat, e \in Nat, f \in Nat :
          /\ c = run.frames_up /\ d = run.dropped /\ e = run.cleared
          /\ f = Len(run.pending)
    BY <2>1, BooksTypes
  <2>3. run.taken + run.slow = c + d + e + f + 0 /\ run.overrun = 0
    BY <2>1, <2>2 DEF Owed
  <2>4. c + d + e + f + 0 = c + d + e + f OBVIOUS
  <2>5. QED BY <2>2, <2>3, <2>4 DEF FramesAccounted, WriterNeverOverrun
<1>3. QED BY <1>1, <1>2, NextBooks, TypeCorrect, PTL DEF Spec
\* For every size of the queues, app_ready holds a frame back whenever the writer is full:
\* none reaches a writer that has no room for it.
THEOREM NeverOverrun == Spec => []WriterNeverOverrun
BY FramesSafe, PTL
==============================================================================
