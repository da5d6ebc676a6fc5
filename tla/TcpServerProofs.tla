---------------------------- MODULE TcpServerProofs ----------------------------
(***************************************************************************)
(* Proofs about a tcp-server port, for every finite set of connections and *)
(* all settings: the atomic count is the number of sessions that hold a    *)
(* place, no client is admitted beyond max_clients, and the bridge keeps   *)
(* no session that is over.                                                *)
(*                                                                         *)
(* Only Accept takes a place, only Opened (with the bridge gone) and Shut  *)
(* give one back, and each of them moves the task of its session in the    *)
(* same step; every other step leaves the places as they are.  What the    *)
(* bridge knows is followed through the queue: the end of a session is in  *)
(* it, behind its begin, until the bridge has taken it.                    *)
(***************************************************************************)
EXTENDS TcpServer, FiniteSetTheorems, TLAPS

\* Where a session's task holds a place.
Placed == {"opening", "run", "frame", "write", "closing"}
Places == {c \in Conns : sess[c].pc \in Placed}

\* The inductive invariant.
CountInv ==
  /\ DOMAIN sess = Conns /\ live \in Lives
  /\ count \in Nat /\ count = Cardinality(Places)

LEMMA PlacesFinite == IsFiniteSet(Places)
<1>1. IsFiniteSet(Conns) BY TcpServerAssumption
<1>2. Places \subseteq Conns BY DEF Places
<1>3. QED BY <1>1, <1>2, FS_Subset

\* A place is taken.
LEMMA Taken ==
  ASSUME CountInv, NEW c \in Conns, c \notin Places, Places' = Places \cup {c},
         DOMAIN sess' = Conns, live' \in Lives, count' = count + 1
  PROVE  CountInv'
<1>1. Cardinality(Places \cup {c}) = Cardinality(Places) + 1
  BY PlacesFinite, FS_AddElement
<1>2. QED BY <1>1 DEF CountInv

\* A place is given back.
LEMMA GivenBack ==
  ASSUME CountInv, NEW c \in Conns, c \in Places, Places' = Places \ {c},
         DOMAIN sess' = Conns, live' \in Lives, count' = count - 1
  PROVE  CountInv'
<1>1. Cardinality(Places \ {c}) = Cardinality(Places) - 1
  BY PlacesFinite, FS_RemoveElement
<1>2. Cardinality(Places \ {c}) \in Nat
  <2>1. IsFiniteSet(Places \ {c}) BY PlacesFinite, FS_RemoveElement
  <2>2. QED BY <2>1, FS_CardinalityType
<1>3. QED BY <1>1, <1>2 DEF CountInv

\* Nothing is taken or given back.
LEMMA Kept ==
  ASSUME CountInv, Places' = Places, DOMAIN sess' = Conns, live' \in Lives, count' = count
  PROVE  CountInv'
BY DEF CountInv

LEMMA InitCount == Init => CountInv
<1>. SUFFICES ASSUME Init PROVE CountInv OBVIOUS
<1>1. Places = {} BY DEF Init, Places, Placed
<1>2. Cardinality(Places) = 0 BY <1>1, FS_EmptySet
<1>3. QED BY <1>2 DEF Init, CountInv

\* A client that is admitted gets a place, and there was one.
LEMMA AcceptCount ==
  ASSUME CountInv, NEW c \in Conns, Accept(c), sess[c].pc = "none"
  PROVE  /\ CountInv'
         /\ sess'[c].pc = "opening" => live.max = 0 \/ Cardinality(Places') <= live.max
<1>1. CASE allowed(c) /\ under_limit(c)
  <2>1. /\ count' = count + 1 /\ live' = live
        /\ sess' = [sess EXCEPT ![c].pc = "opening"]
    BY <1>1 DEF Accept
  <2>2. c \notin Places /\ Places' = Places \cup {c}
    BY <2>1 DEF CountInv, Places, Placed
  <2>3. DOMAIN sess' = Conns /\ live' \in Lives BY <2>1 DEF CountInv
  <2>4. CountInv' BY <2>1, <2>2, <2>3, Taken
  <2>5. live.max \in Nat BY TcpServerAssumption DEF CountInv
  <2>6. live.max = 0 \/ count + 1 <= live.max BY <1>1, <2>5 DEF under_limit, CountInv
  <2>7. Cardinality(Places') = count + 1 BY <2>1, <2>4 DEF CountInv
  <2>8. QED BY <2>4, <2>6, <2>7
<1>2. CASE ~(allowed(c) /\ under_limit(c))
  <2>1. count' = count /\ live' = live /\ sess' = sess BY <1>2 DEF Accept
  <2>2. Places' = Places BY <2>1 DEF Places
  <2>3. CountInv' BY <2>1, <2>2, Kept DEF CountInv
  <2>4. sess'[c].pc # "opening" BY <2>1
  <2>5. QED BY <2>3, <2>4
<1>3. QED BY <1>1, <1>2

\* The task of a session goes on without taking or giving back its place.
LEMMA Moves ==
  ASSUME CountInv, NEW c \in Conns, NEW pc, sess[c].pc \in Placed <=> pc \in Placed,
         sess' = [sess EXCEPT ![c].pc = pc], live' = live, count' = count
  PROVE  CountInv'
<1>1. Places' = Places BY DEF CountInv, Places
<1>2. QED BY <1>1, Kept DEF CountInv

\* The task of a session goes on and gives back its place.
LEMMA Leaves ==
  ASSUME CountInv, NEW c \in Conns, NEW pc, sess[c].pc \in Placed, pc \notin Placed,
         sess' = [sess EXCEPT ![c].pc = pc], live' = live, count' = count - 1
  PROVE  CountInv'
<1>1. c \in Places /\ Places' = Places \ {c} BY DEF CountInv, Places
<1>2. QED BY <1>1, GivenBack DEF CountInv

LEMMA SessionCount ==
  ASSUME CountInv, NEW c \in Conns,
         Opened(c) \/ ReadFrame(c) \/ FrameSent(c) \/ WriteFrame(c) \/ Written(c)
         \/ Kicked(c) \/ Shut(c) \/ Told(c)
  PROVE  CountInv'
<1>1. CASE Opened(c)
  <2>1. CASE Step(c, "run") /\ UNCHANGED <<sock, count>>
    BY <1>1, <2>1, Moves DEF Opened, Step, Session, Placed
  <2>2. CASE Step(c, "gone") /\ count' = count - 1
    <3>1. /\ sess[c].pc \in Placed /\ live' = live /\ count' = count - 1
          /\ sess' = [sess EXCEPT ![c].pc = "gone"]
      BY <1>1, <2>2 DEF Opened, Step, Session, Placed
    <3>2. "gone" \notin Placed BY DEF Placed
    <3>3. QED BY <3>1, <3>2, Leaves
  <2>3. QED BY <1>1, <2>1, <2>2 DEF Opened
<1>2. CASE ReadFrame(c)
  <2>1. CASE sess' = [sess EXCEPT ![c] = [pc |-> "frame", frames |-> @.frames + 1]]
    <3>1. Places' = Places BY <1>2, <2>1 DEF ReadFrame, Session, CountInv, Places, Placed
    <3>2. DOMAIN sess' = Conns /\ live' \in Lives /\ count' = count
      BY <1>2, <2>1 DEF ReadFrame, CountInv
    <3>3. QED BY <3>1, <3>2, Kept
  <2>2. CASE Step(c, "closing") BY <1>2, <2>2, Moves DEF ReadFrame, Step, Session, Placed
  <2>3. QED BY <1>2, <2>1, <2>2 DEF ReadFrame
<1>3. CASE FrameSent(c)
  <2>1. CASE Step(c, "run") BY <1>3, <2>1, Moves DEF FrameSent, Step, Session, Placed
  <2>2. CASE Step(c, "closing") BY <1>3, <2>2, Moves DEF FrameSent, Step, Session, Placed
  <2>3. QED BY <1>3, <2>1, <2>2 DEF FrameSent
<1>4. CASE WriteFrame(c) BY <1>4, Moves DEF WriteFrame, Step, Session, Placed
<1>5. CASE Written(c)
  <2>1. CASE Step(c, "run") BY <1>5, <2>1, Moves DEF Written, Step, Session, Placed
  <2>2. CASE Step(c, "closing") BY <1>5, <2>2, Moves DEF Written, Step, Session, Placed
  <2>3. QED BY <1>5, <2>1, <2>2 DEF Written
<1>6. CASE Kicked(c) BY <1>6, Moves DEF Kicked, Step, Session, Placed
<1>7. CASE Shut(c)
  <2>1. /\ sess[c].pc \in Placed /\ live' = live /\ count' = count - 1
        /\ sess' = [sess EXCEPT ![c].pc = "tell"]
    BY <1>7 DEF Shut, Step, Session, Placed
  <2>2. "tell" \notin Placed BY DEF Placed
  <2>3. QED BY <2>1, <2>2, Leaves
<1>8. CASE Told(c) BY <1>8, Moves DEF Told, Step, Session, Placed
<1>9. QED BY <1>1, <1>2, <1>3, <1>4, <1>5, <1>6, <1>7, <1>8

LEMMA OthersCount ==
  ASSUME CountInv,
         \/ bind \/ Retry \/ Stops \/ BridgeTakes \/ BridgeEnds \/ StopPort \/ UNCHANGED vars
         \/ \E l \in Lives : Edit(l)
         \/ \E c \in Conns : Kick(c) \/ Connect(c) \/ Leave(c)
  PROVE  CountInv' /\ sess' = sess
<1>1. sess' = sess /\ count' = count
  BY DEF bind, Retry, Stops, BridgeTakes, BridgeEnds, StopPort, Edit, Kick, Connect, Leave, vars
<1>2. live' \in Lives
  BY DEF CountInv, bind, Retry, Stops, BridgeTakes, BridgeEnds, StopPort, Edit, Kick, Connect, Leave, vars
<1>3. Places' = Places BY <1>1 DEF Places
<1>4. QED BY <1>1, <1>2, <1>3, Kept DEF CountInv

\* A connection that waits to be accepted never had a session.
SockInv ==
  /\ DOMAIN sess = Conns /\ DOMAIN sock = Conns
  /\ \A c \in Conns : sock[c] \in {"new", "syn"} => sess[c].pc = "none"

LEMMA NextSock == SockInv /\ [Next]_vars => SockInv'
<1>. SUFFICES ASSUME SockInv, [Next]_vars PROVE SockInv' OBVIOUS
<1>1. CASE \/ bind \/ Retry \/ BridgeTakes \/ BridgeEnds \/ StopPort \/ UNCHANGED vars
           \/ \E l \in Lives : Edit(l)
           \/ \E c \in Conns : Kick(c)
  <2>1. sess' = sess /\ sock' = sock
    BY <1>1 DEF bind, Retry, BridgeTakes, BridgeEnds, StopPort, Edit, Kick, vars
  <2>2. QED BY <2>1 DEF SockInv
<1>2. CASE Stops BY <1>2 DEF Stops, SockInv
<1>3. ASSUME NEW c \in Conns, Accept(c) PROVE SockInv'
  BY <1>3 DEF Accept, SockInv
<1>4. ASSUME NEW c \in Conns, Opened(c) PROVE SockInv'
  BY <1>4 DEF Opened, Step, Session, SockInv
<1>5. ASSUME NEW c \in Conns,
             ReadFrame(c) \/ FrameSent(c) \/ WriteFrame(c) \/ Written(c) \/ Kicked(c) \/ Told(c)
      PROVE  SockInv'
  <2>1. sock' = sock /\ sess[c].pc # "none"
    BY <1>5 DEF ReadFrame, FrameSent, WriteFrame, Written, Kicked, Told, Session
  <2>2. \E r : sess' = [sess EXCEPT ![c] = r]
    BY <1>5 DEF ReadFrame, FrameSent, WriteFrame, Written, Kicked, Told, Step
  <2>3. QED BY <2>1, <2>2 DEF SockInv
<1>6. ASSUME NEW c \in Conns, Shut(c) PROVE SockInv'
  BY <1>6 DEF Shut, Step, Session, SockInv
<1>7. ASSUME NEW c \in Conns, Connect(c) \/ Leave(c) PROVE SockInv'
  BY <1>7 DEF Connect, Leave, SockInv
<1>8. QED BY <1>1, <1>2, <1>3, <1>4, <1>5, <1>6, <1>7 DEF Next

LEMMA NextCount == SockInv /\ CountInv /\ [Next]_vars => CountInv'
<1>. SUFFICES ASSUME SockInv, CountInv, [Next]_vars PROVE CountInv' OBVIOUS
<1>1. ASSUME NEW c \in Conns, Accept(c) PROVE CountInv'
  <2>1. sess[c].pc = "none" BY <1>1 DEF Accept, SockInv
  <2>2. QED BY <1>1, <2>1, AcceptCount
<1>2. QED BY <1>1, SessionCount, OthersCount DEF Next

\* However sessions begin and end, for any number of connections: the atomic count of the
\* port is the number of sessions that hold a place, so that no way out leaks one.
THEOREM CountSafe == Spec => []CountExact
<1>1. Init => SockInv BY DEF Init, SockInv
<1>2. CountInv => CountExact
  <2>1. Places = {c \in Conns : Counted(c)} BY DEF Places, Placed, Counted, Session
  <2>2. QED BY <2>1 DEF CountInv, CountExact
<1>3. QED BY <1>1, <1>2, InitCount, NextSock, NextCount, PTL DEF Spec

\* For any number of connections and all settings: a client is admitted only to a place that
\* max_clients leaves, whatever the bridge has heard of.
THEOREM LimitSafe == Spec => NeverOverMax
<1>1. Init => SockInv BY DEF Init, SockInv
<1>2. SockInv /\ CountInv /\ [Next]_vars =>
        [\A c \in Conns : sess[c].pc = "none" /\ sess'[c].pc = "opening" =>
           live.max = 0 \/ Cardinality({d \in Conns : Counted(d)'}) <= live.max]_vars
  <2>. SUFFICES ASSUME SockInv, CountInv, Next,
                       NEW c \in Conns, sess[c].pc = "none", sess'[c].pc = "opening"
                PROVE  live.max = 0 \/ Cardinality({d \in Conns : Counted(d)'}) <= live.max
    OBVIOUS
  <2>1. Places' = {d \in Conns : Counted(d)'} BY DEF Places, Placed, Counted, Session
  <2>2. Accept(c)
    <3>1. ~UNCHANGED sess OBVIOUS
    <3>2. \A d \in Conns : Opened(d) \/ ReadFrame(d) \/ FrameSent(d) \/ WriteFrame(d)
                           \/ Written(d) \/ Kicked(d) \/ Shut(d) \/ Told(d) => FALSE
      BY DEF SockInv, Opened, ReadFrame, FrameSent, WriteFrame, Written, Kicked, Shut, Told, Step, Session
    <3>3. \A d \in Conns : Accept(d) => d = c BY DEF SockInv, Accept
    <3>4. QED BY <3>1, <3>2, <3>3, OthersCount DEF Next
  <2>3. QED BY <2>1, <2>2, AcceptCount
<1>3. QED BY <1>1, <1>2, InitCount, NextSock, NextCount, PTL DEF Spec, NeverOverMax

------------------------------------------------------------------------------
(* What the bridge is told of a session. *)

\* No two connections have one name.
Distinct == \A c, d \in Conns : Peer[c] = Peer[d] => c = d

Events == [kind : {"opened", "frame", "closed"}, c : Conns]
Pcs == {"none", "opening", "run", "frame", "write", "closing", "tell", "gone"}
SessOK == sess \in [Conns -> [pc : Pcs, frames : Nat]]
TellOK ==
  /\ SessOK /\ queue \in Seq(Events)
  /\ \A p \in DOMAIN known : known[p] \in Conns /\ Peer[known[p]] = p

\* The bridge has not heard of a session.
Unheard(c) == Peer[c] \notin DOMAIN known /\ \A i \in 1..Len(queue) : queue[i].c # c

\* The end of a session is in the queue, behind its begin, unless the bridge has taken it.
Settled(c) ==
  /\ Peer[c] \in DOMAIN known => \E j \in 1..Len(queue) : queue[j] = [kind |-> "closed", c |-> c]
  /\ \A i \in 1..Len(queue) : queue[i] = [kind |-> "opened", c |-> c] =>
       \E j \in 1..Len(queue) : i < j /\ queue[j] = [kind |-> "closed", c |-> c]

\* The strengthening of NoGhosts: what it says with an empty queue, with the queue as it is.
GhostInv ==
  hears => \A c \in Conns : /\ sess[c].pc \in {"none", "opening"} => Unheard(c)
                            /\ sess[c].pc = "gone" => Settled(c)

\* An event of one session changes nothing for the others.
LEMMA PutOthers ==
  ASSUME TellOK, NEW c \in Conns, NEW k \in {"opened", "frame", "closed"},
         queue' = Append(queue, [kind |-> k, c |-> c]), known' = known
  PROVE  \A d \in Conns \ {c} : (Unheard(d) => Unheard(d)') /\ (Settled(d) => Settled(d)')
<1>. DEFINE n == Len(queue)
<1>1. n \in Nat /\ Len(queue') = n + 1 /\ queue'[n + 1] = [kind |-> k, c |-> c]
      /\ \A i \in 1..n : queue'[i] = queue[i]
  BY DEF TellOK, Events
<1>. HIDE DEF n
<1>2. ASSUME NEW d \in Conns \ {c} PROVE (Unheard(d) => Unheard(d)') /\ (Settled(d) => Settled(d)')
  <2>1. \A i \in 1..(n + 1) : i \in 1..n \/ i = n + 1 BY <1>1
  <2>2. \A i \in 1..n : i \in 1..(n + 1) BY <1>1
  <2>3. Unheard(d) => Unheard(d)'
    BY <1>1, <2>1 DEF Unheard, n
  <2>4. Settled(d) => Settled(d)'
    <3>1. ASSUME Settled(d), NEW i \in 1..(n + 1), queue'[i] = [kind |-> "opened", c |-> d]
          PROVE  \E j \in 1..(n + 1) : i < j /\ queue'[j] = [kind |-> "closed", c |-> d]
      <4>1. i \in 1..n /\ queue[i] = [kind |-> "opened", c |-> d] BY <1>1, <2>1, <3>1
      <4>2. PICK j \in 1..n : i < j /\ queue[j] = [kind |-> "closed", c |-> d] BY <3>1, <4>1 DEF Settled, n
      <4>3. QED BY <1>1, <2>2, <4>2
    <3>2. ASSUME Settled(d), Peer[d] \in DOMAIN known'
          PROVE  \E j \in 1..(n + 1) : queue'[j] = [kind |-> "closed", c |-> d]
      <4>1. PICK j \in 1..n : queue[j] = [kind |-> "closed", c |-> d] BY <3>2 DEF Settled, n
      <4>2. QED BY <1>1, <2>2, <4>1
    <3>3. QED BY <1>1, <3>1, <3>2 DEF Settled
  <2>5. QED BY <2>3, <2>4
<1>3. QED BY <1>2

\* The end of a session, put into the queue, is behind its begin.
LEMMA PutClosed ==
  ASSUME TellOK, NEW c \in Conns, queue' = Append(queue, [kind |-> "closed", c |-> c])
  PROVE  Settled(c)'
<1>. DEFINE n == Len(queue)
<1>1. n \in Nat /\ Len(queue') = n + 1 /\ queue'[n + 1] = [kind |-> "closed", c |-> c]
  BY DEF TellOK, Events
<1>. HIDE DEF n
<1>2. n + 1 \in 1..(n + 1) BY <1>1
<1>3. \A i \in 1..(n + 1) : queue'[i] = [kind |-> "opened", c |-> c] => i < n + 1
  <2>. SUFFICES ASSUME NEW i \in 1..(n + 1), queue'[i] = [kind |-> "opened", c |-> c], i = n + 1 PROVE FALSE
    BY <1>1
  <2>1. [kind |-> "opened", c |-> c].kind = [kind |-> "closed", c |-> c].kind BY <1>1
  <2>2. QED BY <2>1
<1>4. QED BY <1>1, <1>2, <1>3 DEF Settled

\* The bridge takes an event: a session that it knows nothing of stays so, and one that is over
\* is settled still.
LEMMA TakenSettles ==
  ASSUME TellOK, Distinct, BridgeTakes, NEW d \in Conns
  PROVE  (Unheard(d) => Unheard(d)') /\ (Settled(d) => Settled(d)')
<1>. DEFINE n == Len(queue) e == queue[1]
<1>0. n \in Nat \ {0} /\ e \in Events /\ Head(queue) = e BY DEF BridgeTakes, TellOK
<1>1. Len(queue') = n - 1 /\ \A i \in 1..(n - 1) : queue'[i] = queue[i + 1]
  BY DEF BridgeTakes, TellOK
<1>2. e.c \in Conns /\ e.kind \in {"opened", "frame", "closed"} /\ e = [kind |-> e.kind, c |-> e.c]
  BY <1>0 DEF Events
<1>3. /\ e.kind = "opened" => DOMAIN known' = DOMAIN known \cup {Peer[e.c]}
      /\ e.kind = "closed" => DOMAIN known' = DOMAIN known \ {Peer[e.c]}
      /\ e.kind = "frame" => known' = known
  BY <1>0 DEF BridgeTakes
<1>. HIDE DEF n, e
<1>4. \A i \in 1..(n - 1) : i + 1 \in 1..n /\ i + 1 # 1 BY <1>0
<1>5. \A j \in 1..n : j # 1 => j - 1 \in 1..(n - 1) /\ (j - 1) + 1 = j BY <1>0
<1>6. 1 \in 1..n BY <1>0
<1>7. Unheard(d) => Unheard(d)'
  <2>. SUFFICES ASSUME Unheard(d) PROVE Unheard(d)' OBVIOUS
  <2>1. e.c # d BY <1>6 DEF Unheard, n, e
  <2>2. Peer[e.c] # Peer[d] BY <1>2, <2>1 DEF Distinct
  <2>3. Peer[d] \notin DOMAIN known' BY <1>2, <1>3, <2>2 DEF Unheard
  <2>4. \A i \in 1..(n - 1) : queue'[i].c # d BY <1>1, <1>4 DEF Unheard, n
  <2>5. QED BY <1>1, <2>3, <2>4 DEF Unheard
<1>8. Settled(d) => Settled(d)'
  <2>. SUFFICES ASSUME Settled(d) PROVE Settled(d)' OBVIOUS
  <2>1. ASSUME NEW i \in 1..(n - 1), queue'[i] = [kind |-> "opened", c |-> d]
        PROVE  \E j \in 1..(n - 1) : i < j /\ queue'[j] = [kind |-> "closed", c |-> d]
    <3>1. i + 1 \in 1..n /\ queue[i + 1] = [kind |-> "opened", c |-> d] BY <1>1, <1>4, <2>1
    <3>2. PICK j \in 1..n : i + 1 < j /\ queue[j] = [kind |-> "closed", c |-> d] BY <3>1 DEF Settled, n
    <3>3. j - 1 \in 1..(n - 1) /\ i < j - 1 /\ (j - 1) + 1 = j BY <1>0, <2>1, <3>2
    <3>4. QED BY <1>1, <3>2, <3>3
  <2>2. ASSUME Peer[d] \in DOMAIN known'
        PROVE  \E j \in 1..(n - 1) : queue'[j] = [kind |-> "closed", c |-> d]
    <3>1. \E j \in 1..n : j # 1 /\ queue[j] = [kind |-> "closed", c |-> d]
      <4>1. CASE e = [kind |-> "closed", c |-> d]
        <5>1. e.kind = "closed" /\ e.c = d BY <4>1
        <5>2. QED BY <1>3, <2>2, <5>1
      <4>2. CASE e = [kind |-> "opened", c |-> d]
        <5>1. PICK j \in 1..n : 1 < j /\ queue[j] = [kind |-> "closed", c |-> d] BY <1>6, <4>2 DEF Settled, n, e
        <5>2. QED BY <1>0, <5>1
      <4>3. CASE e # [kind |-> "closed", c |-> d] /\ e # [kind |-> "opened", c |-> d]
        <5>1. Peer[d] \in DOMAIN known
          <6>1. e.kind = "opened" => Peer[e.c] # Peer[d] BY <1>2, <4>3 DEF Distinct
          <6>2. QED BY <1>2, <1>3, <2>2, <6>1
        <5>2. PICK j \in 1..n : queue[j] = [kind |-> "closed", c |-> d] BY <5>1 DEF Settled, n
        <5>3. j # 1 BY <4>3, <5>2 DEF e
        <5>4. QED BY <5>2, <5>3
      <4>4. QED BY <4>1, <4>2, <4>3
    <3>2. PICK j \in 1..n : j # 1 /\ queue[j] = [kind |-> "closed", c |-> d] BY <3>1
    <3>3. j - 1 \in 1..(n - 1) /\ (j - 1) + 1 = j BY <1>5, <3>2
    <3>4. QED BY <1>1, <3>2, <3>3
  <2>3. QED BY <1>1, <2>1, <2>2 DEF Settled
<1>9. QED BY <1>7, <1>8

\* The steps of a session's task: no event, or one event of the session.
SessionTells(c) ==
  Opened(c) \/ ReadFrame(c) \/ FrameSent(c) \/ WriteFrame(c) \/ Written(c) \/ Kicked(c) \/ Shut(c) \/ Told(c)

LEMMA StepMoves ==
  ASSUME SessOK, NEW c \in Conns, NEW pc \in Pcs, Step(c, pc)
  PROVE  SessOK' /\ sess'[c].pc = pc /\ \A d \in Conns \ {c} : sess'[d] = sess[d]
<1>. DEFINE r == [sess[c] EXCEPT !.pc = pc]
<1>1. r \in [pc : Pcs, frames : Nat] /\ r.pc = pc BY DEF SessOK
<1>2. sess' = [sess EXCEPT ![c] = r] BY DEF Step
<1>. HIDE DEF r
<1>3. QED BY <1>1, <1>2 DEF SessOK

LEMMA SessionMoves ==
  ASSUME SessOK, NEW c \in Conns, SessionTells(c)
  PROVE  /\ SessOK' /\ \A d \in Conns \ {c} : sess'[d] = sess[d]
         /\ sess'[c].pc \notin {"none", "opening"}
         /\ sess'[c].pc = "gone" => Opened(c) \/ Told(c)
<1>1. CASE ReadFrame(c) /\ sess' = [sess EXCEPT ![c] = [pc |-> "frame", frames |-> sess[c].frames + 1]]
  <2>1. [pc |-> "frame", frames |-> sess[c].frames + 1] \in [pc : Pcs, frames : Nat] BY DEF SessOK, Pcs
  <2>2. QED BY <1>1, <2>1 DEF SessOK
<1>2. CASE \E pc \in {"run", "write", "closing", "tell"} : Step(c, pc)
  <2>1. PICK pc \in {"run", "write", "closing", "tell"} : Step(c, pc) BY <1>2
  <2>2. pc \in Pcs BY DEF Pcs
  <2>3. QED BY <2>1, <2>2, StepMoves
<1>3. CASE (Opened(c) \/ Told(c)) /\ Step(c, "gone")
  <2>1. "gone" \in Pcs BY DEF Pcs
  <2>2. QED BY <1>3, <2>1, StepMoves
<1>4. QED
  BY <1>1, <1>2, <1>3 DEF SessionTells, Opened, ReadFrame, FrameSent, WriteFrame, Written, Kicked, Shut, Told

LEMMA NextTell == TellOK /\ [Next]_vars => TellOK'
<1>. SUFFICES ASSUME TellOK, [Next]_vars PROVE TellOK' OBVIOUS
<1>1. CASE BridgeTakes
  <2>1. Head(queue) \in Events /\ queue' \in Seq(Events) /\ sess' = sess BY <1>1 DEF BridgeTakes, TellOK
  <2>2. QED BY <1>1, <2>1 DEF BridgeTakes, TellOK, SessOK, Events
<1>2. CASE BridgeEnds BY <1>2 DEF BridgeEnds, TellOK, SessOK
<1>3. ASSUME NEW c \in Conns, SessionTells(c) PROVE TellOK'
  <2>1. known' = known
    BY <1>3 DEF SessionTells, Opened, ReadFrame, FrameSent, WriteFrame, Written, Kicked, Shut, Told
  <2>2. SessOK' BY <1>3, SessionMoves DEF TellOK
  <2>3. queue' = queue \/ \E k \in {"opened", "frame", "closed"} : queue' = Append(queue, [kind |-> k, c |-> c])
    BY <1>3 DEF SessionTells, Opened, ReadFrame, FrameSent, WriteFrame, Written, Kicked, Shut, Told, Put
  <2>4. \A k \in {"opened", "frame", "closed"} : [kind |-> k, c |-> c] \in Events BY DEF Events
  <2>5. queue' \in Seq(Events) BY <2>3, <2>4 DEF TellOK
  <2>6. QED BY <2>1, <2>2, <2>5 DEF TellOK
<1>4. ASSUME NEW c \in Conns, Accept(c) PROVE TellOK'
  <2>1. queue' = queue /\ known' = known /\ (sess' = sess \/ Step(c, "opening")) BY <1>4 DEF Accept, Step
  <2>2. "opening" \in Pcs BY DEF Pcs
  <2>3. SessOK' BY <2>1, <2>2, StepMoves DEF TellOK, SessOK
  <2>4. QED BY <2>1, <2>3 DEF TellOK
<1>5. CASE \/ bind \/ Retry \/ Stops \/ StopPort \/ UNCHANGED vars
           \/ \E l \in Lives : Edit(l)
           \/ \E c \in Conns : Kick(c) \/ Connect(c) \/ Leave(c)
  <2>1. sess' = sess /\ queue' = queue /\ known' = known
    BY <1>5 DEF bind, Retry, Stops, StopPort, Edit, Kick, Connect, Leave, vars
  <2>2. QED BY <2>1 DEF TellOK, SessOK
<1>6. QED BY <1>1, <1>2, <1>3, <1>4, <1>5 DEF Next, SessionTells

LEMMA NextGhost ==
  ASSUME SockInv, TellOK, Distinct, GhostInv, [Next]_vars
  PROVE  GhostInv'
<1>. SUFFICES ASSUME hears' PROVE GhostInv' BY DEF GhostInv
<1>0. hears
  BY DEF Next, bind, Retry, Stops, BridgeTakes, BridgeEnds, StopPort, Edit, Accept, Opened, ReadFrame, FrameSent,
         WriteFrame, Written, Kicked, Shut, Told, Kick, Connect, Leave, vars
<1>1. \A c \in Conns : /\ sess[c].pc \in {"none", "opening"} => Unheard(c)
                       /\ sess[c].pc = "gone" => Settled(c)
  BY <1>0 DEF GhostInv
<1>2. CASE BridgeTakes
  <2>1. sess' = sess BY <1>2 DEF BridgeTakes
  <2>2. QED BY <1>1, <1>2, <2>1, TakenSettles DEF GhostInv
<1>3. ASSUME NEW c \in Conns, SessionTells(c) PROVE GhostInv'
  <2>1. known' = known
    BY <1>3 DEF SessionTells, Opened, ReadFrame, FrameSent, WriteFrame, Written, Kicked, Shut, Told
  <2>2. /\ \A d \in Conns \ {c} : sess'[d] = sess[d]
        /\ sess'[c].pc \notin {"none", "opening"}
        /\ sess'[c].pc = "gone" => Opened(c) \/ Told(c)
    BY <1>3, SessionMoves DEF TellOK
  <2>3. queue' = queue \/ \E k \in {"opened", "frame", "closed"} : queue' = Append(queue, [kind |-> k, c |-> c])
    BY <1>3 DEF SessionTells, Opened, ReadFrame, FrameSent, WriteFrame, Written, Kicked, Shut, Told, Put
  <2>4. \A d \in Conns \ {c} : (Unheard(d) => Unheard(d)') /\ (Settled(d) => Settled(d)')
    <3>1. CASE queue' = queue BY <2>1, <3>1 DEF Unheard, Settled
    <3>2. QED BY <2>1, <2>3, <3>1, PutOthers
  <2>5. sess'[c].pc = "gone" => queue' = Append(queue, [kind |-> "closed", c |-> c])
    <3>1. CASE Opened(c)
      <4>1. Step(c, "run") BY <1>0, <3>1 DEF Opened
      <4>2. "run" \in Pcs BY DEF Pcs
      <4>3. sess'[c].pc = "run" BY <4>1, <4>2, StepMoves DEF TellOK
      <4>4. QED BY <4>3
    <3>2. CASE Told(c) BY <1>0, <3>2 DEF Told, Put
    <3>3. QED BY <2>2, <3>1, <3>2
  <2>6. sess'[c].pc = "gone" => Settled(c)' BY <2>5, PutClosed
  <2>7. QED BY <1>1, <2>2, <2>4, <2>6 DEF GhostInv
<1>4. ASSUME NEW c \in Conns, Accept(c) PROVE GhostInv'
  <2>1. sess[c].pc = "none" /\ queue' = queue /\ known' = known BY <1>4 DEF Accept, SockInv
  <2>2. sess' = sess \/ sess' = [sess EXCEPT ![c].pc = "opening"] BY <1>4 DEF Accept
  <2>3. \A d \in Conns \ {c} : sess'[d] = sess[d] BY <2>2 DEF TellOK, SessOK
  <2>4. sess'[c].pc \in {"none", "opening"}
    <3>1. CASE sess' = sess BY <2>1, <3>1
    <3>2. CASE Step(c, "opening")
      <4>1. "opening" \in Pcs BY DEF Pcs
      <4>2. QED BY <3>2, <4>1, StepMoves DEF TellOK
    <3>3. QED BY <2>2, <3>1, <3>2 DEF Step
  <2>5. QED BY <1>1, <2>1, <2>3, <2>4 DEF GhostInv, Unheard, Settled
<1>5. CASE \/ bind \/ Retry \/ Stops \/ StopPort \/ UNCHANGED vars
           \/ \E l \in Lives : Edit(l)
           \/ \E c \in Conns : Kick(c) \/ Connect(c) \/ Leave(c)
  <2>1. sess' = sess /\ queue' = queue /\ known' = known
    BY <1>5 DEF bind, Retry, Stops, StopPort, Edit, Kick, Connect, Leave, vars
  <2>2. QED BY <1>1, <2>1 DEF GhostInv, Unheard, Settled
<1>6. CASE BridgeEnds BY <1>6 DEF BridgeEnds
<1>7. QED BY <1>2, <1>3, <1>4, <1>5, <1>6 DEF Next, SessionTells

\* However full the bridge's queue is, and however sessions end: once it has taken what it was
\* told, it knows no session that is over, and none that it has not been told of.
THEOREM GhostsGone == Spec => []NoGhosts
<1>1. Init => SockInv /\ TellOK /\ GhostInv
  BY DEF Init, SockInv, TellOK, SessOK, Pcs, GhostInv, Unheard, Settled, Events
<1>2. SockInv /\ TellOK /\ (Distinct => GhostInv) /\ [Next]_vars => (Distinct => GhostInv)' BY NextGhost DEF Distinct
<1>3. TellOK /\ (Distinct => GhostInv) => NoGhosts
  <2>. SUFFICES ASSUME TellOK, Distinct => GhostInv, Distinct, hears, queue = <<>>, NEW p \in DOMAIN known
                PROVE  ~Session(known[p], {"none", "opening", "gone"})
    BY DEF NoGhosts, Distinct
  <2>1. GhostInv OBVIOUS
  <2>2. known[p] \in Conns /\ Peer[known[p]] = p BY DEF TellOK
  <2>3. ~Unheard(known[p]) BY <2>2 DEF Unheard
  <2>4. ~Settled(known[p]) BY <2>2 DEF Settled
  <2>5. QED BY <2>1, <2>2, <2>3, <2>4 DEF GhostInv, Session
<1>4. QED BY <1>1, <1>2, <1>3, NextSock, NextTell, PTL DEF Spec

=============================================================================
