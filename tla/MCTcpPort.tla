------------------------------ MODULE MCTcpPort ------------------------------
(***************************************************************************)
(* A TCP port for TLC: the server with its sessions, and the framing of    *)
(* the bytes that a session reads.  The two share no state here, and each  *)
(* property is about one of them: one of them runs in a behaviour, and the *)
(* other rests where it started.                                           *)
(***************************************************************************)
EXTENDS TcpServer

VARIABLES
  active,   \* the component that takes steps
  k_kind, k_sent, k_wire, k_buf, k_in_frame, k_pending, k_got, k_end

\* Two clients; the port takes one, or two that have the one address that it allows.
MCPeer == [c \in Conns |-> c]
One == [max |-> 1, allow |-> {}]
Some == [max |-> 2, allow |-> {1}]
MCLives == {One, Some}

\* What is on the wire when the bridge joins: nothing, or the end of a frame.
Anywhere == {<<>>, <<0, 219>>, <<220, 192>>, <<192>>}

Kiss == INSTANCE KissStream WITH
  Commands <- {0, 1, 16}, Bytes <- {1, 192, 219}, MaxData <- 1, MaxFrames <- 2, Joined <- Anywhere,
  MaxSize <- 4, Chunk <- 3, kind <- k_kind, sent <- k_sent, wire <- k_wire, buf <- k_buf,
  in_frame <- k_in_frame, pending <- k_pending, got <- k_got, end <- k_end

kiss_vars == <<k_kind, k_sent, k_wire, k_buf, k_in_frame, k_pending, k_got, k_end>>
all == <<active, vars, kiss_vars>>

------------------------------------------------------------------------------
\* A step of one component, while the others rest.
AsTcp(A) == active = "server" /\ A /\ UNCHANGED <<active, kiss_vars>>
AsKiss(A) == active = "kiss" /\ A /\ UNCHANGED <<active, vars>>

\* One component starts as it may; where the others rest does not matter.
MCInit ==
  /\ active \in {"server", "kiss"}
  /\ Init /\ (active # "server" => live = One)
  /\ Kiss!Init /\ (active # "kiss" => k_kind = "stream" /\ k_wire = <<>>)

MCNext ==
  \/ AsTcp(Next)
  \/ AsKiss(Kiss!Next)

\* The fairness of each component's own specification.  Only the active one has steps, so that
\* fairness for one step of each at a time is fairness for all of them.
Fair1 ==
  \/ AsTcp(PortStep)
Fair2 ==
  \/ AsTcp(BridgeTakes)
Fair3 ==
  \/ AsTcp(SessionStep(1))
Fair4 ==
  \/ AsTcp(SessionStep(2))
Fair5 ==
  \/ AsTcp(Kicked(1))
Fair6 ==
  \/ AsTcp(Kicked(2))
Fair7 ==
  \/ AsTcp(SocketOver(1))
Fair8 ==
  \/ AsTcp(SocketOver(2))

MCSpec ==
  /\ MCInit /\ [][MCNext]_all
  /\ WF_all(Fair1) /\ WF_all(Fair2) /\ WF_all(Fair3) /\ WF_all(Fair4) /\ SF_all(Fair5) /\ SF_all(Fair6)
  /\ SF_all(Fair7) /\ SF_all(Fair8)

\* The server alone.
KickSpec == MCSpec /\ active = "server"

------------------------------------------------------------------------------
\* KissStream.

\* From encode at one end, through reads of any length, to decode at the other.  A KissReader
\* returns the frames as they were written, in order, none twice, and all of them when it
\* reports the end of the stream.  A phone's reader goes on after an overflow: frames are
\* lost with it, but each that it returns is a whole one that was written, in order.
Intact == active = "kiss" => Kiss!Intact
==============================================================================
