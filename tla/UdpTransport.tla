---------------------------- MODULE UdpTransport ----------------------------
(***************************************************************************)
(* UDPTransport (transport/udp.py) and the network under it.               *)
(*                                                                         *)
(* A packet the harness sends is a Message, a telemetry packet coming back *)
(* is a Datagram.  Both travel in sets, so that losing, duplicating and    *)
(* reordering them are choices; the receive socket's kernel queue is the   *)
(* sequence inbox.  What the network may do is the constant Faults.        *)
(*                                                                         *)
(* The transport puts no identifier into a packet and reads none out of a  *)
(* reply: a Datagram's req says which request it answers, the code cannot  *)
(* see it, and no guard below depends on it.                               *)
(***************************************************************************)
EXTENDS Telemetry, Sequences

CONSTANTS
    Faults,         \* what may go wrong, a subset of Fault
    Latency,        \* how late an answer may be, see LatencyAssumption
    Timeout,        \* ticks a receive waits
    InboxCap,       \* datagrams the kernel queues on the receive socket
    FilterReplies,  \* allowed_reply_host and allowed_reply_apid are set
    NCases          \* length of the suite

Fault ==
    {"lose", "duplicate", "reorder", "foreign", "malformed",    \* network
     "send_error", "receive_error",                             \* local socket
     "recover", "restart", "others", "health_error"}            \* target

(***************************************************************************)
(* "timely":    every answer comes before its receive times out.           *)
(* "late":      an answer may miss its receive, but the next drain sees it.*)
(* "unbounded": an answer may come at any time.                            *)
(***************************************************************************)
LatencyAssumption == Latency \in {"timely", "late", "unbounded"}

ASSUME TransportAssumption ==
    /\ Faults \subseteq Fault
    /\ LatencyAssumption
    /\ Timeout \in Nat \ {0}
    /\ InboxCap \in Nat \ {0}
    /\ FilterReplies \in BOOLEAN
    /\ NCases \in Nat

Cases == 1 .. NCases

\* The three packets a case may cost, in the order they are sent.  The
\* liveness oracle's probe is its "after" packet.
Step == {"before", "case", "after"}
Rank(step) == CASE step = "before" -> 1 [] step = "case" -> 2 [] step = "after" -> 3

Message == [case : Cases, step : Step]

\* req = None: a packet of another sender, or of another application.
Datagram == [req : Message \cup {None}, counters : Counters \cup {None}]

ASSUME NoneIsNoPacket == None \notin Message /\ None \notin Datagram

VARIABLES
    uplink,     \* messages on their way to the target, or queued there
    downlink,   \* datagrams on their way to the harness
    inbox,      \* datagrams queued on _recv_sock
    lastError,  \* Transport.last_error: the operation that failed, or "none"
    remaining   \* ticks to the deadline of the receive that is running

transportVars == <<uplink, downlink, inbox, lastError, remaining>>

TransportTypeOK ==
    /\ uplink \subseteq Message
    /\ downlink \subseteq Datagram
    /\ inbox \in Seq(Datagram)
    /\ lastError \in {"none", "send", "receive"}
    /\ remaining \in 0 .. Timeout

TransportInit ==
    /\ uplink = {}
    /\ downlink = {}
    /\ inbox = <<>>
    /\ lastError = "none"
    /\ remaining = 0

-----------------------------------------------------------------------------
(***************************************************************************)
(* The network.  Without "reorder" each direction is first in, first out.  *)
(***************************************************************************)
SentBefore(m, n) ==
    \/ m.case < n.case
    \/ m.case = n.case /\ Rank(m.step) < Rank(n.step)

NextUp(m) ==
    /\ m \in uplink
    /\ "reorder" \notin Faults => \A n \in uplink : ~SentBefore(n, m)

NextDown(d) ==
    /\ d \in downlink
    /\ "reorder" \notin Faults /\ d.req # None =>
          \A x \in downlink : x.req # None => ~SentBefore(x.req, d.req)

\* What is left in flight once x has arrived.
AfterArrival(x, flight) ==
    {flight \ {x}} \cup (IF "duplicate" \in Faults THEN {flight} ELSE {})

LoseMessage ==
    /\ "lose" \in Faults
    /\ \E m \in uplink : uplink' = uplink \ {m}
    /\ UNCHANGED <<downlink, inbox, lastError, remaining>>

LoseDatagram ==
    /\ "lose" \in Faults
    /\ \E d \in downlink : downlink' = downlink \ {d}
    /\ UNCHANGED <<uplink, inbox, lastError, remaining>>

\* A datagram reaches the socket; the kernel drops it when the queue is full.
DeliverDatagram ==
    /\ \E d \in downlink :
          /\ NextDown(d)
          /\ downlink' \in AfterArrival(d, downlink)
          /\ inbox' = IF Len(inbox) < InboxCap THEN Append(inbox, d) ELSE inbox
    /\ UNCHANGED <<uplink, lastError, remaining>>

\* Telemetry of another host or another application.  Its content is of no
\* consequence when the filters are set.
ForeignDatagram ==
    /\ "foreign" \in Faults
    /\ \A d \in downlink : d.req # None
    /\ \E c \in (IF FilterReplies THEN {None} ELSE Counters \cup {None}) :
          downlink' = downlink \cup {[req |-> None, counters |-> c]}
    /\ UNCHANGED <<uplink, inbox, lastError, remaining>>

NetworkNext == LoseMessage \/ LoseDatagram \/ DeliverDatagram \/ ForeignDatagram

-----------------------------------------------------------------------------
(***************************************************************************)
(* The transport's operations.  Each clears last_error before it starts.   *)
(***************************************************************************)

\* Plausible errors: a drain that does nothing, a deadline set anew for every
\* datagram, filters that are not applied.
NoDrain == TRUE
FreshDeadline == Timeout
AcceptsAny(d) == TRUE

Send(m) ==
    /\ uplink' = uplink \cup {m}
    /\ lastError' = "none"

SendFails ==
    /\ "send_error" \in Faults
    /\ lastError' = "send"
    /\ uplink' = uplink

\* drain_stale_replies: one recvfrom on the non-blocking socket.  It leaves
\* last_error as it is.
DrainReply ==
    /\ inbox # <<>>
    /\ inbox' = Tail(inbox)
    /\ UNCHANGED <<uplink, downlink, lastError, remaining>>

\* The recvfrom that ends the drain: nothing is queued, or the socket reports
\* an error, which is swallowed and leaves the queue as it was.
DrainOver == inbox = <<>> \/ "receive_error" \in Faults

StartReceive == remaining' = Timeout

\* The deadline is fixed when receive starts: a datagram it skips does not
\* move it.
DeadlineAfterSkip == remaining

Accepts(d) == FilterReplies => d.req # None

\* recvfrom returns a datagram the filters let through: receive returns it.
Receive ==
    /\ remaining > 0
    /\ inbox # <<>>
    /\ Accepts(Head(inbox))
    /\ inbox' = Tail(inbox)
    /\ remaining' = 0
    /\ UNCHANGED <<uplink, downlink, lastError>>

\* recvfrom returns a datagram of another host or APID, and receive goes on.
SkipForeign ==
    /\ remaining > 0
    /\ inbox # <<>>
    /\ ~Accepts(Head(inbox))
    /\ inbox' = Tail(inbox)
    /\ remaining' = DeadlineAfterSkip
    /\ UNCHANGED <<uplink, downlink, lastError>>

ReceiveTimesOut ==
    /\ remaining = 0
    /\ UNCHANGED transportVars

ReceiveFails ==
    /\ "receive_error" \in Faults
    /\ remaining > 0
    /\ lastError' = "receive"
    /\ remaining' = 0
    /\ UNCHANGED <<uplink, downlink, inbox>>

Tick ==
    /\ remaining > 0
    /\ remaining' = remaining - 1
    /\ UNCHANGED <<uplink, downlink, inbox, lastError>>
=============================================================================
