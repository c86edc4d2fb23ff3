------------------------------- MODULE ZrtpSrtp -------------------------------
(***************************************************************************)
(* Media of the streams of one endpoint on its way to the peer: the 32-bit *)
(* index an RTP packet gets from its 16-bit sequence number, the replay    *)
(* windows of the built-in SRTP transform, and the life of the nodes that  *)
(* hold them, from the first packet of a key to the end of the SECURE      *)
(* state.                                                                  *)
(*                                                                         *)
(* A stream carries RTP or RTCP in a behaviour: a node has one window for  *)
(* each and neither touches the other.  An RTP index is estimated by both  *)
(* sides; an RTCP index is counted by the sender and travels in the        *)
(* packet.  The tag covers the index, so a packet is authentic if receiver *)
(* and sender have the same key and the same index.  The network loses,    *)
(* repeats and reorders packets, never by Reach packets or more.           *)
(***************************************************************************)
EXTENDS Integers, Functions

CONSTANTS
    Streams,
    Half,          \* 2^15: half of the RTP sequence numbers
    Width,         \* ZRTP_SRTP_WINDOW_WIDTH
    RtcpLast,      \* 0x7fffffff: last index an RTCP packet can carry
    Reach,         \* bound on loss and delay, in packets
    Starts,        \* first RTP sequence numbers
    MaxNumber,     \* bound on the sum of the streams' packet numbers
    MaxKeys,       \* bound on the sum of the streams' keys
    SameByte,      \* streams whose SSRCs share the byte that RTCP looks at
    NONE

ASSUME SrtpAssumption ==
    /\ Half \in Nat /\ Half >= 2
    /\ Width \in Nat \ {0} /\ RtcpLast \in Nat \ {0}
    /\ Reach \in Nat \ {0} /\ Reach <= Half
    /\ Starts \subseteq 0 .. (2 * Half - 1)
    /\ MaxNumber \in Nat /\ MaxKeys \in Nat
    /\ SameByte \subseteq Streams

VARIABLES
    traffic,       \* "rtp" or "rtcp"
    next,          \* next[s]: number of the packet the sender makes next
    sKey, rKey,    \* how many keys each side of s has had: the name of the current one
    sSecure,       \* sides that are in SECURE
    rSecure,
    highOut,       \* media_ctx.high_out_media_seq of the sender
    highIn,        \* media_ctx.high_in_media_seq of the receiver
    out,           \* nodes of the sender's outgoing and
    inc,           \* of the receiver's incoming list, by SSRC key
    net,           \* net[s]: packets under way
    checking,      \* checking[s]: packet between its check and its entry in the window
    seen,          \* history: newest packet that came in
    taken,         \* history: indexes the receiver took under its key
    again,         \* history: streams that took an index twice under a key
    refused,       \* history: streams that refused a packet they should take
    used,          \* history: indexes the sender protected with under its key
    reused         \* history: streams that protected two packets with an index

sides == <<sKey, rKey, sSecure, rSecure>>
nodes == <<out, inc>>
history == <<seen, taken, again, refused, used, reused>>
vars == <<traffic, next, sides, highOut, highIn, nodes, net, checking, history>>

-----------------------------------------------------------------------------
(* Sequence numbers *)

M == 2 * Half

\* A late packet of before a wrap is taken for one of after it.
EstimateNoWrapBack(seq, high) ==
    LET roc == high \div M
    IN  IF high = 0 THEN seq
        ELSE seq + M * IF (high % M) > seq + Half THEN roc + 1 ELSE roc

\* The index of a packet with sequence number seq when the newest index is
\* high; 0 stands for "none yet".  The first case only comes up for a newest
\* number in the lower half, the second for one in the upper half.
Estimate(seq, high) ==
    LET roc == high \div M
    IN  IF high = 0 THEN seq
        ELSE seq + M * IF seq > (high % M) + Half /\ roc > 0 THEN roc - 1
                       ELSE IF (high % M) > seq + Half THEN roc + 1
                       ELSE roc

\* The newest index, whatever becomes of the packet.
Newest(index, high) == IF high = 0 \/ index > high THEN index ELSE high

-----------------------------------------------------------------------------
(* Replay window: bit Width - 1 of win is the index seq. *)

Bits == 0 .. (Width - 1)

Window == [seq : Nat, win : SUBSET Bits]

EmptyWindow == [seq |-> 0, win |-> {}]

Position(window, index) == Width - 1 + index - window.seq

\* The window lets through what is too old for it.
PassesOld(window, index) ==
    index > window.seq \/ Position(window, index) \notin window.win

Passes(window, index) ==
    \/ index > window.seq
    \/ Position(window, index) >= 0 /\ Position(window, index) \notin window.win

\* A newer index empties the window.
AddCleared(window, index) ==
    IF index > window.seq THEN [seq |-> index, win |-> {Width - 1}]
    ELSE [window EXCEPT !.win = @ \cup {Position(window, index)}]

Add(window, index) ==
    IF index > window.seq
    THEN [seq |-> index,
          win |-> {b \in Bits : b + (index - window.seq) \in window.win} \cup {Width - 1}]
    ELSE [window EXCEPT !.win = @ \cup {Position(window, index)}]

-----------------------------------------------------------------------------
(* Nodes *)

\* RTCP looks nodes up by one byte of the SSRC.
Keys == Streams \cup {"shared"}

Key(s) == IF traffic = "rtcp" /\ s \in SameByte THEN "shared" ELSE s

\* A node belongs to the SRTP context of the stream that created it.
Node == [window : Window, owner : Streams]

ASSUME NodeAssumption == NONE \notin Node

Found(list, s) ==
    IF list[Key(s)] = NONE THEN [window |-> EmptyWindow, owner |-> s] ELSE list[Key(s)]

\* All nodes are removed, whoever owns them.
RemoveAll(list, s) == [k \in Keys |-> NONE]

Remove(list, s) ==
    [k \in Keys |-> IF list[k] # NONE /\ list[k].owner = s THEN NONE ELSE list[k]]

-----------------------------------------------------------------------------
(* Key exchanges of a stream *)

Total(f) == FoldFunction(+, 0, f)

\* The keys a side can go SECURE with, after its last one: the key the other
\* side has already, or that of a new exchange, which the other side can only
\* take part in when it is not SECURE.
NewKeys(mine, other, otherSecure) ==
    {k \in mine + 1 .. MaxKeys :
        \/ k = other
        \/ ~otherSecure /\ k = 1 + IF other > mine THEN other ELSE mine}

SenderSecure(s) ==
    /\ ~sSecure[s]
    /\ \E k \in NewKeys(sKey[s], rKey[s], rSecure[s]) : sKey' = [sKey EXCEPT ![s] = k]
    /\ Total(sKey') <= MaxKeys
    /\ sSecure' = [sSecure EXCEPT ![s] = TRUE]
    /\ used' = [used EXCEPT ![s] = {}]
    /\ UNCHANGED <<traffic, next, rKey, rSecure, highOut, highIn, nodes, net, checking,
                   seen, taken, again, refused, reused>>

ReceiverSecure(s) ==
    /\ ~rSecure[s]
    /\ \E k \in NewKeys(rKey[s], sKey[s], sSecure[s]) : rKey' = [rKey EXCEPT ![s] = k]
    /\ Total(rKey') <= MaxKeys
    /\ rSecure' = [rSecure EXCEPT ![s] = TRUE]
    /\ taken' = [taken EXCEPT ![s] = {}]
    /\ UNCHANGED <<traffic, next, sKey, sSecure, highOut, highIn, nodes, net, checking,
                   seen, again, refused, used, reused>>

\* The protocol of a stream is destroyed, its SRTP context with it.
SenderLeave(s) ==
    /\ sSecure[s]
    /\ sSecure' = [sSecure EXCEPT ![s] = FALSE]
    /\ out' = Remove(out, s)
    /\ UNCHANGED <<traffic, next, sKey, rKey, rSecure, highOut, highIn, inc, net, checking,
                   history>>

\* The calls that leave SECURE hold the stream's mutex.  Media does not, so
\* this may come while zrtp_srtp_unprotect has a packet in its hands.
ReceiverLeave(s) ==
    /\ rSecure[s]
    /\ rSecure' = [rSecure EXCEPT ![s] = FALSE]
    /\ inc' = Remove(inc, s)
    /\ UNCHANGED <<traffic, next, sKey, rKey, sSecure, highOut, highIn, out, net, checking,
                   history>>

-----------------------------------------------------------------------------
(* Sending *)

Packets == [n : Nat, index : Nat, key : Nat]

Packet(n, index, key) == [n |-> n, index |-> index, key |-> key]

Protected(s, index) ==
    /\ used' = [used EXCEPT ![s] = @ \cup {index}]
    /\ reused' = IF index \in used[s] THEN reused \cup {s} ELSE reused

\* zrtp_process_rtp: the estimate is made in every state, the window is only
\* used in SECURE; a packet that is refused is not sent.
SendRtp(s) ==
    LET index == Estimate(next[s] % M, highOut[s])
        node == Found(out, s)
    IN  /\ traffic = "rtp"
        /\ highOut' = [highOut EXCEPT ![s] = Newest(index, @)]
        /\ \/ /\ ~sSecure[s]
              /\ net' = [net EXCEPT ![s] = @ \cup {Packet(next[s], index, 0)}]
              /\ UNCHANGED <<out, used, reused>>
           \/ /\ sSecure[s] /\ Passes(node.window, index)
              /\ out' = [out EXCEPT ![Key(s)] = [node EXCEPT !.window = Add(@, index)]]
              /\ net' = [net EXCEPT ![s] = @ \cup {Packet(next[s], index, sKey[s])}]
              /\ Protected(s, index)
           \/ /\ sSecure[s] /\ ~Passes(node.window, index)
              /\ out' = [out EXCEPT ![Key(s)] = node]
              /\ UNCHANGED <<net, used, reused>>

\* The counter of zrtp_srtp_rp_increment after one more packet.
Count(window) == window.seq + 1

\* Expiry is tested on the count before this packet, which lets one packet of
\* index RtcpLast + 1 pass; its trailer shows 0.
Expired(window) == window.seq > RtcpLast

SendRtcp(s) ==
    LET node == Found(out, s)
        count == Count(node.window)
    IN  /\ traffic = "rtcp"
        /\ \/ /\ ~sSecure[s]
              /\ net' = [net EXCEPT ![s] = @ \cup {Packet(next[s], 0, 0)}]
              /\ UNCHANGED <<out, used, reused>>
           \/ /\ sSecure[s]
              /\ out' = [out EXCEPT ![Key(s)] = [node EXCEPT !.window.seq = count]]
              /\ IF Expired(node.window) THEN UNCHANGED <<net, used, reused>>
                 ELSE /\ net' = [net EXCEPT ![s] =
                                   @ \cup {Packet(next[s], count % (RtcpLast + 1), sKey[s])}]
                      /\ Protected(s, count)
        /\ UNCHANGED highOut

\* The application sends its packets in order, never Reach ahead of the newest
\* one that has come in.
Send(s) ==
    /\ next[s] < seen[s] + Reach
    /\ Total(next) < MaxNumber
    /\ SendRtp(s) \/ SendRtcp(s)
    /\ next' = [next EXCEPT ![s] = @ + 1]
    /\ UNCHANGED <<traffic, sides, highIn, inc, checking, seen, taken, again, refused>>
-----------------------------------------------------------------------------
(* Receiving *)

\* The network forgets what is Reach behind the newest packet that came in.
Delayed(s, newest) == {p \in net[s] : p.n > newest - Reach}

IndexOf(s, p) == IF traffic = "rtp" THEN Estimate(p.n % M, highIn[s]) ELSE p.index

\* Protected with the key of the receiver, and of an index it can read.
Genuine(s, p) == p.key = rKey[s] /\ (traffic = "rtcp" => p.index > 0)

\* A packet the receiver has not had and that is not too old for its window.
Wanted(s, p) ==
    /\ Genuine(s, p) /\ p.index \notin taken[s]
    /\ \A i \in taken[s] : p.index > i - Width

Refuse(s, p) == refused' = IF Wanted(s, p) THEN refused \cup {s} ELSE refused

\* What zrtp_srtp_unprotect has on its stack.
Check == [packet : Packets, index : Nat]

ASSUME CheckAssumption == NONE \notin Check

\* zrtp_process_srtp up to the check of the window.  The first packet to come
\* in is one of before the first wrap: nothing tells the receiver of a wrap
\* that it has not seen.
Receive(s) ==
    \E p \in net[s] :
        LET index == IndexOf(s, p)
            newest == IF p.n > seen[s] THEN p.n ELSE seen[s]
            node == Found(inc, s)
        IN  /\ checking[s] = NONE
            /\ highIn[s] = 0 => p.n < M
            /\ seen' = [seen EXCEPT ![s] = newest]
            /\ net' = [net EXCEPT ![s] = Delayed(s, newest)]
            /\ highIn' = IF traffic = "rtp" THEN [highIn EXCEPT ![s] = Newest(index, @)] ELSE highIn
            /\ IF rSecure[s]
               THEN /\ inc' = [inc EXCEPT ![Key(s)] = node]
                    /\ \/ /\ Passes(node.window, index)
                          /\ checking' = [checking EXCEPT ![s] = [packet |-> p, index |-> index]]
                          /\ UNCHANGED refused
                       \/ ~Passes(node.window, index) /\ Refuse(s, p) /\ UNCHANGED checking
               ELSE UNCHANGED <<inc, checking, refused>>
            /\ UNCHANGED <<traffic, next, sides, highOut, out, taken, again, used, reused>>

\* The tag: of an RTP packet over the estimated index, of RTCP over the packet.
Authentic(s, p, index) == p.key = rKey[s] /\ index = p.index

\* The rest of zrtp_srtp_unprotect.  When the node is no longer there what
\* happens is undefined: the stream takes no further packet here, and nothing
\* is said of what it does (see NodeHeld).
Finish(s) ==
    /\ checking[s] # NONE /\ inc[Key(s)] # NONE
    /\ LET p == checking[s].packet
           index == checking[s].index
       IN  \/ /\ Authentic(s, p, index)
              /\ inc' = [inc EXCEPT ![Key(s)].window = Add(@, index)]
              /\ taken' = [taken EXCEPT ![s] = @ \cup {index}]
              /\ again' = IF index \in taken[s] THEN again \cup {s} ELSE again
              /\ UNCHANGED refused
           \/ ~Authentic(s, p, index) /\ Refuse(s, p) /\ UNCHANGED <<inc, taken, again>>
    /\ checking' = [checking EXCEPT ![s] = NONE]
    /\ UNCHANGED <<traffic, next, sides, highOut, highIn, out, net, seen, used, reused>>

-----------------------------------------------------------------------------
Init ==
    /\ traffic \in {"rtp", "rtcp"}
    /\ next \in [Streams -> Starts]
    /\ sKey = [s \in Streams |-> 0] /\ rKey = [s \in Streams |-> 0]
    /\ sSecure = [s \in Streams |-> FALSE] /\ rSecure = [s \in Streams |-> FALSE]
    /\ highOut = [s \in Streams |-> 0] /\ highIn = [s \in Streams |-> 0]
    /\ out = [k \in Keys |-> NONE] /\ inc = [k \in Keys |-> NONE]
    /\ net = [s \in Streams |-> {}]
    /\ checking = [s \in Streams |-> NONE]
    /\ seen = [s \in Streams |-> next[s] - 1]
    /\ taken = [s \in Streams |-> {}] /\ used = [s \in Streams |-> {}]
    /\ again = {} /\ refused = {} /\ reused = {}

Next ==
    \E s \in Streams :
        \/ SenderSecure(s) \/ SenderLeave(s)
        \/ ReceiverSecure(s) \/ ReceiverLeave(s)
        \/ Send(s) \/ Receive(s) \/ Finish(s)

Spec == Init /\ [][Next]_vars

-----------------------------------------------------------------------------
(* Properties *)

\* Windows hold bits of the window, indexes and counters are naturals, and a
\* node belongs to a stream.
TypeOK ==
    /\ traffic \in {"rtp", "rtcp"}
    /\ next \in [Streams -> Nat] /\ seen \in [Streams -> Int]
    /\ sKey \in [Streams -> Nat] /\ rKey \in [Streams -> Nat]
    /\ sSecure \in [Streams -> BOOLEAN] /\ rSecure \in [Streams -> BOOLEAN]
    /\ highOut \in [Streams -> Nat] /\ highIn \in [Streams -> Nat]
    /\ out \in [Keys -> Node \cup {NONE}] /\ inc \in [Keys -> Node \cup {NONE}]
    /\ net \in [Streams -> SUBSET Packets]
    /\ checking \in [Streams -> Check \cup {NONE}]
    /\ taken \in [Streams -> SUBSET Nat] /\ used \in [Streams -> SUBSET Nat]

\* Sender and receiver give every RTP packet that comes in the same index,
\* through wraps of the sequence number, losses, repeats and late packets
\* (_estimate_index on both sides).
IndexAgrees ==
    traffic = "rtp" =>
        \A s \in Streams : \A p \in net[s] :
            (highIn[s] = 0 => p.n < M) => IndexOf(s, p) = p.index

\* No index is taken twice under a key, whatever the order of repeats and
\* whichever streams come and go (zrtp_srtp_rp_check, zrtp_srtp_rp_add).
AcceptedOnce == again = {}

\* No packet that is new, protected with the current key and within the
\* window is refused: not for its index, not because of an earlier key's
\* window and not because of another stream.
NoneRefused == refused = {}

\* No two packets of a stream are protected with the same key and index,
\* the keystream of one packet being that of no other.
IndexNeverReused == reused = {}

\* zrtp_stream_clear and the others that end SECURE may "be called in parallel
\* to the main processing loop" (src/zrtp_engine.c:389): a node that
\* zrtp_srtp_unprotect has found is there until it is done.  Fails, for media
\* does not take the stream's mutex (MCZrtpSrtp_held.cfg).
NodeHeld == \A s \in Streams : checking[s] # NONE => inc[Key(s)] # NONE

\* That is the only way: a node in use is freed by the end of SECURE of its own
\* stream, never by that of another one or by a new key, although all streams
\* have their nodes in one list (remove_rp_nodes_by_srtp_ctx).
FreedByItsStream ==
    [][\A s \in Streams :
           /\ checking[s] # NONE /\ checking'[s] = checking[s]
           /\ inc[Key(s)] # NONE /\ inc'[Key(s)] = NONE
           => rSecure[s] /\ ~rSecure'[s]]_vars

=============================================================================
