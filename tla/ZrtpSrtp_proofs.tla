--------------------------- MODULE ZrtpSrtp_proofs ---------------------------
(***************************************************************************)
(* Proofs about ZrtpSrtp, for every value of its constants that the        *)
(* assumptions allow.                                                      *)
(***************************************************************************)
EXTENDS ZrtpSrtp, TLAPS

-----------------------------------------------------------------------------
(* Arithmetic *)

\* A number is its roll-over count and its sequence number.
LEMMA Divides ==
    ASSUME NEW n \in Nat
    PROVE  /\ n \div M \in Nat /\ n % M \in Nat /\ n % M < M
           /\ n = M * (n \div M) + (n % M)
  <1>1. M \in Nat /\ M > 0 BY SrtpAssumption DEF M
  <1>2. n \div M \in Int /\ n % M \in 0 .. M - 1 BY <1>1, SMT
  <1>3. n = M * (n \div M) + (n % M) BY <1>1, SMT
  <1>4. n \div M \in Nat BY <1>1, <1>2, <1>3, SMT
  <1> QED BY <1>1, <1>2, <1>3, <1>4

\* Two products of M with different factors are at least M apart.
LEMMA Apart ==
    ASSUME NEW a \in Nat, NEW b \in Nat, a > b
    PROVE  M * a >= M * b + M
  <1> DEFINE d == a - b - 1
  <1>1. d \in Nat OBVIOUS
  <1>2. M \in Nat BY SrtpAssumption DEF M
  <1>3. M * d \in Nat BY <1>1, <1>2, SMT
  <1>4. a = b + 1 + d OBVIOUS
  <1>5. M * (b + 1 + d) = M * b + M + M * d BY <1>1, <1>2, SMT
  <1> QED BY <1>2, <1>3, <1>4, <1>5, SMT

LEMMA EstimateIsIndex ==
    ASSUME NEW seq \in Nat, NEW high \in Nat
    PROVE  Estimate(seq, high) \in Nat
  <1>1. M \in Nat BY SrtpAssumption DEF M
  <1>2. \A v \in Nat : M * v \in Nat BY <1>1, SMT
  <1> DEFINE roc == high \div M
  <1>3. roc \in Nat BY Divides
  <1>4. high # 0 => \E v \in Nat : Estimate(seq, high) = seq + M * v
    BY <1>3 DEF Estimate
  <1> QED BY <1>1, <1>2, <1>4 DEF Estimate

\* The estimate is right for an index less than Half away from the newest one.
LEMMA EstimateCorrect ==
    ASSUME NEW n \in Nat, NEW high \in Nat, high # 0,
           n - high < Half, high - n < Half
    PROVE  Estimate(n % M, high) = n
  <1> DEFINE q == n \div M  r == n % M  c == high \div M  l == high % M
  <1>1. q \in Nat /\ r \in Nat /\ r < M /\ n = M * q + r BY Divides
  <1>2. c \in Nat /\ l \in Nat /\ l < M /\ high = M * c + l BY Divides
  <1>3. M \in Nat /\ M = 2 * Half /\ Half \in Nat BY SrtpAssumption DEF M
  <1>4. M * q \in Nat /\ M * c \in Nat BY <1>1, <1>2, <1>3, SMT
  <1>5. Estimate(n % M, high) = r + M * IF r > l + Half /\ c > 0 THEN c - 1
                                    ELSE IF l > r + Half THEN c + 1
                                    ELSE c
    BY DEF Estimate
  <1> HIDE DEF q, r, c, l
  <1>6. CASE q = c
    <2>1. ~(r > l + Half) /\ ~(l > r + Half)
      BY <1>1, <1>2, <1>3, <1>4, <1>6
    <2> QED BY <1>1, <1>3, <1>4, <1>5, <1>6, <2>1
  <1>7. CASE q > c
    <2>1. q = c + 1
      <3>1. CASE q > c + 1
        <4>1. M * q >= M * (c + 1) + M /\ M * (c + 1) >= M * c + M BY <1>1, <1>2, <3>1, Apart
        <4>2. M * (c + 1) \in Nat BY <1>2, <1>3, SMT
        <4> QED BY <1>1, <1>2, <1>3, <1>4, <4>1, <4>2
      <3> QED BY <1>1, <1>2, <1>7, <3>1
    <2>2. M * q = M * c + M BY <1>2, <1>3, <2>1, SMT
    <2>3. l > r + Half BY <1>1, <1>2, <1>3, <1>4, <2>2
    <2>4. ~(r > l + Half) BY <1>1, <1>2, <1>3, <2>3
    <2> QED BY <1>1, <1>2, <1>3, <1>4, <1>5, <2>1, <2>3, <2>4
  <1>8. CASE c > q
    <2>1. c = q + 1
      <3>1. CASE c > q + 1
        <4>1. M * c >= M * (q + 1) + M /\ M * (q + 1) >= M * q + M BY <1>1, <1>2, <3>1, Apart
        <4>2. M * (q + 1) \in Nat BY <1>1, <1>3, SMT
        <4> QED BY <1>1, <1>2, <1>3, <1>4, <4>1, <4>2
      <3> QED BY <1>1, <1>2, <1>8, <3>1
    <2>2. M * c = M * q + M BY <1>1, <1>3, <2>1, SMT
    <2>3. r > l + Half /\ c > 0 BY <1>1, <1>2, <1>3, <1>4, <2>1, <2>2
    <2>4. c - 1 = q BY <1>1, <2>1
    <2> QED BY <1>1, <1>3, <1>4, <1>5, <2>3, <2>4
  <1> QED BY <1>1, <1>2, <1>6, <1>7, <1>8

-----------------------------------------------------------------------------
(* Windows *)

LEMMA AddIsWindow ==
    ASSUME NEW w \in Window, NEW index \in Nat, Passes(w, index)
    PROVE  Add(w, index) \in Window
  <1>1. w.seq \in Nat /\ w.win \subseteq Bits BY DEF Window
  <1>2. Width \in Nat \ {0} BY SrtpAssumption
  <1>3. CASE index > w.seq
    BY <1>1, <1>2, <1>3 DEF Add, Window, Bits
  <1>4. CASE ~(index > w.seq)
    <2>1. Position(w, index) \in Bits
      BY <1>1, <1>2, <1>4 DEF Passes, Position, Bits
    <2> QED BY <1>1, <1>4, <2>1 DEF Add, Window
  <1> QED BY <1>3, <1>4

\* After an index is entered, neither it nor what did not pass before passes.
LEMMA AddKeepsOut ==
    ASSUME NEW w \in Window, NEW index \in Nat, Passes(w, index),
           NEW i \in Nat, i = index \/ ~Passes(w, i)
    PROVE  ~Passes(Add(w, index), i)
  <1>1. w.seq \in Nat /\ w.win \subseteq Bits BY DEF Window
  <1>2. Width \in Nat \ {0} BY SrtpAssumption
  <1>3. CASE index > w.seq
    <2> DEFINE win == {b \in Bits : b + (index - w.seq) \in w.win} \cup {Width - 1}
    <2>1. Add(w, index) = [seq |-> index, win |-> win] BY <1>3 DEF Add
    <2>2. i <= index BY <1>1, <1>3 DEF Passes
    <2>3. SUFFICES ASSUME Width - 1 + i - index >= 0
                   PROVE  Width - 1 + i - index \in win
      BY <2>1, <2>2, <1>2 DEF Passes, Position
    <2>4. CASE i = index BY <2>4, <1>2
    <2>5. CASE ~Passes(w, i)
      <3>1. Position(w, i) >= 0 BY <1>1, <1>2, <1>3, <2>3 DEF Position
      <3>2. Position(w, i) \in w.win BY <2>5, <3>1 DEF Passes
      <3>3. Width - 1 + i - index + (index - w.seq) = Position(w, i)
        BY <1>1, <1>2 DEF Position
      <3>4. Width - 1 + i - index \in Bits BY <1>2, <2>2, <2>3 DEF Bits
      <3> QED BY <3>2, <3>3, <3>4
    <2> QED BY <2>4, <2>5
  <1>4. CASE ~(index > w.seq)
    <2>1. /\ Add(w, index).seq = w.seq
          /\ Add(w, index).win = w.win \cup {Position(w, index)}
      BY <1>4 DEF Add, Window
    <2> QED BY <1>1, <1>2, <1>4, <2>1 DEF Passes, Position
  <1> QED BY <1>3, <1>4

\* The index a bit stands for.
IndexAt(w, b) == w.seq - (Width - 1) + b

\* The newest index and the bits of a window are of indexes in a set.
Holds(w, indexes) ==
    /\ w.seq = 0 \/ w.seq \in indexes
    /\ \A b \in w.win : IndexAt(w, b) \in indexes

LEMMA AddHolds ==
    ASSUME NEW w \in Window, NEW index \in Nat, Passes(w, index),
           NEW indexes, Holds(w, indexes)
    PROVE  Holds(Add(w, index), indexes \cup {index})
  <1>1. w.seq \in Nat /\ w.win \subseteq Bits BY DEF Window
  <1>2. Width \in Nat \ {0} BY SrtpAssumption
  <1>3. CASE index > w.seq
    <2> DEFINE win == {b \in Bits : b + (index - w.seq) \in w.win} \cup {Width - 1}
    <2>1. Add(w, index) = [seq |-> index, win |-> win] BY <1>3 DEF Add
    <2>2. ASSUME NEW b \in win PROVE index - (Width - 1) + b \in indexes \cup {index}
      <3>1. CASE b = Width - 1 BY <1>2, <3>1
      <3>2. CASE b \in Bits /\ b + (index - w.seq) \in w.win
        <4>1. IndexAt(w, b + (index - w.seq)) \in indexes BY <3>2 DEF Holds
        <4>2. IndexAt(w, b + (index - w.seq)) = index - (Width - 1) + b
          BY <1>1, <1>2, <3>2 DEF IndexAt, Bits
        <4> QED BY <4>1, <4>2
      <3> QED BY <3>1, <3>2
    <2> QED BY <2>1, <2>2 DEF Holds, IndexAt
  <1>4. CASE ~(index > w.seq)
    <2>1. /\ Add(w, index).seq = w.seq
          /\ Add(w, index).win = w.win \cup {Position(w, index)}
      BY <1>4 DEF Add, Window
    <2>2. w.seq - (Width - 1) + Position(w, index) = index
      BY <1>1, <1>2 DEF Position
    <2> QED BY <2>1, <2>2 DEF Holds, IndexAt
  <1> QED BY <1>3, <1>4

\* What a window does not let through is one of its indexes or too old.
LEMMA KeptOut ==
    ASSUME NEW w \in Window, NEW index \in Nat, ~Passes(w, index),
           NEW indexes \in SUBSET Nat, Holds(w, indexes)
    PROVE  index \in indexes \/ \E i \in indexes : index <= i - Width
  <1>1. w.seq \in Nat /\ w.win \subseteq Bits BY DEF Window
  <1>2. Width \in Nat \ {0} BY SrtpAssumption
  <1>3. CASE Position(w, index) \in w.win
    <2>1. IndexAt(w, Position(w, index)) = index BY <1>1, <1>2 DEF IndexAt, Position
    <2> QED BY <1>3, <2>1 DEF Holds
  <1>4. CASE ~(Position(w, index) >= 0)
    <2>1. index <= w.seq - Width BY <1>1, <1>2, <1>4 DEF Position
    <2>2. w.seq # 0 BY <1>2, <2>1
    <2> QED BY <2>1, <2>2 DEF Holds
  <1> QED BY <1>3, <1>4 DEF Passes

LEMMA EmptyIsWindow ==
    /\ EmptyWindow \in Window /\ Holds(EmptyWindow, {})
    /\ \A index \in Nat : Passes(EmptyWindow, index)
  BY SrtpAssumption DEF EmptyWindow, Window, Holds, Passes, Position

-----------------------------------------------------------------------------
(* The invariant *)

\* Both sides know the newest index, and packets under way are less than
\* Reach from it.
IndexInv ==
    traffic = "rtp" => \A s \in Streams :
        /\ highOut[s] = 0 => next[s] < M
        /\ highOut[s] # 0 => highOut[s] = next[s] - 1
        /\ highIn[s] = 0 => next[s] >= seen[s] /\ \A p \in net[s] : p.n >= seen[s]
        /\ highIn[s] # 0 => highIn[s] = seen[s]
        /\ seen[s] < next[s]
        /\ \A p \in net[s] : /\ p.index = p.n /\ p.n < next[s]
                             /\ seen[s] - Reach < p.n /\ p.n < seen[s] + Reach

\* A node of the receiver lives as long as the key of its stream, and its
\* window tells the indexes taken with that key from the others.
ReceiverInv ==
    \A s \in Streams :
        /\ inc[s] # NONE => /\ rSecure[s] /\ inc[s].owner = s
                            /\ \A i \in taken[s] : ~Passes(inc[s].window, i)
                            /\ Holds(inc[s].window, taken[s])
        /\ rSecure[s] /\ taken[s] # {} => inc[s] # NONE
        /\ checking[s] # NONE =>
              /\ checking[s].index = checking[s].packet.index
              /\ inc[s] # NONE => Passes(inc[s].window, checking[s].index)

\* An index the sender has used with its key is before the next one.
SenderInv ==
    \A s \in Streams :
        /\ out[s] # NONE => sSecure[s] /\ out[s].owner = s
        /\ traffic = "rtp" => \A i \in used[s] : i < next[s]
        /\ traffic = "rtcp" /\ sSecure[s] =>
              \A i \in used[s] : out[s] # NONE /\ i <= out[s].window.seq

\* What the histories say has not happened.
GoodInv == AcceptedOnce /\ NoneRefused /\ IndexNeverReused

IInv == TypeOK /\ IndexInv /\ ReceiverInv /\ SenderInv /\ GoodInv

-----------------------------------------------------------------------------
(* Facts of a state *)

LEMMA KeyIsStream ==
    ASSUME SameByte = {}, NEW s \in Streams
    PROVE  Key(s) = s /\ s \in Keys
  BY DEF Key, Keys

\* Found is the node of the stream, or a new one with an empty window.
LEMMA FoundNode ==
    ASSUME SameByte = {}, NEW list \in [Keys -> Node \cup {NONE}], NEW s \in Streams
    PROVE  /\ Found(list, s) \in Node /\ Found(list, s) # NONE
           /\ Found(list, s).window \in Window
           /\ list[s] # NONE => Found(list, s) = list[s]
           /\ list[s] = NONE => Found(list, s) = [window |-> EmptyWindow, owner |-> s]
  <1>1. Key(s) = s /\ s \in Keys BY KeyIsStream
  <1>2. list[s] \in Node \cup {NONE} BY <1>1
  <1>3. [window |-> EmptyWindow, owner |-> s] \in Node BY EmptyIsWindow DEF Node
  <1>4. Found(list, s) = IF list[s] = NONE THEN [window |-> EmptyWindow, owner |-> s] ELSE list[s]
    BY <1>1 DEF Found
  <1>5. Found(list, s) \in Node BY <1>2, <1>3, <1>4
  <1> QED BY <1>4, <1>5, NodeAssumption DEF Node

\* Removing the nodes of a stream removes its own and leaves the others.
LEMMA RemoveOwn ==
    ASSUME NEW list \in [Keys -> Node \cup {NONE}], NEW s \in Streams
    PROVE  /\ Remove(list, s) \in [Keys -> Node \cup {NONE}]
           /\ \A k \in Keys : list[k] # NONE /\ list[k].owner = s => Remove(list, s)[k] = NONE
           /\ \A k \in Keys : list[k] = NONE \/ list[k].owner # s => Remove(list, s)[k] = list[k]
  BY DEF Remove

\* The sender estimates the number of the packet it sends.
LEMMA SentIndex ==
    ASSUME TypeOK, IndexInv, traffic = "rtp", NEW s \in Streams
    PROVE  Estimate(next[s] % M, highOut[s]) = next[s]
  <1>1. next[s] \in Nat /\ highOut[s] \in Nat BY DEF TypeOK
  <1>2. CASE highOut[s] = 0
    <2>1. next[s] < M BY <1>2 DEF IndexInv
    <2>2. next[s] % M = next[s] BY <1>1, <2>1, SrtpAssumption, SMT DEF M
    <2> QED BY <1>2, <2>2 DEF Estimate
  <1>3. CASE highOut[s] # 0
    <2>1. highOut[s] = next[s] - 1 BY <1>3 DEF IndexInv
    <2>2. next[s] - highOut[s] < Half /\ highOut[s] - next[s] < Half
      BY <1>1, <2>1, SrtpAssumption
    <2> QED BY <1>1, <1>3, <2>2, EstimateCorrect
  <1> QED BY <1>2, <1>3

\* The receiver reads the index the sender gave to a packet.
LEMMA ReadIndex ==
    ASSUME TypeOK, IndexInv, NEW s \in Streams, NEW p \in net[s],
           highIn[s] = 0 => p.n < M
    PROVE  IndexOf(s, p) = p.index
  <1>1. p.n \in Nat /\ p.index \in Nat /\ highIn[s] \in Nat /\ seen[s] \in Int
    BY DEF TypeOK, Packets
  <1>2. CASE traffic = "rtp"
    <2>1. /\ p.index = p.n /\ seen[s] - Reach < p.n /\ p.n < seen[s] + Reach
          /\ highIn[s] # 0 => highIn[s] = seen[s]
      BY <1>2 DEF IndexInv
    <2>2. CASE highIn[s] = 0
      <3>1. p.n % M = p.n BY <1>1, <2>2, SrtpAssumption, SMT DEF M
      <3> QED BY <1>2, <2>1, <2>2, <3>1 DEF IndexOf, Estimate
    <2>3. CASE highIn[s] # 0
      <3>1. p.n - highIn[s] < Half /\ highIn[s] - p.n < Half
        BY <1>1, <2>1, <2>3, SrtpAssumption
      <3>2. Estimate(p.n % M, highIn[s]) = p.n BY <1>1, <2>3, <3>1, EstimateCorrect
      <3> QED BY <1>2, <2>1, <3>2 DEF IndexOf
    <2> QED BY <2>2, <2>3
  <1>3. CASE traffic # "rtp" BY <1>3 DEF IndexOf
  <1> QED BY <1>2, <1>3

-----------------------------------------------------------------------------
(* Every step keeps the invariant *)

LEMMA InitHolds == Init => IInv
  <1> SUFFICES ASSUME Init PROVE IInv OBVIOUS
  <1>1. next \in [Streams -> Nat] /\ \A s \in Streams : next[s] < M
    <2>1. \A v \in Starts : v \in Nat /\ v < M BY SrtpAssumption DEF M
    <2>2. next \in [Streams -> Starts] BY DEF Init
    <2> QED BY <2>1, <2>2
  <1>2. seen \in [Streams -> Int] /\ \A s \in Streams : seen[s] = next[s] - 1
    BY <1>1 DEF Init
  <1>3. TypeOK BY <1>1, <1>2 DEF Init, TypeOK
  <1>4. IndexInv BY <1>1, <1>2 DEF Init, IndexInv
  <1>5. ReceiverInv BY DEF Init, ReceiverInv, Keys
  <1>6. SenderInv BY DEF Init, SenderInv, Keys
  <1>7. GoodInv
    BY DEF Init, GoodInv, AcceptedOnce, NoneRefused, IndexNeverReused
  <1> QED BY <1>3, <1>4, <1>5, <1>6, <1>7 DEF IInv

\* What the parts of the invariant do not read.
LEMMA IndexFrame ==
    ASSUME IndexInv, UNCHANGED <<traffic, next, highOut, highIn, seen, net>>
    PROVE  IndexInv'
  BY DEF IndexInv

LEMMA ReceiverFrame ==
    ASSUME ReceiverInv, UNCHANGED <<inc, rSecure, taken, checking>>
    PROVE  ReceiverInv'
  BY DEF ReceiverInv

LEMMA SenderFrame ==
    ASSUME SenderInv, UNCHANGED <<traffic, out, sSecure, used, next>>
    PROVE  SenderInv'
  BY DEF SenderInv

LEMMA GoodFrame ==
    ASSUME SameByte = {}, GoodInv, UNCHANGED <<traffic, again, refused, reused, checking, inc>>
    PROVE  GoodInv'
  BY DEF GoodInv, AcceptedOnce, NoneRefused, IndexNeverReused

LEMMA SenderSecureStep ==
    ASSUME SameByte = {}, IInv, NEW s \in Streams, SenderSecure(s)
    PROVE  IInv'
  <1>1. TypeOK' 
    <2>1. sKey' \in [Streams -> Nat] BY DEF IInv, TypeOK, SenderSecure, NewKeys
    <2> QED BY <2>1 DEF IInv, TypeOK, SenderSecure, nodes
  <1>2. IndexInv' BY IndexFrame DEF IInv, SenderSecure
  <1>3. ReceiverInv' BY ReceiverFrame DEF IInv, SenderSecure, nodes
  <1>4. SenderInv'
    BY DEF IInv, TypeOK, SenderInv, SenderSecure, nodes
  <1>5. GoodInv' BY GoodFrame DEF IInv, SenderSecure, nodes
  <1> QED BY <1>1, <1>2, <1>3, <1>4, <1>5 DEF IInv

LEMMA ReceiverSecureStep ==
    ASSUME SameByte = {}, IInv, NEW s \in Streams, ReceiverSecure(s)
    PROVE  IInv'
  <1>1. TypeOK'
    <2>1. rKey' \in [Streams -> Nat] BY DEF IInv, TypeOK, ReceiverSecure, NewKeys
    <2> QED BY <2>1 DEF IInv, TypeOK, ReceiverSecure, nodes
  <1>2. IndexInv' BY IndexFrame DEF IInv, ReceiverSecure
  <1>3. ReceiverInv'
    <2>1. inc[s] = NONE BY DEF IInv, ReceiverInv, ReceiverSecure
    <2> QED BY <2>1 DEF IInv, TypeOK, ReceiverInv, ReceiverSecure, nodes
  <1>4. SenderInv' BY SenderFrame DEF IInv, ReceiverSecure, nodes
  <1>5. GoodInv' BY GoodFrame DEF IInv, ReceiverSecure, nodes
  <1> QED BY <1>1, <1>2, <1>3, <1>4, <1>5 DEF IInv

LEMMA SenderLeaveStep ==
    ASSUME SameByte = {}, IInv, NEW s \in Streams, SenderLeave(s)
    PROVE  IInv'
  <1>1. out' \in [Keys -> Node \cup {NONE}] BY RemoveOwn DEF IInv, TypeOK, SenderLeave
  <1>2. TypeOK' BY <1>1 DEF IInv, TypeOK, SenderLeave, history
  <1>3. IndexInv' BY IndexFrame DEF IInv, SenderLeave, history
  <1>4. ReceiverInv' BY ReceiverFrame DEF IInv, SenderLeave, history
  <1>5. SenderInv'
    <2>1. out'[s] = NONE BY RemoveOwn, KeyIsStream DEF IInv, TypeOK, SenderInv, SenderLeave, Remove
    <2>2. ASSUME NEW t \in Streams \ {s} PROVE out'[t] = out[t]
      <3>1. out[t] = NONE \/ out[t].owner # s BY DEF IInv, SenderInv
      <3>2. out'[t] = Remove(out, s)[t] /\ t \in Keys BY DEF SenderLeave, Keys
      <3>3. out \in [Keys -> Node \cup {NONE}] BY DEF IInv, TypeOK
      <3>4. \A k \in Keys : out[k] = NONE \/ out[k].owner # s => Remove(out, s)[k] = out[k]
        BY <3>3, RemoveOwn
      <3> QED BY <3>1, <3>2, <3>4
    <2>3. /\ \A t \in Streams \ {s} : sSecure'[t] = sSecure[t]
          /\ sSecure'[s] = FALSE /\ UNCHANGED <<traffic, used, next>>
      BY DEF IInv, TypeOK, SenderLeave, history
    <2> QED BY <2>1, <2>2, <2>3 DEF IInv, SenderInv
  <1>6. GoodInv' BY GoodFrame DEF IInv, SenderLeave, history
  <1> QED BY <1>2, <1>3, <1>4, <1>5, <1>6 DEF IInv

LEMMA ReceiverLeaveStep ==
    ASSUME SameByte = {}, IInv, NEW s \in Streams, ReceiverLeave(s)
    PROVE  IInv'
  <1>1. inc' \in [Keys -> Node \cup {NONE}] BY RemoveOwn DEF IInv, TypeOK, ReceiverLeave
  <1>2. TypeOK' BY <1>1 DEF IInv, TypeOK, ReceiverLeave, history
  <1>3. IndexInv' BY IndexFrame DEF IInv, ReceiverLeave, history
  <1>4. SenderInv' BY SenderFrame DEF IInv, ReceiverLeave, history
  <1>5. inc'[s] = NONE
    BY RemoveOwn, KeyIsStream DEF IInv, TypeOK, ReceiverInv, ReceiverLeave, Remove
  <1>6. ASSUME NEW t \in Streams \ {s} PROVE inc'[t] = inc[t]
    <2>1. inc[t] = NONE \/ inc[t].owner # s BY DEF IInv, ReceiverInv
    <2>2. inc'[t] = Remove(inc, s)[t] /\ t \in Keys BY DEF ReceiverLeave, Keys
    <2>3. inc \in [Keys -> Node \cup {NONE}] BY DEF IInv, TypeOK
    <2>4. \A k \in Keys : inc[k] = NONE \/ inc[k].owner # s => Remove(inc, s)[k] = inc[k]
      BY <2>3, RemoveOwn
    <2> QED BY <2>1, <2>2, <2>4
  <1>7. /\ \A t \in Streams \ {s} : rSecure'[t] = rSecure[t]
        /\ rSecure'[s] = FALSE /\ UNCHANGED <<taken, checking>>
    BY DEF IInv, TypeOK, ReceiverLeave, history
  <1>8. ReceiverInv' BY <1>5, <1>6, <1>7 DEF IInv, ReceiverInv
  <1>9. GoodInv'
    BY DEF IInv, GoodInv, AcceptedOnce, NoneRefused, IndexNeverReused, ReceiverLeave, history
  <1> QED BY <1>2, <1>3, <1>4, <1>8, <1>9 DEF IInv

LEMMA SendStep ==
    ASSUME SameByte = {}, IInv, NEW s \in Streams, Send(s)
    PROVE  IInv'
  <1> DEFINE n == next[s]
             index == Estimate(n % M, highOut[s])
             node == Found(out, s)
             count == Count(node.window)
  <1>1. /\ n \in Nat /\ highOut[s] \in Nat /\ seen[s] \in Int /\ sKey[s] \in Nat
        /\ n < seen[s] + Reach /\ next' = [next EXCEPT ![s] = n + 1]
        /\ UNCHANGED <<traffic, seen, highIn, inc, checking, taken, again, refused, rKey, rSecure,
                       sKey, sSecure>>
    BY DEF IInv, TypeOK, Send, sides
  <1>2. n % M \in Nat BY <1>1, Divides
  <1>3. index \in Nat BY <1>1, <1>2, EstimateIsIndex
  <1>4. /\ Key(s) = s /\ s \in Keys /\ out \in [Keys -> Node \cup {NONE}]
        /\ node \in Node /\ node # NONE /\ node.window \in Window /\ node.owner \in Streams
        /\ out[s] # NONE => node = out[s]
        /\ out[s] = NONE => node = [window |-> EmptyWindow, owner |-> s]
    BY FoundNode, KeyIsStream DEF IInv, TypeOK, Node
  <1>5. node.owner = s BY <1>4 DEF IInv, SenderInv
  <1>6. node.window.seq \in Nat /\ count \in Nat BY <1>4 DEF Window, Count
  <1> HIDE DEF index, node, count
  <1>7. CASE SendRtp(s)
    <2>1. /\ traffic = "rtp" /\ highOut' = [highOut EXCEPT ![s] = Newest(index, highOut[s])]
          /\ \/ /\ ~sSecure[s] /\ UNCHANGED <<out, used, reused>>
                /\ net' = [net EXCEPT ![s] = @ \cup {Packet(n, index, 0)}]
             \/ /\ sSecure[s] /\ Passes(node.window, index)
                /\ out' = [out EXCEPT ![s] = [node EXCEPT !.window = Add(node.window, index)]]
                /\ net' = [net EXCEPT ![s] = @ \cup {Packet(n, index, sKey[s])}]
                /\ Protected(s, index)
             \/ /\ sSecure[s] /\ out' = [out EXCEPT ![s] = node]
                /\ UNCHANGED <<net, used, reused>>
      BY <1>4, <1>7 DEF SendRtp, index, node
    <2>2. index = n BY <2>1, SentIndex DEF IInv, index
    <2>3. Newest(index, highOut[s]) = n
      BY <1>1, <2>1, <2>2 DEF IInv, IndexInv, Newest
    <2>4. Passes(node.window, index) =>
              /\ [node EXCEPT !.window = Add(node.window, index)] \in Node
              /\ [node EXCEPT !.window = Add(node.window, index)].owner = s
      BY <1>3, <1>4, <1>5, AddIsWindow DEF Node
    <2>5. out' \in [Keys -> Node \cup {NONE}] BY <1>4, <2>1, <2>4
    <2>6. used' \in [Streams -> SUBSET Nat] BY <1>3, <2>1 DEF IInv, TypeOK, Protected
    <2>7. net' \in [Streams -> SUBSET Packets]
      BY <1>1, <1>3, <2>1 DEF IInv, TypeOK, Packet, Packets
    <2>8. TypeOK'
      <3>1. next' \in [Streams -> Nat] /\ highOut' \in [Streams -> Nat]
        BY <1>1, <2>1, <2>3 DEF IInv, TypeOK
      <3> QED BY <1>1, <2>5, <2>6, <2>7, <3>1 DEF IInv, TypeOK
    <2>9. IndexInv'
      <3>1. ASSUME NEW p \in net'[s], p \notin net[s]
            PROVE  p.index = n /\ p.n = n
        <4>1. net'[s] \subseteq net[s] \cup {Packet(n, n, 0), Packet(n, n, sKey[s])}
          BY <2>1, <2>2 DEF IInv, TypeOK
        <4>2. p = Packet(n, n, 0) \/ p = Packet(n, n, sKey[s]) BY <3>1, <4>1
        <4> QED BY <4>2 DEF Packet
      <3>2. /\ highOut'[s] = n /\ next'[s] = n + 1 /\ seen[s] < n
            /\ highOut[s] = 0 => n < M
        BY <1>1, <2>1, <2>3 DEF IInv, TypeOK, IndexInv
      <3>3. \A t \in Streams \ {s} : /\ highOut'[t] = highOut[t] /\ next'[t] = next[t]
                                      /\ net'[t] = net[t]
        BY <1>1, <2>1 DEF IInv, TypeOK
      <3>4. M > 1 BY SrtpAssumption DEF M
      <3>5. ASSUME NEW p \in net'[s]
            PROVE  /\ p.index = p.n /\ p.n < n + 1
                   /\ seen[s] - Reach < p.n /\ p.n < seen[s] + Reach
                   /\ highIn[s] = 0 => p.n >= seen[s]
        <4>1. CASE p \in net[s]
          BY <1>1, <2>1, <4>1 DEF IInv, TypeOK, IndexInv, Packets
        <4>2. CASE p \notin net[s]
          BY <1>1, <3>1, <3>2, <4>2, SrtpAssumption
        <4> QED BY <4>1, <4>2
      <3>6. ASSUME NEW t \in Streams
            PROVE  /\ highOut'[t] = 0 => next'[t] < M
                   /\ highOut'[t] # 0 => highOut'[t] = next'[t] - 1
                   /\ highIn[t] = 0 => next'[t] >= seen[t] /\ \A p \in net'[t] : p.n >= seen[t]
                   /\ highIn[t] # 0 => highIn[t] = seen[t]
                   /\ seen[t] < next'[t]
                   /\ \A p \in net'[t] : /\ p.index = p.n /\ p.n < next'[t]
                                         /\ seen[t] - Reach < p.n /\ p.n < seen[t] + Reach
        <4>1. CASE t = s
          BY <1>1, <2>1, <3>2, <3>4, <3>5, <4>1 DEF IInv, IndexInv
        <4>2. CASE t # s
          BY <2>1, <3>3, <4>2 DEF IInv, IndexInv
        <4> QED BY <4>1, <4>2
      <3> QED BY <1>1, <3>6 DEF IndexInv
    <2>10. SenderInv'
      <3>1. \A i \in used'[s] : i < n + 1
        BY <1>1, <2>1, <2>2 DEF IInv, TypeOK, SenderInv, Protected
      <3>2. out'[s] # NONE => sSecure[s] /\ out'[s].owner = s
        BY <1>4, <1>5, <2>1, <2>4 DEF IInv, SenderInv
      <3>3. \A t \in Streams \ {s} : out'[t] = out[t] /\ used'[t] = used[t] /\ next'[t] = next[t]
        BY <1>1, <1>4, <2>1 DEF IInv, TypeOK, Protected, Keys
      <3>4. next'[s] = n + 1 BY <1>1 DEF IInv, TypeOK
      <3> QED BY <1>1, <2>1, <3>1, <3>2, <3>3, <3>4 DEF IInv, SenderInv
    <2>11. reused' = {}
      BY <1>1, <2>1, <2>2 DEF IInv, GoodInv, IndexNeverReused, SenderInv, Protected
    <2>12. GoodInv'
      BY <1>1, <2>11, KeyIsStream
         DEF IInv, GoodInv, AcceptedOnce, NoneRefused, IndexNeverReused
    <2>13. ReceiverInv' BY <1>1, ReceiverFrame DEF IInv
    <2> QED BY <2>8, <2>9, <2>10, <2>12, <2>13 DEF IInv
  <1>8. CASE SendRtcp(s)
    <2>1. /\ traffic = "rtcp" /\ UNCHANGED highOut
          /\ \/ /\ ~sSecure[s] /\ UNCHANGED <<out, used, reused>>
                /\ net' = [net EXCEPT ![s] = @ \cup {Packet(n, 0, 0)}]
             \/ /\ sSecure[s]
                /\ out' = [out EXCEPT ![s] = [node EXCEPT !.window.seq = count]]
                /\ \/ UNCHANGED <<net, used, reused>>
                   \/ /\ net' = [net EXCEPT ![s] =
                                  @ \cup {Packet(n, count % (RtcpLast + 1), sKey[s])}]
                      /\ Protected(s, count)
      BY <1>4, <1>8 DEF SendRtcp, count, node
    <2>2. count % (RtcpLast + 1) \in Nat BY <1>6, SrtpAssumption, SMT
    <2>3. [node EXCEPT !.window.seq = count] \in Node
      BY <1>4, <1>6 DEF Node, Window
    <2>4. out' \in [Keys -> Node \cup {NONE}] BY <1>4, <2>1, <2>3
    <2>5. used' \in [Streams -> SUBSET Nat] BY <1>6, <2>1 DEF IInv, TypeOK, Protected
    <2>6. net' \in [Streams -> SUBSET Packets]
      BY <1>1, <2>1, <2>2 DEF IInv, TypeOK, Packet, Packets
    <2>7. TypeOK'
      <3>1. next' \in [Streams -> Nat] BY <1>1 DEF IInv, TypeOK
      <3> QED BY <1>1, <2>1, <2>4, <2>5, <2>6, <3>1 DEF IInv, TypeOK
    <2>8. IndexInv' BY <1>1, <2>1 DEF IndexInv
    <2>9. \A i \in used[s] : sSecure[s] => i < count
      BY <1>4, <1>6, <2>1 DEF IInv, TypeOK, SenderInv, Count, count
    <2>10. SenderInv'
      <3>1. sSecure[s] => /\ out'[s] # NONE /\ out'[s].owner = s
                          /\ out'[s].window.seq = count
        BY <1>4, <1>5, <2>1, <2>3, NodeAssumption DEF Node, Window
      <3>2. sSecure[s] => \A i \in used'[s] : i <= count
        BY <1>6, <2>1, <2>9 DEF IInv, TypeOK, Protected
      <3>3. \A t \in Streams \ {s} : out'[t] = out[t] /\ used'[t] = used[t]
        BY <1>4, <2>1 DEF IInv, TypeOK, Protected, Keys
      <3>4. ~sSecure[s] => out'[s] = NONE BY <2>1 DEF IInv, SenderInv
      <3> QED BY <1>1, <2>1, <3>1, <3>2, <3>3, <3>4 DEF IInv, SenderInv
    <2>11. reused' = {}
      <3>1. sSecure[s] => count \notin used[s] BY <1>6, <2>9
      <3> QED BY <2>1, <3>1 DEF IInv, GoodInv, IndexNeverReused, Protected
    <2>12. GoodInv'
      BY <1>1, <2>11, KeyIsStream
         DEF IInv, GoodInv, AcceptedOnce, NoneRefused, IndexNeverReused
    <2>13. ReceiverInv' BY <1>1, ReceiverFrame DEF IInv
    <2> QED BY <2>7, <2>8, <2>10, <2>12, <2>13 DEF IInv
  <1> QED BY <1>7, <1>8 DEF Send

LEMMA ReceiveStep ==
    ASSUME SameByte = {}, IInv, NEW s \in Streams, Receive(s)
    PROVE  IInv'
  <1> DEFINE node == Found(inc, s)
  <1>1. PICK p \in net[s] :
           LET index == IndexOf(s, p)
               newest == IF p.n > seen[s] THEN p.n ELSE seen[s]
           IN  /\ checking[s] = NONE
               /\ highIn[s] = 0 => p.n < M
               /\ seen' = [seen EXCEPT ![s] = newest]
               /\ net' = [net EXCEPT ![s] = Delayed(s, newest)]
               /\ highIn' = IF traffic = "rtp" THEN [highIn EXCEPT ![s] = Newest(index, @)]
                           ELSE highIn
               /\ IF rSecure[s]
                  THEN /\ inc' = [inc EXCEPT ![Key(s)] = node]
                       /\ \/ /\ Passes(node.window, index)
                             /\ checking' =
                                  [checking EXCEPT ![s] = [packet |-> p, index |-> index]]
                             /\ UNCHANGED refused
                          \/ ~Passes(node.window, index) /\ Refuse(s, p) /\ UNCHANGED checking
                  ELSE UNCHANGED <<inc, checking, refused>>
    BY DEF Receive
  <1>2. UNCHANGED <<traffic, next, sKey, rKey, sSecure, rSecure, highOut, out, taken, again, used,
                    reused>>
    BY DEF Receive, sides
  <1> DEFINE index == IndexOf(s, p)
             newest == IF p.n > seen[s] THEN p.n ELSE seen[s]
  <1>3. /\ p \in Packets /\ p.n \in Nat /\ p.index \in Nat /\ seen[s] \in Int
        /\ highIn[s] \in Nat /\ taken[s] \in SUBSET Nat
    BY DEF IInv, TypeOK, Packets
  <1>4. index = p.index /\ index \in Nat BY <1>1, <1>3, ReadIndex DEF IInv
  <1>5. /\ Key(s) = s /\ s \in Keys /\ inc \in [Keys -> Node \cup {NONE}]
        /\ node \in Node /\ node # NONE /\ node.window \in Window /\ node.owner \in Streams
        /\ inc[s] # NONE => node = inc[s]
        /\ inc[s] = NONE => node = [window |-> EmptyWindow, owner |-> s]
    BY FoundNode, KeyIsStream DEF IInv, TypeOK, Node
  <1>6. rSecure[s] => /\ node.owner = s
                      /\ \A i \in taken[s] : ~Passes(node.window, i)
                      /\ Holds(node.window, taken[s])
    <2>1. CASE inc[s] # NONE BY <1>5, <2>1 DEF IInv, ReceiverInv
    <2>2. CASE inc[s] = NONE
      <3>1. rSecure[s] => taken[s] = {} BY <2>2 DEF IInv, ReceiverInv
      <3> QED BY <1>5, <2>2, <3>1, EmptyIsWindow
    <2> QED BY <2>1, <2>2
  <1>7. /\ newest \in Int /\ seen' = [seen EXCEPT ![s] = newest]
        /\ net' = [net EXCEPT ![s] = Delayed(s, newest)]
        /\ Delayed(s, newest) = {q \in net[s] : q.n > newest - Reach}
        /\ highIn' = IF traffic = "rtp" THEN [highIn EXCEPT ![s] = Newest(index, highIn[s])]
                    ELSE highIn
        /\ checking[s] = NONE /\ (highIn[s] = 0 => p.n < M)
    BY <1>1, <1>3 DEF Delayed
  <1>8. \/ /\ rSecure[s] /\ inc' = [inc EXCEPT ![s] = node]
           /\ Passes(node.window, index) /\ UNCHANGED refused
           /\ checking' = [checking EXCEPT ![s] = [packet |-> p, index |-> index]]
        \/ /\ rSecure[s] /\ inc' = [inc EXCEPT ![s] = node]
           /\ ~Passes(node.window, index) /\ Refuse(s, p) /\ UNCHANGED checking
        \/ ~rSecure[s] /\ UNCHANGED <<inc, checking, refused>>
    BY <1>1, <1>5
  <1> HIDE DEF index, newest, node
  <1>9. [packet |-> p, index |-> index] \in Check /\ [packet |-> p, index |-> index] # NONE
    BY <1>3, <1>4, CheckAssumption DEF Check
  <1>10. TypeOK'
    <2>1. highIn' \in [Streams -> Nat] BY <1>4, <1>7 DEF IInv, TypeOK, Newest
    <2>2. net' \in [Streams -> SUBSET Packets] BY <1>7 DEF IInv, TypeOK
    <2>3. inc' \in [Keys -> Node \cup {NONE}] BY <1>5, <1>8
    <2>4. checking' \in [Streams -> Check \cup {NONE}] BY <1>8, <1>9 DEF IInv, TypeOK
    <2>5. seen' \in [Streams -> Int] BY <1>7 DEF IInv, TypeOK
    <2> QED BY <1>2, <2>1, <2>2, <2>3, <2>4, <2>5 DEF IInv, TypeOK
  <1>11. IndexInv'
    <2> SUFFICES ASSUME traffic = "rtp" PROVE IndexInv' BY <1>2 DEF IndexInv
    <2>1. /\ p.index = p.n /\ p.n < next[s] /\ seen[s] < next[s] /\ next[s] \in Nat
          /\ highIn[s] = 0 => p.n >= seen[s]
          /\ highIn[s] # 0 => highIn[s] = seen[s]
      BY DEF IInv, TypeOK, IndexInv
    <2>2. newest < next[s] /\ newest >= seen[s] /\ newest >= p.n
          /\ (newest = p.n \/ newest = seen[s])
      BY <1>3, <2>1 DEF newest
    <2>3. highIn'[s] = Newest(p.n, highIn[s]) /\ seen'[s] = newest
      BY <1>4, <1>7, <2>1 DEF IInv, TypeOK
    <2>4. highIn'[s] # 0 => highIn'[s] = newest
      BY <1>3, <2>1, <2>3 DEF Newest, newest
    <2>5. highIn'[s] = 0 => newest = 0 /\ p.n = 0
      BY <1>3, <2>1, <2>3 DEF Newest, newest
    <2>6. ASSUME NEW q \in net'[s]
          PROVE  /\ q.index = q.n /\ q.n < next[s]
                 /\ newest - Reach < q.n /\ q.n < newest + Reach
                 /\ q.n \in Nat
      <3>1. q \in net[s] /\ q.n > newest - Reach /\ q.n \in Nat
        BY <1>7 DEF IInv, TypeOK, Packets
      <3>2. q.index = q.n /\ q.n < next[s] /\ q.n < seen[s] + Reach
        BY <3>1 DEF IInv, IndexInv
      <3> QED BY <1>3, <1>7, <2>2, <3>1, <3>2, SrtpAssumption
    <2>7. \A t \in Streams \ {s} : highIn'[t] = highIn[t] /\ seen'[t] = seen[t] /\ net'[t] = net[t]
      BY <1>7 DEF IInv, TypeOK
    <2>8. ASSUME NEW t \in Streams
          PROVE  /\ highOut[t] = 0 => next[t] < M
                 /\ highOut[t] # 0 => highOut[t] = next[t] - 1
                 /\ highIn'[t] = 0 => next[t] >= seen'[t] /\ \A q \in net'[t] : q.n >= seen'[t]
                 /\ highIn'[t] # 0 => highIn'[t] = seen'[t]
                 /\ seen'[t] < next[t]
                 /\ \A q \in net'[t] : /\ q.index = q.n /\ q.n < next[t]
                                       /\ seen'[t] - Reach < q.n /\ q.n < seen'[t] + Reach
      <3>1. CASE t = s
        BY <1>3, <2>1, <2>2, <2>3, <2>4, <2>5, <2>6, <3>1 DEF IInv, IndexInv
      <3>2. CASE t # s BY <2>7, <3>2 DEF IInv, IndexInv
      <3> QED BY <3>1, <3>2
    <2> QED BY <1>2, <2>8 DEF IndexInv
  <1>12. ReceiverInv'
    <2>1. \A t \in Streams \ {s} : inc'[t] = inc[t] /\ checking'[t] = checking[t]
      BY <1>5, <1>8 DEF IInv, TypeOK, Keys
    <2>2. rSecure[s] => inc'[s] = node BY <1>5, <1>8
    <2>3. checking'[s] # NONE => /\ checking'[s] = [packet |-> p, index |-> index]
                                 /\ rSecure[s] /\ Passes(node.window, index)
      BY <1>7, <1>8 DEF IInv, TypeOK
    <2>4. ~rSecure[s] => inc'[s] = NONE BY <1>8 DEF IInv, ReceiverInv
    <2> QED BY <1>2, <1>4, <1>5, <1>6, <2>1, <2>2, <2>3, <2>4 DEF IInv, ReceiverInv
  <1>13. SenderInv' BY <1>2, SenderFrame DEF IInv
  <1>14. GoodInv'
    <2>1. rSecure[s] /\ ~Passes(node.window, index) => ~Wanted(s, p)
      <3> SUFFICES ASSUME rSecure[s], ~Passes(node.window, index), Wanted(s, p)
                   PROVE  FALSE
        OBVIOUS
      <3>1. index \in taken[s] \/ \E i \in taken[s] : index <= i - Width
        BY <1>3, <1>4, <1>5, <1>6, KeptOut
      <3> QED BY <1>3, <1>4, <3>1, SrtpAssumption DEF Wanted
    <2>2. refused' = refused BY <1>8, <2>1 DEF Refuse
    <2> QED BY <1>2, <2>2 DEF IInv, GoodInv, AcceptedOnce, NoneRefused, IndexNeverReused
  <1> QED BY <1>10, <1>11, <1>12, <1>13, <1>14 DEF IInv

LEMMA FinishStep ==
    ASSUME SameByte = {}, IInv, NEW s \in Streams, Finish(s)
    PROVE  IInv'
  <1> DEFINE p == checking[s].packet
             index == checking[s].index
             node == inc[s]
  <1>1. /\ checking[s] # NONE /\ node # NONE
        /\ \/ /\ Authentic(s, p, index)
              /\ inc' = [inc EXCEPT ![s].window = Add(@, index)]
              /\ taken' = [taken EXCEPT ![s] = @ \cup {index}]
              /\ again' = IF index \in taken[s] THEN again \cup {s} ELSE again
              /\ UNCHANGED refused
           \/ ~Authentic(s, p, index) /\ Refuse(s, p) /\ UNCHANGED <<inc, taken, again>>
        /\ checking' = [checking EXCEPT ![s] = NONE]
        /\ UNCHANGED <<traffic, next, sKey, rKey, sSecure, rSecure, highOut, highIn, out, net, seen,
                       used, reused>>
    BY KeyIsStream DEF Finish, sides
  <1>2. /\ s \in Keys /\ inc \in [Keys -> Node \cup {NONE}] /\ node \in Node
        /\ node.window \in Window /\ node.owner = s /\ rSecure[s]
        /\ index \in Nat /\ index = p.index /\ Passes(node.window, index)
        /\ taken[s] \in SUBSET Nat
        /\ \A i \in taken[s] : ~Passes(node.window, i)
        /\ Holds(node.window, taken[s])
    <2>1. s \in Keys /\ node \in Node /\ checking[s] \in Check
      BY <1>1, KeyIsStream DEF IInv, TypeOK
    <2> QED BY <1>1, <2>1 DEF IInv, TypeOK, ReceiverInv, Node, Check
  <1>3. index \notin taken[s] BY <1>2
  <1> DEFINE new == [node EXCEPT !.window = Add(node.window, index)]
  <1>4. new \in Node /\ new # NONE /\ new.owner = s /\ new.window = Add(node.window, index)
    BY <1>2, AddIsWindow, NodeAssumption DEF Node
  <1> HIDE DEF p, index, node, new
  <1>5. \/ /\ inc' = [inc EXCEPT ![s] = new] /\ taken' = [taken EXCEPT ![s] = @ \cup {index}]
        \/ UNCHANGED <<inc, taken>>
    BY <1>1 DEF new, node
  <1>6. TypeOK'
    <2>1. inc' \in [Keys -> Node \cup {NONE}] BY <1>2, <1>4, <1>5
    <2>2. taken' \in [Streams -> SUBSET Nat] BY <1>2, <1>5 DEF IInv, TypeOK
    <2>3. checking' \in [Streams -> Check \cup {NONE}] BY <1>1 DEF IInv, TypeOK
    <2> QED BY <1>1, <2>1, <2>2, <2>3 DEF IInv, TypeOK
  <1>7. IndexInv' BY <1>1, IndexFrame DEF IInv
  <1>8. SenderInv' BY <1>1, SenderFrame DEF IInv
  <1>9. \A t \in Streams \ {s} : /\ inc'[t] = inc[t] /\ taken'[t] = taken[t]
                                  /\ checking'[t] = checking[t]
    BY <1>1, <1>2, <1>5 DEF IInv, TypeOK, Keys
  <1>10. checking'[s] = NONE BY <1>1 DEF IInv, TypeOK
  <1>11. ReceiverInv'
    <2>1. /\ inc'[s] # NONE /\ inc'[s].owner = s
          /\ \A i \in taken'[s] : ~Passes(inc'[s].window, i)
          /\ Holds(inc'[s].window, taken'[s])
      <3>1. CASE inc' = [inc EXCEPT ![s] = new] /\ taken' = [taken EXCEPT ![s] = @ \cup {index}]
        <4>1. inc'[s] = new /\ taken'[s] = taken[s] \cup {index}
          BY <1>2, <3>1 DEF IInv, TypeOK
        <4>2. \A i \in taken[s] \cup {index} : ~Passes(Add(node.window, index), i)
          BY <1>2, AddKeepsOut
        <4>3. Holds(Add(node.window, index), taken[s] \cup {index})
          BY <1>2, AddHolds
        <4> QED BY <1>4, <4>1, <4>2, <4>3
      <3>2. CASE UNCHANGED <<inc, taken>> BY <1>1, <1>2, <3>2 DEF node
      <3> QED BY <1>5, <3>1, <3>2
    <2> QED BY <1>1, <1>2, <1>9, <1>10, <2>1 DEF IInv, ReceiverInv
  <1>12. GoodInv'
    <2>1. again' = again BY <1>1, <1>3
    <2>2. refused' = refused
      BY <1>1, <1>2 DEF Refuse, Wanted, Genuine, Authentic
    <2> QED BY <1>1, <2>1, <2>2
            DEF IInv, GoodInv, AcceptedOnce, NoneRefused, IndexNeverReused
  <1> QED BY <1>6, <1>7, <1>8, <1>11, <1>12 DEF IInv

LEMMA StepHolds ==
    ASSUME SameByte = {}, IInv, [Next]_vars
    PROVE  IInv'
  <1>1. CASE Next
    BY <1>1, SenderSecureStep, SenderLeaveStep, ReceiverSecureStep, ReceiverLeaveStep, SendStep,
       ReceiveStep, FinishStep
       DEF Next
  <1>2. CASE UNCHANGED vars
    <2>1. UNCHANGED <<traffic, next, sKey, rKey, sSecure, rSecure, highOut, highIn, out, inc, net,
                      checking, seen, taken, again, refused, used, reused>>
      BY <1>2 DEF vars, sides, nodes, history
    <2>2. TypeOK' BY <2>1 DEF IInv, TypeOK
    <2> QED BY <2>1, <2>2, IndexFrame, ReceiverFrame, SenderFrame, GoodFrame DEF IInv
  <1> QED BY <1>1, <1>2

-----------------------------------------------------------------------------
(* Theorems.  RTP looks nodes up by the whole SSRC and RTCP by one of its    *)
(* bytes; with SameByte = {} that byte tells the streams apart.              *)

LEMMA Invariance ==
    ASSUME SameByte = {}
    PROVE  Spec => []IInv
  <1>1. Init => IInv BY InitHolds
  <1>2. IInv /\ [Next]_vars => IInv' BY StepHolds
  <1> QED BY <1>1, <1>2, PTL DEF Spec

\* The windows, indexes, packets and nodes of every behaviour are of their
\* types; a bit is never set outside a window.
THEOREM TypeCorrect ==
    ASSUME SameByte = {}
    PROVE  Spec => []TypeOK
  <1>1. IInv => TypeOK BY DEF IInv
  <1> QED BY <1>1, Invariance, PTL

\* For any first sequence number, any number of wraps and any loss and delay of
\* less than 2^15 packets, the receiver's estimate of a packet's index is the
\* sender's (_estimate_index, _convert_seq_to_implicit_seq).
THEOREM IndexesAgree ==
    ASSUME SameByte = {}
    PROVE  Spec => []IndexAgrees
  <1>1. IInv => IndexAgrees BY ReadIndex DEF IInv, IndexAgrees
  <1> QED BY <1>1, Invariance, PTL

\* For any window width and any order of packets, repeats and key exchanges no
\* index is taken twice under a key (zrtp_srtp_unprotect).
THEOREM TakenOnce ==
    ASSUME SameByte = {}
    PROVE  Spec => []AcceptedOnce
  <1>1. IInv => AcceptedOnce BY DEF IInv, GoodInv
  <1> QED BY <1>1, Invariance, PTL

\* A new packet of the current key within the window is taken, whatever came
\* before it (zrtp_srtp_unprotect, zrtp_srtp_unprotect_rtcp).
THEOREM WantedTaken ==
    ASSUME SameByte = {}
    PROVE  Spec => []NoneRefused
  <1>1. IInv => NoneRefused BY DEF IInv, GoodInv
  <1> QED BY <1>1, Invariance, PTL

\* No index protects two packets of a stream under a key (zrtp_srtp_protect,
\* zrtp_srtp_protect_rtcp).
THEOREM IndexOnce ==
    ASSUME SameByte = {}
    PROVE  Spec => []IndexNeverReused
  <1>1. IInv => IndexNeverReused BY DEF IInv, GoodInv
  <1> QED BY <1>1, Invariance, PTL

\* A node a packet is being checked against is freed only when its own stream
\* leaves SECURE, for any number of streams, keys and packets
\* (remove_rp_nodes_by_srtp_ctx).
THEOREM FreedByOwner ==
    ASSUME SameByte = {}
    PROVE  Spec => FreedByItsStream
  <1>1. ASSUME IInv, [Next]_vars
        PROVE  [\A s \in Streams :
                  /\ checking[s] # NONE /\ checking'[s] = checking[s]
                  /\ inc[Key(s)] # NONE /\ inc'[Key(s)] = NONE
                  => rSecure[s] /\ ~rSecure'[s]]_vars
    <2> SUFFICES ASSUME Next, NEW s \in Streams,
                        checking[s] # NONE, checking'[s] = checking[s],
                        inc[Key(s)] # NONE, inc'[Key(s)] = NONE
                 PROVE  rSecure[s] /\ ~rSecure'[s]
      BY <1>1
    <2>1. inc[s] # NONE /\ inc'[s] = NONE /\ s \in Keys
      BY KeyIsStream DEF Key
    <2>2. inc \in [Keys -> Node \cup {NONE}] BY <1>1 DEF IInv, TypeOK
    <2>3. PICK u \in Streams :
              \/ SenderSecure(u) \/ SenderLeave(u) \/ ReceiverSecure(u) \/ ReceiverLeave(u)
              \/ Send(u) \/ Receive(u) \/ Finish(u)
      BY DEF Next
    <2>4. CASE SenderSecure(u) \/ SenderLeave(u) \/ ReceiverSecure(u) \/ Send(u)
      BY <2>1, <2>4 DEF SenderSecure, SenderLeave, ReceiverSecure, Send, nodes
    <2>5. CASE ReceiverLeave(u)
      <3>1. inc' = Remove(inc, u) BY <2>5 DEF ReceiverLeave
      <3>2. inc[s].owner = s BY <1>1, <2>1 DEF IInv, ReceiverInv
      <3>3. \A k \in Keys : inc[k] = NONE \/ inc[k].owner # u => Remove(inc, u)[k] = inc[k]
        BY <2>2, RemoveOwn
      <3>4. u = s BY <2>1, <3>1, <3>2, <3>3
      <3>5. rSecure \in [Streams -> BOOLEAN] BY <1>1 DEF IInv, TypeOK
      <3> QED BY <2>5, <3>4, <3>5 DEF ReceiverLeave
    <2>6. CASE Receive(u)
      <3>1. Found(inc, u) # NONE
        BY <2>2, KeyIsStream, NodeAssumption, FoundNode
      <3>2. inc' = inc \/ inc' = [inc EXCEPT ![Key(u)] = Found(inc, u)]
        BY <2>6 DEF Receive
      <3> QED BY <2>1, <2>2, <3>1, <3>2
    <2>7. CASE Finish(u)
      <3>1. u # s \/ checking[s] = NONE
        <4>1. checking'[u] = NONE
          BY <1>1, <2>7 DEF Finish, IInv, TypeOK
        <4> QED BY <4>1
      <3>2. u # s BY <3>1
      <3>3. Key(u) = u BY KeyIsStream
      <3>4. \A k \in Keys : k # u => inc'[k] = inc[k]
        BY <2>2, <2>7, <3>3 DEF Finish
      <3> QED BY <2>1, <3>2, <3>4
    <2> QED BY <2>3, <2>4, <2>5, <2>6, <2>7
  <1> QED BY <1>1, Invariance, PTL DEF Spec, FreedByItsStream

=============================================================================
