------------------------- MODULE LmqttRunOnceProofs -------------------------
(***************************************************************************)
(* lmqtt_client_run_once never leaves the application in a select that     *)
(* waits for too little, and drops nothing that it could move at the end   *)
(* of a connection: for any capacity of the buffers and of the socket, and *)
(* any number of packets.                                                  *)
(***************************************************************************)
EXTENDS LmqttRunOnce, SequenceTheorems, FiniteSetTheorems,
        WellFoundedInduction, TLAPS

(* The values that the variables take.                                     *)
Octets == {"h", "s", "a", "d"}
Sides == {"in", "out"}
Results == {"NONE", "MOVED", "WOULD_BLOCK", "EOF"}

LEMMA MaxLemma ==
  ASSUME NEW n \in Nat, NEW S, S \subseteq 0 .. n, S # {}
  PROVE  Max(S) \in S /\ \A y \in S : y <= Max(S)
<1> DEFINE T == {n - x : x \in S}
<1>0. \A x \in S : x \in Nat /\ n - x \in Nat
  OBVIOUS
<1>1. T \subseteq Nat /\ T # {}
  BY <1>0
<1>2. PICK t \in T : \A y \in T : <<y, t>> \notin OpToRel(<, Nat)
  BY <1>1, WFMin, NatLessThanWellFounded
<1>3. \A y \in T : t <= y
  <2>1. \A y \in T : ~(y < t)
    BY <1>1, <1>2 DEF OpToRel
  <2> QED BY <1>1, <2>1
<1>4. PICK x \in S : t = n - x
  BY <1>2
<1>5. \A y \in S : x >= y
  <2> SUFFICES ASSUME NEW y \in S PROVE x >= y
    OBVIOUS
  <2>1. n - y \in T
    OBVIOUS
  <2>2. t <= n - y
    BY <1>3, <2>1
  <2> QED BY <1>0, <1>4, <2>2
<1>6. Max(S) \in S /\ \A y \in S : Max(S) >= y
  BY <1>4, <1>5 DEF Max
<1> QED BY <1>6

LEMMA MinLemma ==
  ASSUME NEW a \in Int, NEW b \in Int
  PROVE  Min({a, b}) = IF a <= b THEN a ELSE b
<1>1. \E x \in {a, b} : \A y \in {a, b} : x <= y
  OBVIOUS
<1>2. Min({a, b}) \in {a, b} /\ \A y \in {a, b} : Min({a, b}) <= y
  BY <1>1 DEF Min
<1> QED BY <1>2

LEMMA StringsLemma ==
  ASSUME NEW q \in Seq(Octets)
  PROVE  /\ Strings(q) \in Nat /\ Acks(q) \in Nat
         /\ (\A i \in 1 .. Len(q) : q[i] # "s") => Strings(q) = 0
<1>1. IsFiniteSet(1 .. Len(q))
  BY LenProperties, FS_Interval
<1>2. /\ IsFiniteSet({i \in 1 .. Len(q) : q[i] = "s"})
      /\ IsFiniteSet({i \in 1 .. Len(q) : q[i] = "a"})
  BY <1>1, FS_Subset
<1>3. Strings(q) \in Nat /\ Acks(q) \in Nat
  BY <1>2, FS_CardinalityType DEF Strings, Acks
<1>4. ASSUME \A i \in 1 .. Len(q) : q[i] # "s"
      PROVE  Strings(q) = 0
  <2>1. {i \in 1 .. Len(q) : q[i] = "s"} = {}
    BY <1>4
  <2> QED BY <2>1, FS_EmptySet DEF Strings
<1> QED BY <1>3, <1>4

(* A prefix and the rest of a sequence.                                    *)
LEMMA Prefix ==
  ASSUME NEW S, NEW q \in Seq(S), NEW n \in 0 .. Len(q)
  PROVE  /\ SubSeq(q, 1, n) \in Seq(S) /\ Len(SubSeq(q, 1, n)) = n
         /\ \A i \in 1 .. n : SubSeq(q, 1, n)[i] = q[i]
         /\ Drop(q, n) \in Seq(S) /\ Len(Drop(q, n)) = Len(q) - n
<1>1. Len(q) \in Nat /\ \A i \in 1 .. Len(q) : q[i] \in S
  BY LenProperties, ElementOfSeq
<1>2. /\ SubSeq(q, 1, n) \in Seq(S)
      /\ Len(SubSeq(q, 1, n)) = IF 1 <= n THEN n - 1 + 1 ELSE 0
      /\ \A i \in 1 .. n - 1 + 1 : SubSeq(q, 1, n)[i] = q[1 + i - 1]
  BY <1>1, SubSeqProperties
<1>3. /\ SubSeq(q, n + 1, Len(q)) \in Seq(S)
      /\ Len(SubSeq(q, n + 1, Len(q))) =
           IF n + 1 <= Len(q) THEN Len(q) - (n + 1) + 1 ELSE 0
  BY <1>1, SubSeqProperties
<1> QED BY <1>1, <1>2, <1>3 DEF Drop

LEMMA NothingMoved ==
  ASSUME NEW q \in Seq(Octets)
  PROVE  Strings(SubSeq(q, 1, 0)) = 0 /\ Drop(q, 0) = q
<1> DEFINE p == SubSeq(q, 1, 0)
<1>1. 0 \in 0 .. Len(q)
  BY LenProperties
<1>2. p \in Seq(Octets) /\ Len(p) = 0
  BY <1>1, Prefix
<1>3. Drop(q, 0) = q
  BY SubSeqFull DEF Drop
<1> HIDE DEF p
<1>4. \A i \in 1 .. Len(p) : p[i] # "s"
  BY <1>2
<1>5. Strings(p) = 0
  BY <1>2, <1>4, StringsLemma
<1> QED BY <1>3, <1>5 DEF p

(* What is moved fits and does not take more of the strings than they      *)
(* give; nothing is moved only if there is nothing, no room, or a string   *)
(* that gives or takes nothing.                                            *)
LEMMA MovedLemma ==
  ASSUME NEW bytes \in Seq(Octets), NEW limit \in Nat, NEW strings \in Nat
  PROVE  LET n == Moved(bytes, limit, strings)
         IN /\ n \in 0 .. Len(bytes) /\ n <= limit
            /\ Strings(SubSeq(bytes, 1, n)) <= strings
            /\ n = 0 /\ bytes # <<>> /\ limit > 0 => bytes[1] = "s"
<1> DEFINE most == Min({Len(bytes), limit})
           fits(n) == /\ Strings(SubSeq(bytes, 1, n)) <= strings
                      /\ \A i \in 1 .. n - 1 : bytes[i] # "d"
           S == {n \in 0 .. most : fits(n)}
           m == Max(S)
<1>1. Len(bytes) \in Nat
  BY LenProperties
<1>2. most \in Nat /\ most <= Len(bytes) /\ most <= limit
      /\ (Len(bytes) > 0 /\ limit > 0 => most > 0)
  BY <1>1, MinLemma
<1> HIDE DEF most
<1>3. fits(0)
  BY NothingMoved
<1>4. m \in S /\ \A y \in S : y <= m
  <2>1. S \subseteq 0 .. most /\ S # {}
    BY <1>2, <1>3
  <2> HIDE DEF S
  <2> QED BY <1>2, <2>1, MaxLemma
<1>5. ASSUME m = 0, bytes # <<>>, limit > 0, bytes[1] # "s"
      PROVE  FALSE
  <2>1. Len(bytes) > 0
    BY <1>1, <1>5, EmptySeq
  <2>2. 1 \in 0 .. Len(bytes) /\ 1 \in 0 .. most
    BY <1>1, <1>2, <1>5, <2>1
  <2>3. /\ SubSeq(bytes, 1, 1) \in Seq(Octets) /\ Len(SubSeq(bytes, 1, 1)) = 1
        /\ SubSeq(bytes, 1, 1)[1] = bytes[1]
    BY <2>2, Prefix
  <2>4. Strings(SubSeq(bytes, 1, 1)) = 0
    <3> DEFINE q == SubSeq(bytes, 1, 1)
    <3>1. q \in Seq(Octets) /\ \A i \in 1 .. Len(q) : q[i] # "s"
      BY <1>5, <2>3
    <3> HIDE DEF q
    <3>2. Strings(q) = 0
      BY <3>1, StringsLemma
    <3> QED BY <3>2 DEF q
  <2>5. 1 \in S
    BY <2>2, <2>4
  <2> QED BY <1>4, <1>5, <2>5
<1>6. Moved(bytes, limit, strings) = m
  BY DEF Moved, most
<1>7. m \in 0 .. most /\ Strings(SubSeq(bytes, 1, m)) <= strings
  BY <1>4
<1> HIDE DEF m, S
<1> QED BY <1>1, <1>2, <1>5, <1>6, <1>7

-----------------------------------------------------------------------------
Types ==
  /\ queue \in Seq(Octets) /\ read_buf \in Seq(Octets)
  /\ sock_in \in Seq(Octets) /\ rest \in Seq(Octets)
  /\ Len(read_buf) <= RdCapacity /\ write_buf \in 0 .. WrCapacity
  /\ room \in 0 .. SocketRoom /\ source \in Nat /\ sink \in Nat
  /\ \A s \in Sides :
       transfer[s] \in [available : BOOLEAN, result : Results]

(* A string that blocks the decoder has a byte in read_buf.                *)
BlockedHasBytes == rx_blocked => read_buf # <<>>

(* The write side is over because the socket took nothing, or because      *)
(* there is nothing to write, and nothing more is going to be encoded.  If *)
(* the encoder has nothing to give, it has a string that blocks, or no     *)
(* packet.                                                                 *)
Outputs ==
  /\ ~transfer["out"].available =>
       \/ transfer["out"].result = "WOULD_BLOCK"
       \/ write_buf = 0 /\ ~transfer["in"].available
  /\ transfer["in"].result = "WOULD_BLOCK" => tx_blocked \/ queue = <<>>

(* The decoder is over because a string blocks, or because there is        *)
(* nothing to decode and nothing more is going to be read; reading ends    *)
(* only at a full read_buf that the decoder cannot make room in, unless    *)
(* nothing has been read in this call.                                     *)
Inputs ==
  /\ ~transfer["out"].available =>
       \/ rx_blocked /\ transfer["out"].result = "WOULD_BLOCK"
       \/ read_buf = <<>> /\ ~transfer["in"].available
  /\ transfer["in"].result = "MOVED" =>
       \/ rx_blocked /\ ~transfer["out"].available
       \/ transfer["in"].available /\ Len(read_buf) < RdCapacity
  /\ \/ "CONN_WR" \in flags
     \/ write_buf = 0 /\ (had_current => "DATA_RD" \in flags)

RunOnceInv ==
  /\ Types /\ BlockedHasBytes
  /\ state = "up" /\ pc = "output" => Outputs
  /\ state = "up" /\ pc = "input" => Inputs
  /\ NoDeafSelect /\ NoMuteSelect

-----------------------------------------------------------------------------
(* One turn of a transfer.                                                 *)

LEMMA AfterLemma ==
  ASSUME NEW side \in Sides, NEW moves, NEW result \in Results,
         transfer[side] \in [available : BOOLEAN, result : Results]
  PROVE  LET after == After(moves, side, result)
         IN /\ after \in [available : BOOLEAN, result : Results]
            /\ moves => /\ after.available <=> result = "MOVED"
                        /\ after.result = result
            /\ ~moves => /\ ~after.available
                         /\ after.result = transfer[side].result
<1>1. CASE moves
  <2> DEFINE moved == result = "MOVED"
  <2>1. After(moves, side, result) =
          [available |-> moved, result |-> result]
    BY <1>1 DEF After
  <2>2. moved \in BOOLEAN
    OBVIOUS
  <2> HIDE DEF moved
  <2>3. /\ After(moves, side, result) \in
             [available : BOOLEAN, result : Results]
        /\ After(moves, side, result).available = moved
        /\ After(moves, side, result).result = result
    BY <2>1, <2>2
  <2> QED BY <1>1, <2>3 DEF moved
<1>2. CASE ~moves
  <2>1. After(moves, side, result) =
          [transfer[side] EXCEPT !.available = FALSE]
    BY <1>2 DEF After
  <2> QED BY <1>2, <2>1
<1> QED BY <1>1, <1>2

LEMMA EncodeResultType ==
  ASSUME NEW n
  PROVE  /\ EncodeResult(n) \in Results \ {"NONE"}
         /\ EncodeResult(n) = "EOF" <=> tx_closed
<1>1. CASE tx_closed
  BY <1>1 DEF EncodeResult, Results
<1>2. CASE ~tx_closed
  BY <1>2 DEF EncodeResult, Results
<1> QED BY <1>1, <1>2

LEMMA OutputKeeps ==
  ASSUME RunOnceInv, state = "up", Output
  PROVE  RunOnceInv'
<1> DEFINE encodes == CanMove("in", write_buf < WrCapacity)
           n == IF ~encodes \/ tx_closed THEN 0
                ELSE Moved(queue, WrCapacity - write_buf, source)
           result == EncodeResult(n)
           writes == CanMove("out", write_buf + n > 0)
           w == IF writes /\ conn # "reset" THEN Min({write_buf + n, room})
                ELSE 0
           moved == IF w > 0 THEN "MOVED" ELSE "WOULD_BLOCK"
           tin == transfer["in"]
           tout == transfer["out"]
<1>1. /\ Types /\ BlockedHasBytes /\ Outputs /\ pc = "output"
  BY DEF RunOnceInv, Output
<1>2. /\ queue \in Seq(Octets) /\ write_buf \in Nat /\ write_buf <= WrCapacity
      /\ room \in Nat /\ room <= SocketRoom /\ source \in Nat
      /\ WrCapacity \in Nat \ {0} /\ SocketRoom \in Nat \ {0}
      /\ tin \in [available : BOOLEAN, result : Results]
      /\ tout \in [available : BOOLEAN, result : Results]
      /\ Len(queue) \in Nat
  BY <1>1, RunOnceAssumption, LenProperties DEF Types, Sides
<1>3. /\ queue' = Drop(queue, n)
      /\ source' = source - Strings(SubSeq(queue, 1, n))
      /\ tx_blocked' = IF encodes THEN result = "WOULD_BLOCK" /\ queue' # <<>>
                       ELSE tx_blocked
      /\ write_buf' = write_buf + n - w /\ room' = room - w
      /\ transfer' = [in |-> After(encodes, "in", result),
                      out |-> After(writes, "out", moved)]
  BY DEF Output
<1>4. /\ read_buf' = read_buf /\ rx_blocked' = rx_blocked
      /\ sock_in' = sock_in /\ rest' = rest /\ sink' = sink /\ pc' = pc
  BY DEF Output, rx
<1>5. /\ encodes <=> tin.available /\ write_buf < WrCapacity
      /\ writes <=> tout.available /\ write_buf + n > 0
  BY DEF CanMove
<1>6. /\ n \in 0 .. Len(queue) /\ n <= WrCapacity - write_buf
      /\ Strings(SubSeq(queue, 1, n)) \in Nat
      /\ Strings(SubSeq(queue, 1, n)) <= source
      /\ ~encodes => n = 0
      /\ encodes /\ ~tx_closed /\ n = 0 /\ queue # <<>> => queue[1] = "s"
  <2>1. CASE ~encodes \/ tx_closed
    <3>1. n = 0 /\ Strings(SubSeq(queue, 1, 0)) = 0
      BY <1>2, <2>1, NothingMoved
    <3> HIDE DEF n, encodes
    <3>2. Strings(SubSeq(queue, 1, n)) = 0
      BY <3>1
    <3> QED BY <1>2, <2>1, <3>1, <3>2
  <2>2. CASE ~(~encodes \/ tx_closed)
    <3> DEFINE limit == WrCapacity - write_buf
    <3>1. n = Moved(queue, limit, source)
      BY <2>2
    <3>2. limit \in Nat /\ limit > 0
      BY <1>2, <1>5, <2>2
    <3> HIDE DEF n, encodes, limit
    <3>3. /\ n \in 0 .. Len(queue) /\ n <= limit
          /\ Strings(SubSeq(queue, 1, n)) <= source
          /\ n = 0 /\ queue # <<>> => queue[1] = "s"
      BY <1>2, <3>1, <3>2, MovedLemma
    <3>4. SubSeq(queue, 1, n) \in Seq(Octets)
      BY <1>2, <3>3, Prefix
    <3>5. Strings(SubSeq(queue, 1, n)) \in Nat
      BY <3>4, StringsLemma
    <3> QED BY <2>2, <3>3, <3>5 DEF limit
  <2> QED BY <2>1, <2>2
<1>7. /\ result \in Results \ {"NONE"} /\ moved \in Results
      /\ result = "EOF" <=> tx_closed
  BY EncodeResultType DEF Results
<1>8. n = 0 /\ write_buf = 0 /\ encodes => result # "MOVED"
  <2>1. CASE tx_closed
    BY <1>7, <2>1
  <2>2. CASE ~tx_closed /\ queue = <<>>
    BY <2>2 DEF EncodeResult
  <2>3. CASE ~tx_closed /\ queue # <<>>
    <3> SUFFICES ASSUME n = 0, write_buf = 0, encodes
                 PROVE  EncodeResult(0) = "WOULD_BLOCK"
      OBVIOUS
    <3> HIDE DEF n, encodes
    <3>1. queue[1] = "s" /\ Len(queue) > 0
      BY <1>2, <1>6, <2>3, EmptySeq
    <3>2. queue[0 + 1] = "s" /\ 0 < Len(queue) /\ 0 < WrCapacity - write_buf
      BY <1>2, <3>1
    <3> QED BY <2>3, <3>2 DEF EncodeResult
  <2> QED BY <2>1, <2>2, <2>3
<1> HIDE DEF encodes, n, result, writes
<1>9. w \in Nat /\ w <= write_buf + n /\ w <= room
  <2>1. n \in Nat /\ write_buf + n \in Nat
    BY <1>2, <1>6
  <2>2. Min({write_buf + n, room}) =
          IF write_buf + n <= room THEN write_buf + n ELSE room
    BY <1>2, <2>1, MinLemma
  <2> QED BY <1>2, <2>1, <2>2
<1> HIDE DEF w
<1>10. LET after == After(encodes, "in", result)
       IN /\ after \in [available : BOOLEAN, result : Results]
          /\ encodes => /\ after.available <=> result = "MOVED"
                        /\ after.result = result
          /\ ~encodes => ~after.available /\ after.result = tin.result
  BY <1>2, <1>7, AfterLemma DEF Sides
<1>11. LET after == After(writes, "out", moved)
       IN /\ after \in [available : BOOLEAN, result : Results]
          /\ writes => /\ after.available <=> moved = "MOVED"
                       /\ after.result = moved
          /\ ~writes => ~after.available /\ after.result = tout.result
  BY <1>2, <1>7, AfterLemma DEF Sides
<1>12. /\ transfer'["in"] = After(encodes, "in", result)
       /\ transfer'["out"] = After(writes, "out", moved)
  BY <1>3
<1> DEFINE tin2 == transfer'["in"]
           tout2 == transfer'["out"]
<1>13. Types'
  <2>1. queue' \in Seq(Octets)
    BY <1>2, <1>3, <1>6, Prefix
  <2>2. write_buf' \in 0 .. WrCapacity /\ room' \in 0 .. SocketRoom
    BY <1>2, <1>3, <1>6, <1>9
  <2>3. source' \in Nat
    BY <1>2, <1>3, <1>6
  <2>4. \A s \in Sides :
          transfer'[s] \in [available : BOOLEAN, result : Results]
    BY <1>10, <1>11, <1>12 DEF Sides
  <2> QED BY <1>1, <1>4, <2>1, <2>2, <2>3, <2>4 DEF Types
<1>14. ASSUME ~tout2.available
       PROVE  \/ tout2.result = "WOULD_BLOCK"
              \/ write_buf' = 0 /\ ~tin2.available
  <2>1. CASE writes
    BY <1>11, <1>12, <1>14, <2>1
  <2>2. CASE ~writes /\ ~tout.available
    <3>1. CASE tout.result = "WOULD_BLOCK"
      BY <1>11, <1>12, <2>2, <3>1
    <3>2. CASE write_buf = 0 /\ ~tin.available
      <4>1. ~encodes /\ n = 0
        BY <1>5, <1>6, <3>2
      <4>2. w = 0
        BY <1>9, <3>2, <4>1
      <4> QED BY <1>3, <1>10, <1>12, <3>2, <4>1, <4>2
    <3> QED BY <1>1, <2>2, <3>1, <3>2 DEF Outputs
  <2>3. CASE ~writes /\ tout.available
    <3>1. n = 0 /\ write_buf = 0
      BY <1>2, <1>5, <1>6, <2>3
    <3>2. w = 0
      BY <1>9, <3>1
    <3>3. ~tin2.available
      BY <1>8, <1>10, <1>12, <3>1
    <3> QED BY <1>3, <3>1, <3>2, <3>3
  <2> QED BY <2>1, <2>2, <2>3
<1>15. ASSUME tin2.result = "WOULD_BLOCK"
       PROVE  tx_blocked' \/ queue' = <<>>
  <2>1. CASE encodes
    BY <1>3, <1>10, <1>12, <1>15, <2>1
  <2>2. CASE ~encodes
    <3>1. tin.result = "WOULD_BLOCK" /\ n = 0
      BY <1>6, <1>10, <1>12, <1>15, <2>2
    <3>2. queue' = queue
      BY <1>2, <1>3, <3>1, NothingMoved
    <3> QED BY <1>1, <1>3, <2>2, <3>1, <3>2 DEF Outputs
  <2> QED BY <2>1, <2>2
<1>16. Outputs'
  BY <1>14, <1>15 DEF Outputs
<1>17. pc' = "output" /\ BlockedHasBytes'
  BY <1>1, <1>4 DEF BlockedHasBytes
<1> QED BY <1>13, <1>16, <1>17 DEF RunOnceInv, NoDeafSelect, NoMuteSelect,
                                   Waiting

LEMMA InputKeeps ==
  ASSUME RunOnceInv, state = "up", Input
  PROVE  RunOnceInv'
<1> DEFINE reads == CanMove("in", Len(read_buf) < RdCapacity)
           broken == reads /\ conn = "reset"
           n == IF ~reads \/ broken THEN 0
                ELSE Min({RdCapacity - Len(read_buf), Len(sock_in)})
           filled == read_buf \o SubSeq(sock_in, 1, n)
           decodes == ~broken /\ CanMove("out", filled # <<>>)
           d == IF decodes THEN Moved(filled, RdCapacity, sink) ELSE 0
           decoded == SubSeq(filled, 1, d)
           got == IF n > 0 THEN "MOVED"
                  ELSE IF conn = "open" THEN "WOULD_BLOCK" ELSE "EOF"
           moved == IF d > 0 THEN "MOVED" ELSE "WOULD_BLOCK"
           acks == [i \in 1 .. Acks(decoded) |-> "h"]
           tin == transfer["in"]
           tout == transfer["out"]
<1>1. /\ Types /\ BlockedHasBytes /\ Inputs /\ pc = "input"
  BY DEF RunOnceInv, Input
<1>2. /\ read_buf \in Seq(Octets) /\ sock_in \in Seq(Octets)
      /\ queue \in Seq(Octets) /\ sink \in Nat
      /\ Len(read_buf) \in Nat /\ Len(read_buf) <= RdCapacity
      /\ Len(sock_in) \in Nat /\ RdCapacity \in Nat \ {0}
      /\ tin \in [available : BOOLEAN, result : Results]
      /\ tout \in [available : BOOLEAN, result : Results]
  BY <1>1, RunOnceAssumption, LenProperties DEF Types, Sides
<1>3. /\ sock_in' = Drop(sock_in, n) /\ read_buf' = Drop(filled, d)
      /\ rx_blocked' = IF decodes THEN d = 0 ELSE rx_blocked
      /\ sink' = sink - Strings(decoded) /\ queue' = queue \o acks
      /\ transfer' = [in |-> After(reads, "in", got),
                      out |-> After(decodes, "out", moved)]
      /\ state' = IF broken THEN "failed" ELSE state
  BY DEF Input
<1>4. /\ write_buf' = write_buf /\ tx_blocked' = tx_blocked /\ flags' = flags
      /\ rest' = rest /\ room' = room /\ source' = source /\ pc' = pc
      /\ had_current' = had_current
  BY DEF Input
<1>5. /\ reads <=> tin.available /\ Len(read_buf) < RdCapacity
      /\ broken => reads
      /\ decodes <=> ~broken /\ tout.available /\ filled # <<>>
  BY DEF CanMove
<1>6. /\ n \in 0 .. Len(sock_in) /\ Len(read_buf) + n <= RdCapacity
      /\ ~reads => n = 0
  <2>1. CASE ~reads \/ broken
    BY <1>2, <2>1
  <2>2. CASE ~(~reads \/ broken)
    <3> DEFINE left == RdCapacity - Len(read_buf)
    <3>1. n = Min({left, Len(sock_in)}) /\ left \in Nat
      BY <1>2, <2>2
    <3>2. n = IF left <= Len(sock_in) THEN left ELSE Len(sock_in)
      BY <1>2, <3>1, MinLemma
    <3> HIDE DEF n
    <3> QED BY <1>2, <2>2, <3>1, <3>2
  <2> QED BY <2>1, <2>2
<1> DEFINE chunk == SubSeq(sock_in, 1, n)
<1>7. /\ filled \in Seq(Octets) /\ Len(filled) = Len(read_buf) + n
      /\ filled = <<>> <=> read_buf = <<>> /\ n = 0
      /\ Len(filled) \in Nat
  <2>1. chunk \in Seq(Octets) /\ Len(chunk) = n
    BY <1>2, <1>6, Prefix
  <2>2. filled = read_buf \o chunk
    OBVIOUS
  <2> HIDE DEF n, filled, chunk
  <2>3. filled \in Seq(Octets) /\ Len(filled) = Len(read_buf) + n
    BY <1>2, <2>1, <2>2, ConcatProperties
  <2>4. /\ filled = <<>> <=> Len(filled) = 0
        /\ read_buf = <<>> <=> Len(read_buf) = 0
    BY <1>2, <2>3, EmptySeq
  <2> QED BY <1>2, <1>6, <2>3, <2>4
<1> HIDE DEF reads, broken, n, filled
<1>8. /\ d \in 0 .. Len(filled)
      /\ ~decodes => d = 0
      /\ Strings(decoded) \in Nat /\ Strings(decoded) <= sink
      /\ Acks(decoded) \in Nat
  <2>1. d \in 0 .. Len(filled) /\ Strings(decoded) <= sink
    <3>1. CASE decodes
      <4>1. d = Moved(filled, RdCapacity, sink)
        BY <3>1
      <4> HIDE DEF d
      <4> QED BY <1>2, <1>7, <4>1, MovedLemma
    <3>2. CASE ~decodes
      <4>1. d = 0
        BY <3>2
      <4> HIDE DEF d
      <4> QED BY <1>2, <1>7, <4>1, NothingMoved
    <3> QED BY <3>1, <3>2
  <2>2. ~decodes => d = 0
    OBVIOUS
  <2> HIDE DEF d
  <2>3. decoded \in Seq(Octets)
    BY <1>7, <2>1, Prefix
  <2> HIDE DEF decoded
  <2> QED BY <2>1, <2>2, <2>3, StringsLemma
<1> HIDE DEF decodes, d, decoded
<1>9. acks \in Seq(Octets)
  BY <1>8 DEF Octets
<1> HIDE DEF acks
<1>10. /\ read_buf' \in Seq(Octets) /\ Len(read_buf') = Len(filled) - d
       /\ read_buf' = <<>> <=> Len(filled) = d
       /\ d = 0 => read_buf' = filled
  <2>1. read_buf' \in Seq(Octets) /\ Len(read_buf') = Len(filled) - d
    BY <1>3, <1>7, <1>8, Prefix
  <2>2. read_buf' = <<>> <=> Len(read_buf') = 0
    BY <2>1, EmptySeq
  <2> QED BY <1>3, <1>7, <1>8, <2>1, <2>2, NothingMoved
<1>11. LET after == After(reads, "in", got)
       IN /\ after \in [available : BOOLEAN, result : Results]
          /\ reads => /\ after.available <=> got = "MOVED"
                      /\ after.result = got
          /\ ~reads => ~after.available /\ after.result = tin.result
  <2>1. got \in Results
    BY DEF Results
  <2> HIDE DEF got
  <2> QED BY <1>2, <2>1, AfterLemma DEF Sides
<1>12. LET after == After(decodes, "out", moved)
       IN /\ after \in [available : BOOLEAN, result : Results]
          /\ decodes => /\ after.available <=> moved = "MOVED"
                        /\ after.result = moved
          /\ ~decodes => ~after.available /\ after.result = tout.result
  <2>1. moved \in Results
    BY DEF Results
  <2> HIDE DEF moved
  <2> QED BY <1>2, <2>1, AfterLemma DEF Sides
<1>13. /\ transfer'["in"] = After(reads, "in", got)
       /\ transfer'["out"] = After(decodes, "out", moved)
  BY <1>3
<1> DEFINE tin2 == transfer'["in"]
           tout2 == transfer'["out"]
<1>14. Types'
  <2>1. sock_in' \in Seq(Octets)
    BY <1>2, <1>3, <1>6, Prefix
  <2>2. Len(read_buf') <= RdCapacity
    BY <1>2, <1>6, <1>7, <1>8, <1>10
  <2>3. sink' \in Nat
    BY <1>2, <1>3, <1>8
  <2>4. queue' \in Seq(Octets)
    BY <1>2, <1>3, <1>9, ConcatProperties
  <2>5. \A s \in Sides :
          transfer'[s] \in [available : BOOLEAN, result : Results]
    BY <1>11, <1>12, <1>13 DEF Sides
  <2> QED BY <1>1, <1>4, <1>10, <2>1, <2>2, <2>3, <2>4, <2>5 DEF Types
<1>15. BlockedHasBytes'
  <2>1. CASE decodes
    BY <1>3, <1>5, <1>10, <2>1 DEF BlockedHasBytes
  <2>2. CASE ~decodes
    BY <1>1, <1>3, <1>7, <1>8, <1>10, <2>2 DEF BlockedHasBytes
  <2> QED BY <2>1, <2>2
<1>16. ASSUME ~broken, ~tout2.available
       PROVE  \/ rx_blocked' /\ tout2.result = "WOULD_BLOCK"
              \/ read_buf' = <<>> /\ ~tin2.available
  <2>1. CASE decodes
    <3>1. moved # "MOVED"
      BY <1>12, <1>13, <1>16, <2>1
    <3>2. d = 0 /\ moved = "WOULD_BLOCK"
      BY <1>8, <3>1
    <3> HIDE DEF moved
    <3> QED BY <1>3, <1>12, <1>13, <2>1, <3>2
  <2>2. CASE ~decodes /\ ~tout.available
    <3>1. tout2.result = tout.result /\ (rx_blocked' <=> rx_blocked)
      BY <1>3, <1>12, <1>13, <2>2
    <3>2. CASE rx_blocked /\ tout.result = "WOULD_BLOCK"
      BY <3>1, <3>2
    <3>3. CASE read_buf = <<>> /\ ~tin.available
      <4>1. ~reads /\ n = 0 /\ d = 0
        BY <1>5, <1>6, <1>8, <2>2, <3>3
      <4>2. filled = <<>> /\ read_buf' = filled
        BY <1>7, <1>10, <3>3, <4>1
      <4>3. ~tin2.available
        BY <1>11, <1>13, <4>1
      <4> QED BY <4>2, <4>3
    <3> QED BY <1>1, <2>2, <3>2, <3>3 DEF Inputs
  <2>3. CASE ~decodes /\ tout.available
    <3>1. filled = <<>> /\ n = 0 /\ read_buf' = filled
      BY <1>5, <1>7, <1>8, <1>10, <1>16, <2>3
    <3>2. got # "MOVED"
      BY <3>1
    <3> HIDE DEF got
    <3>3. ~tin2.available
      BY <1>11, <1>13, <3>2
    <3> QED BY <3>1, <3>3
  <2> QED BY <2>1, <2>2, <2>3
<1>17. ASSUME ~broken, tin2.result = "MOVED"
       PROVE  \/ rx_blocked' /\ ~tout2.available
              \/ tin2.available /\ Len(read_buf') < RdCapacity
  <2>1. CASE reads /\ d > 0
    <3>1. got = "MOVED" /\ tin2.available
      BY <1>11, <1>13, <1>17, <2>1
    <3>2. Len(read_buf') < RdCapacity
      BY <1>2, <1>6, <1>7, <1>8, <1>10, <2>1
    <3> QED BY <3>1, <3>2
  <2>2. CASE reads /\ ~(d > 0)
    <3>1. got = "MOVED"
      BY <1>11, <1>13, <1>17, <2>2
    <3>2. n > 0 /\ filled # <<>> /\ d = 0 /\ tin.available
      BY <1>5, <1>6, <1>7, <1>8, <2>2, <3>1
    <3>3. CASE decodes
      <4>1. moved = "WOULD_BLOCK"
        BY <3>2
      <4> HIDE DEF moved
      <4> QED BY <1>3, <1>12, <1>13, <3>2, <3>3, <4>1
    <3>4. CASE ~decodes
      <4>1. ~tout.available
        BY <1>5, <1>17, <3>2, <3>4
      <4>2. rx_blocked
        BY <1>1, <3>2, <4>1 DEF Inputs
      <4> QED BY <1>3, <1>12, <1>13, <3>4, <4>2
    <3> QED BY <3>3, <3>4
  <2>3. CASE ~reads
    <3>1. tin.result = "MOVED"
      BY <1>11, <1>13, <1>17, <2>3
    <3>2. ~(tin.available /\ Len(read_buf) < RdCapacity)
      BY <1>5, <2>3
    <3>3. rx_blocked /\ ~tout.available
      BY <1>1, <3>1, <3>2 DEF Inputs
    <3>4. ~decodes
      BY <1>5, <3>3
    <3> QED BY <1>3, <1>12, <1>13, <3>3, <3>4
  <2> QED BY <2>1, <2>2, <2>3
<1>18. state' = "up" => Inputs'
  <2>1. state' = "up" => ~broken
    BY <1>3
  <2> QED BY <1>1, <1>4, <1>16, <1>17, <2>1 DEF Inputs
<1> QED BY <1>1, <1>4, <1>14, <1>15, <1>18 DEF RunOnceInv, NoDeafSelect,
                                               NoMuteSelect, Waiting

-----------------------------------------------------------------------------
(* The ends of the transfers, and what happens between the calls.          *)

LEMMA FreshStarts ==
  ASSUME transfer' = Fresh
  PROVE  /\ \A s \in Sides :
              transfer'[s] \in [available : BOOLEAN, result : Results]
         /\ transfer'["in"] = [available |-> TRUE, result |-> "NONE"]
         /\ transfer'["out"] = [available |-> TRUE, result |-> "NONE"]
         /\ Outputs'
<1>1. \A s \in Sides :
        transfer'[s] = [available |-> TRUE, result |-> "NONE"]
  BY DEF Fresh, Sides
<1>2. [available |-> TRUE, result |-> "NONE"]
        \in [available : BOOLEAN, result : Results]
  BY DEF Results
<1>3. /\ transfer'["in"] = [available |-> TRUE, result |-> "NONE"]
      /\ transfer'["out"] = [available |-> TRUE, result |-> "NONE"]
  BY <1>1 DEF Sides
<1>4. /\ transfer'["out"].available
      /\ transfer'["in"].result # "WOULD_BLOCK"
  BY <1>3
<1> QED BY <1>1, <1>2, <1>3, <1>4 DEF Outputs

LEMMA RunOnceInit == Init => RunOnceInv
<1> SUFFICES ASSUME Init PROVE RunOnceInv
  OBVIOUS
<1>1. \A s \in Sides : transfer[s] \in [available : BOOLEAN, result : Results]
  <2>1. \A s \in Sides : transfer[s] = [available |-> TRUE, result |-> "NONE"]
    BY DEF Init, Fresh, Sides
  <2>2. [available |-> TRUE, result |-> "NONE"]
          \in [available : BOOLEAN, result : Results]
    BY DEF Results
  <2> QED BY <2>1, <2>2
<1>2. /\ queue \in Seq(Octets) /\ read_buf \in Seq(Octets)
      /\ sock_in \in Seq(Octets) /\ rest \in Seq(Octets)
  BY DEF Init, Octets
<1>3. /\ Len(read_buf) <= RdCapacity /\ write_buf \in 0 .. WrCapacity
      /\ room \in 0 .. SocketRoom /\ source \in Nat /\ sink \in Nat
  BY RunOnceAssumption, EmptySeq DEF Init
<1>4. pc = "app" /\ called /\ ~rx_blocked
  BY DEF Init
<1> QED BY <1>1, <1>2, <1>3, <1>4 DEF RunOnceInv, Types, BlockedHasBytes,
                                      NoDeafSelect, NoMuteSelect, Waiting

LEMMA EndOutputKeeps ==
  ASSUME RunOnceInv, EndOutput
  PROVE  RunOnceInv'
<1>1. /\ Types /\ BlockedHasBytes /\ Outputs /\ state = "up"
  BY DEF RunOnceInv, EndOutput, Ended
<1>2. /\ transfer' = Fresh /\ pc' = "input"
      /\ UNCHANGED <<queue, read_buf, sock_in, rest, write_buf, room, source>>
      /\ UNCHANGED <<sink, rx_blocked>>
      /\ had_current' = (queue # <<>>)
  BY DEF EndOutput, tx, rx, env
<1>3. Types' /\ BlockedHasBytes'
  BY <1>1, <1>2, FreshStarts DEF Types, BlockedHasBytes
<1>4. /\ transfer'["in"].result = "NONE" /\ transfer'["out"].available
  BY <1>2, FreshStarts
<1>5. \/ "CONN_WR" \in flags'
      \/ write_buf' = 0 /\ (had_current' => "DATA_RD" \in flags')
  <2>1. flags' = flags \cup
          (IF ~NothingIn(write_buf > 0) THEN {"CONN_WR"}
           ELSE IF tx_blocked THEN {"DATA_RD"} ELSE {})
    BY DEF EndOutput
  <2>2. CASE ~NothingIn(write_buf > 0)
    BY <2>1, <2>2
  <2>3. CASE NothingIn(write_buf > 0)
    <3>1. transfer["in"].result = "WOULD_BLOCK" /\ write_buf = 0
      BY <1>1, <2>3 DEF NothingIn, Types
    <3>2. tx_blocked \/ queue = <<>>
      BY <1>1, <3>1 DEF Outputs
    <3> QED BY <1>2, <2>1, <2>3, <3>1, <3>2
  <2> QED BY <2>2, <2>3
<1>6. Inputs'
  BY <1>4, <1>5 DEF Inputs
<1> QED BY <1>2, <1>3, <1>6 DEF RunOnceInv, NoDeafSelect, NoMuteSelect,
                                Waiting

LEMMA EndInputKeeps ==
  ASSUME RunOnceInv, EndInput
  PROVE  RunOnceInv'
<1> DEFINE tin == transfer["in"]
           tout == transfer["out"]
<1>1. /\ Types /\ BlockedHasBytes /\ Inputs /\ state = "up"
      /\ ~tin.available /\ ~tout.available
      /\ tin.result # "EOF"
  BY DEF RunOnceInv, EndInput, Ended, Looping, Eof
<1>2. /\ UNCHANGED <<queue, read_buf, sock_in, rest, write_buf, room, source>>
      /\ UNCHANGED <<sink, rx_blocked>>
  BY DEF EndInput, tx, rx, env
<1>3. CASE Again
  <2>1. pc' = "output" /\ transfer' = Fresh
    BY <1>3 DEF EndInput
  <2>2. Types' /\ BlockedHasBytes' /\ Outputs'
    BY <1>1, <1>2, <2>1, FreshStarts DEF Types, BlockedHasBytes
  <2> QED BY <2>1, <2>2 DEF RunOnceInv, NoDeafSelect, NoMuteSelect, Waiting
<1>4. CASE ~Again
  <2>1. /\ pc' = "app" /\ transfer' = transfer
        /\ flags' = flags \cup
             (IF NothingIn(read_buf # <<>>) THEN {"CONN_RD"}
              ELSE IF rx_blocked THEN {"DATA_WR"} ELSE {})
    BY <1>4 DEF EndInput
  <2>2. Types' /\ BlockedHasBytes'
    BY <1>1, <1>2, <2>1 DEF Types, BlockedHasBytes
  <2>3. NoDeafSelect'
    <3>1. CASE NothingIn(read_buf # <<>>)
      BY <2>1, <3>1 DEF NoDeafSelect
    <3>2. CASE ~NothingIn(read_buf # <<>>) /\ rx_blocked
      BY <1>1, <1>2, <2>1, <3>2 DEF NoDeafSelect, BlockedHasBytes
    <3>3. CASE ~NothingIn(read_buf # <<>>) /\ ~rx_blocked
      <4>1. read_buf = <<>> /\ tin.result # "MOVED"
        BY <1>1, <3>3 DEF Inputs
      <4>2. tin.result # "WOULD_BLOCK"
        BY <3>3, <4>1 DEF NothingIn
      <4>3. tin.result \in Results
        BY <1>1 DEF Types, Sides
      <4>4. tin.result = "NONE"
        BY <1>1, <4>1, <4>2, <4>3 DEF Results
      <4> QED BY <1>2, <2>1, <4>1, <4>4 DEF NoDeafSelect, Deaf
    <3> QED BY <3>1, <3>2, <3>3
  <2>4. NoMuteSelect'
    <3>1. \/ "CONN_WR" \in flags
          \/ queue = <<>> /\ write_buf = 0
          \/ "DATA_RD" \in flags /\ write_buf = 0
      BY <1>1, <1>4 DEF Again, Inputs
    <3>2. flags \subseteq flags' /\ write_buf \in Nat
      BY <1>1, <2>1 DEF Types
    <3> QED BY <1>2, <3>1, <3>2 DEF NoMuteSelect
  <2> QED BY <2>1, <2>2, <2>3, <2>4 DEF RunOnceInv
<1> QED BY <1>3, <1>4

LEMMA PacketsAreOctets ==
  \A p \in OutPackets \cup InPackets : p \in Seq(Octets) /\ p # <<>>
<1>1. /\ "h" \in Octets /\ "s" \in Octets /\ "a" \in Octets
      /\ "d" \in Octets
  BY DEF Octets
<1>2. /\ <<"h">> \in Seq(Octets) /\ <<"h", "h">> \in Seq(Octets)
      /\ <<"h", "a">> \in Seq(Octets) /\ <<"h", "d">> \in Seq(Octets)
      /\ <<"h", "s", "s">> \in Seq(Octets)
      /\ <<"h", "s", "s", "s">> \in Seq(Octets)
  BY <1>1
<1>3. /\ <<"h">> # <<>> /\ <<"h", "h">> # <<>> /\ <<"h", "a">> # <<>>
      /\ <<"h", "d">> # <<>> /\ <<"h", "s", "s">> # <<>>
      /\ <<"h", "s", "s", "s">> # <<>>
  OBVIOUS
<1> QED BY <1>2, <1>3 DEF OutPackets, InPackets

(* What the peer and the files do changes nothing that the client holds.   *)
LEMMA EnvironmentKeeps ==
  ASSUME RunOnceInv, Environment
  PROVE  RunOnceInv'
<1>1. /\ UNCHANGED <<state, flags, run, tx, rx, app>>
  BY DEF Environment
<1>2. /\ sock_in' \in Seq(Octets) /\ rest' \in Seq(Octets)
      /\ room' \in 0 .. SocketRoom /\ source' \in Nat /\ sink' \in Nat
  <2>1. /\ sock_in \in Seq(Octets) /\ rest \in Seq(Octets)
        /\ room \in 0 .. SocketRoom /\ source \in Nat /\ sink \in Nat
        /\ SocketRoom \in 0 .. SocketRoom
    BY RunOnceAssumption DEF RunOnceInv, Types
  <2>2. CASE Arrives
    <3>1. CASE /\ rest # <<>> /\ sock_in' = Append(sock_in, Head(rest))
               /\ rest' = Tail(rest)
      <4>1. Head(rest) \in Octets /\ Tail(rest) \in Seq(Octets)
        BY <2>1, <3>1, HeadTailProperties
      <4> QED BY <2>1, <2>2, <3>1, <4>1, AppendProperties DEF Arrives
    <3>2. ASSUME NEW p \in InPackets, sock_in' = Append(sock_in, Head(p)),
                 rest' = Tail(p)
          PROVE  sock_in' \in Seq(Octets) /\ rest' \in Seq(Octets)
      <4>1. p \in Seq(Octets) /\ p # <<>>
        BY PacketsAreOctets
      <4>2. Head(p) \in Octets /\ Tail(p) \in Seq(Octets)
        BY <4>1, HeadTailProperties
      <4> QED BY <2>1, <3>2, <4>2, AppendProperties
    <3> QED BY <2>1, <2>2, <3>1, <3>2 DEF Arrives
  <2>3. CASE Leaves
    BY <2>1, <2>3 DEF Leaves
  <2>4. CASE Drains
    BY <2>1, <2>4 DEF Drains
  <2>5. CASE Gives
    BY <2>1, <2>5 DEF Gives
  <2>6. CASE Takes
    BY <2>1, <2>6 DEF Takes
  <2> QED BY <2>2, <2>3, <2>4, <2>5, <2>6 DEF Environment
<1> QED BY <1>1, <1>2
       DEF RunOnceInv, Types, BlockedHasBytes, Outputs, Inputs, NoDeafSelect,
           NoMuteSelect, Waiting, Deaf, run, tx, rx, app

LEMMA RunOnceStep == RunOnceInv /\ [Next]_vars => RunOnceInv'
<1> SUFFICES ASSUME RunOnceInv, [Next]_vars
             PROVE  RunOnceInv'
  OBVIOUS
<1>1. CASE Ask
  <2>1. queue' \in Seq(Octets)
    <3>1. PICK p \in OutPackets : queue' = queue \o p
      BY <1>1 DEF Ask
    <3>2. p \in Seq(Octets)
      BY PacketsAreOctets
    <3> QED BY <3>1, <3>2, ConcatProperties DEF RunOnceInv, Types
  <2>2. pc' = "app" /\ called'
    BY <1>1 DEF Ask, run
  <2>3. Types' /\ BlockedHasBytes'
    BY <1>1, <2>1 DEF Ask, RunOnceInv, Types, BlockedHasBytes, run, rx, env
  <2> QED BY <2>2, <2>3 DEF RunOnceInv, NoDeafSelect, NoMuteSelect, Waiting
<1>2. CASE RunOnce
  <2>1. pc' = "output" /\ transfer' = Fresh
    BY <1>2 DEF RunOnce
  <2>2. Types' /\ BlockedHasBytes' /\ Outputs'
    BY <1>2, <2>1, FreshStarts
       DEF RunOnce, RunOnceInv, Types, BlockedHasBytes, tx, rx, env
  <2> QED BY <2>1, <2>2 DEF RunOnceInv, NoDeafSelect, NoMuteSelect, Waiting
<1>3. CASE state = "up" /\ Output
  BY <1>3, OutputKeeps
<1>4. CASE state = "up" /\ Input
  BY <1>4, InputKeeps
<1>5. CASE EndConnection
  BY <1>5 DEF EndConnection, RunOnceInv, Types, BlockedHasBytes, NoDeafSelect,
              NoMuteSelect, Waiting, tx, rx, env
<1>6. CASE EndOutput
  BY <1>6, EndOutputKeeps
<1>7. CASE EndInput
  BY <1>7, EndInputKeeps
<1>8. CASE Environment
  BY <1>8, EnvironmentKeeps
<1>9. CASE UNCHANGED vars
  BY <1>9
     DEF vars, RunOnceInv, Types, BlockedHasBytes, Outputs, Inputs,
         NoDeafSelect, NoMuteSelect, Waiting, Deaf, run, tx, rx, app, env
<1> QED BY <1>1, <1>2, <1>3, <1>4, <1>5, <1>6, <1>7, <1>8, <1>9
       DEF Next, Client

LEMMA AlwaysRunOnceInv == Spec => []RunOnceInv
BY RunOnceInit, RunOnceStep, PTL DEF Spec

(* Whenever the application waits in select, the client is listening: its  *)
(* result names the socket, or the string that takes no more bytes and has *)
(* some in read_buf; but for the one call that began with a full read_buf. *)
THEOREM SelectListens == Spec => []NoDeafSelect
<1>1. RunOnceInv => NoDeafSelect
  BY DEF RunOnceInv
<1> QED BY <1>1, AlwaysRunOnceInv, PTL

(* Whenever the application waits in select with something to send, the    *)
(* result names what it waits for: also what the input has queued, which   *)
(* is what run_once goes round again for.                                  *)
THEOREM SelectWrites == Spec => []NoMuteSelect
<1>1. RunOnceInv => NoMuteSelect
  BY DEF RunOnceInv
<1> QED BY <1>1, AlwaysRunOnceInv, PTL

(* A connection that ends in good order leaves bytes in a buffer only if   *)
(* the side they were for took nothing more.                               *)
THEOREM EndsEmpty == Spec => NothingDroppedAtEof
<1> DEFINE Emptied == state' = "initial" /\ state = "up" =>
                        \/ transfer["out"].result = "WOULD_BLOCK"
                        \/ pc = "output" /\ write_buf = 0
                        \/ pc = "input" /\ read_buf = <<>>
<1>1. RunOnceInv /\ [Next]_vars => [Emptied]_vars
  <2> SUFFICES ASSUME RunOnceInv, Next, state' = "initial", state = "up"
               PROVE  \/ transfer["out"].result = "WOULD_BLOCK"
                      \/ pc = "output" /\ write_buf = 0
                      \/ pc = "input" /\ read_buf = <<>>
    OBVIOUS
  <2>1. EndConnection
    BY DEF Next, Client, Ask, RunOnce, Output, Input, EndOutput, EndInput,
           Environment
  <2>2. ~transfer["in"].available /\ ~transfer["out"].available
    BY <2>1 DEF EndConnection, Ended, Looping
  <2>3. CASE pc = "output"
    BY <2>2, <2>3 DEF RunOnceInv, Outputs
  <2>4. CASE pc = "input"
    BY <2>2, <2>4 DEF RunOnceInv, Inputs
  <2> QED BY <2>1, <2>3, <2>4 DEF EndConnection, Ended
<1> QED BY <1>1, AlwaysRunOnceInv, PTL DEF Spec, NothingDroppedAtEof
=============================================================================
