------------------------ MODULE LmqttKeepAliveProofs ------------------------
(***************************************************************************)
(* The client's clock, for any clock resolution, keep_alive, Timeout and   *)
(* delays.  What lmqtt_time_get_timeout_to computes; that a timeout is     *)
(* never reported without a silence of that length; and, from an invariant *)
(* on what is under way between the client and its peer (TalkInv), when a  *)
(* live peer is given up, a silent one noticed, and PINGREQ sent in time.  *)
(***************************************************************************)
EXTENDS LmqttKeepAlive, FiniteSetTheorems, SequenceTheorems, TLAPS

(* A span of no seconds and no nanoseconds is no time, and conversely.     *)
LEMMA ZeroTotal ==
  /\ Zero \in Times
  /\ Total(Zero) = 0
<1>1. Second \in Nat \ {0}
  BY SecondAssumption
<1> QED
  BY <1>1 DEF Zero, Times, Total

(* Moving whole seconds across a difference of two moments.                *)
LEMMA SecondsApart ==
  ASSUME NEW a \in Int, NEW b \in Int
  PROVE  /\ (a - b) * Second = a * Second - b * Second
         /\ a > b => a * Second >= b * Second + Second
<1>1. Second \in Nat \ {0}
  BY SecondAssumption
<1>2. (a - b) * Second = a * Second - b * Second
  BY <1>1
<1>3. ASSUME a > b PROVE a * Second >= b * Second + Second
  <2>1. PICK d \in Nat : a = b + 1 + d
    <3>1. a - b - 1 \in Nat /\ a = b + 1 + (a - b - 1)
      BY <1>3
    <3> QED
      BY <3>1
  <2>2. a * Second = b * Second + Second + d * Second
    BY <1>1, <2>1
  <2>3. d * Second >= 0
    BY <1>1
  <2>4. b * Second \in Int /\ d * Second \in Int
    BY <1>1
  <2> QED
    BY <1>1, <2>2, <2>3, <2>4
<1> QED
  BY <1>2, <1>3

(* lmqtt_time_get_timeout_to returns a well-formed span, which is exactly  *)
(* the time from cur to when seconds after tm, or none if that has passed: *)
(* the borrow neither loses nor adds a second.                             *)
THEOREM TimeoutIsExact ==
  ASSUME NEW tm \in Times, NEW cur \in Times, NEW when \in Nat
  PROVE  /\ TimeoutTo(tm, when, cur) \in Times
         /\ Total(TimeoutTo(tm, when, cur)) =
              IF Total(cur) <= Total(tm) + when * Second
                THEN (Total(tm) + when * Second) - Total(cur) ELSE 0
<1> DEFINE borrow == tm.nsecs < cur.nsecs
           b == IF borrow THEN 1 ELSE 0
           secs == tm.secs + when - b
           nsecs == tm.nsecs + (IF borrow THEN Second ELSE 0)
           left == TimeoutTo(tm, when, cur)
           deadline == Total(tm) + when * Second
           exact == IF Total(cur) <= deadline
                      THEN deadline - Total(cur) ELSE 0
<1> SUFFICES left \in Times /\ Total(left) = exact
  BY Zenon
<1>1. Second \in Nat \ {0}
  BY SecondAssumption
<1>2. /\ tm.secs \in Nat /\ tm.nsecs \in 0 .. Second - 1
      /\ cur.secs \in Nat /\ cur.nsecs \in 0 .. Second - 1
  BY DEF Times
<1>3. secs \in Int /\ b \in {0, 1} /\ nsecs - cur.nsecs \in 0 .. Second - 1
  BY <1>1, <1>2
<1>4. secs * Second + nsecs = deadline
  <2>1. secs * Second = tm.secs * Second + when * Second - b * Second
    BY <1>1, <1>2, <1>3
  <2>2. /\ tm.secs * Second \in Int /\ when * Second \in Int
        /\ b * Second = IF borrow THEN Second ELSE 0
    BY <1>1, <1>2, <1>3
  <2> QED
    BY <1>1, <1>2, <2>1, <2>2 DEF Total
<1> DEFINE x == secs * Second
           y == cur.secs * Second
<1>5. x \in Int /\ y \in Int /\ x + nsecs = deadline
  BY <1>1, <1>2, <1>3, <1>4
<1>6. Total(cur) = y + cur.nsecs
  BY DEF Total
<1> HIDE DEF b, secs, nsecs, left, deadline, exact, x, y
<1>7. CASE cur.secs <= secs
  <2>1. left = [secs |-> secs - cur.secs, nsecs |-> nsecs - cur.nsecs]
    BY <1>7 DEF TimeoutTo, left, secs, nsecs, b
  <2>2. left \in Times
    BY <1>2, <1>3, <1>7, <2>1 DEF Times
  <2>3. (secs - cur.secs) * Second = x - y
    BY <1>1, <1>2, <1>3 DEF x, y
  <2>4. Total(left) = x - y + (nsecs - cur.nsecs)
    BY <2>1, <2>3 DEF Total
  <2>5. x - y >= 0
    <3>1. secs - cur.secs \in Nat
      BY <1>2, <1>3, <1>7
    <3>2. (secs - cur.secs) * Second >= 0
      BY <1>1, <3>1
    <3> QED
      BY <2>3, <3>2
  <2>6. nsecs \in Int /\ nsecs - cur.nsecs >= 0
    BY <1>1, <1>2, <1>3 DEF nsecs
  <2>7. Total(left) = deadline - Total(cur) /\ Total(cur) <= deadline
    BY <1>2, <1>5, <1>6, <2>4, <2>5, <2>6
  <2> QED
    BY <2>2, <2>7 DEF exact
<1>8. CASE ~(cur.secs <= secs)
  <2>1. left = Zero
    BY <1>8 DEF TimeoutTo, left, secs, nsecs, b
  <2>2. cur.secs \in Int /\ secs \in Int /\ cur.secs > secs
    BY <1>2, <1>3, <1>8
  <2>3. y >= x + Second
    BY <2>2, SecondsApart, Zenon DEF x, y
  <2>4. nsecs \in Int /\ nsecs - cur.nsecs < Second
    BY <1>1, <1>2, <1>3 DEF nsecs
  <2>5. ~(Total(cur) <= deadline)
    BY <1>1, <1>2, <1>5, <1>6, <2>3, <2>4
  <2> QED
    BY <2>1, <2>5, ZeroTotal DEF exact
<1> QED
  BY <1>2, <1>3, <1>7, <1>8

-----------------------------------------------------------------------------
Stores == {"connect", "main"}

KeepAliveType ==
  /\ now \in Times /\ last_io \in Times
  /\ last_touch \in [Stores -> Times]
  /\ connecting \in {"queued", "sent", "half", "done"}

(* The current store has been touched by the last I/O: what keep_alive     *)
(* measures is the silence of the connection, across the change of stores. *)
TouchedByLastIO == Running => last_touch[CurrentStore] = last_io

KeepAliveInv == KeepAliveType /\ TouchedByLastIO

LEMMA LaterType ==
  ASSUME NEW t \in Times
  PROVE  Later(t) \in Times
<1>1. Second \in Nat \ {0}
  BY SecondAssumption
<1> QED
  BY <1>1 DEF Later, Times

LEMMA KeepAliveInit == Init => KeepAliveInv
<1>1. Second \in Nat \ {0}
  BY SecondAssumption
<1> QED
  BY <1>1 DEF Init, KeepAliveInv, KeepAliveType, TouchedByLastIO, Times, Zero,
              Stores, Running, CurrentStore, Connected

(* One call of run_once: whatever is written or read touches the store     *)
(* that is current afterwards.                                             *)
LEMMA RunOnceKeeps ==
  ASSUME KeepAliveInv, RunOnce
  PROVE  KeepAliveInv'
<1>1. connecting' \in {"queued", "sent", "half", "done"}
  BY DEF RunOnce, PhaseAfter, KeepAliveInv, KeepAliveType
<1>2. now' = now /\ error' = error /\ Running
  BY DEF RunOnce, Running
<1>3. CurrentStore \in Stores /\ CurrentStore' \in Stores
  BY DEF CurrentStore, Stores
<1> DEFINE out == IF Writes(connecting) THEN Touched(last_touch, CurrentStore)
                  ELSE last_touch
           read == IF Reads THEN Touched(out, InputStore(connecting')) ELSE out
           again == Connected' /\ ~Connected /\ Writes("done")
<1>4. last_touch' = IF again THEN Touched(read, "main") ELSE read
  BY DEF RunOnce
<1>5. KeepAliveType'
  <2>1. now \in Times /\ last_touch \in [Stores -> Times]
    BY DEF KeepAliveInv, KeepAliveType
  <2>2. out \in [Stores -> Times]
    BY <1>3, <2>1 DEF Touched
  <2>3. read \in [Stores -> Times]
    BY <2>1, <2>2 DEF Touched, InputStore, Stores
  <2>4. last_touch' \in [Stores -> Times]
    BY <1>4, <2>1, <2>3 DEF Touched, Stores
  <2>5. last_io' \in Times
    BY <2>1 DEF RunOnce, KeepAliveInv, KeepAliveType
  <2> QED
    BY <1>1, <1>2, <2>1, <2>4, <2>5 DEF KeepAliveType
<1>6. last_touch'[CurrentStore'] = last_io'
  <2>1. last_touch \in [Stores -> Times]
    BY DEF KeepAliveInv, KeepAliveType
  <2>2. last_touch[CurrentStore] = last_io
    BY <1>2 DEF KeepAliveInv, TouchedByLastIO
  <2>3. last_io' = IF Writes(connecting') \/ Reads THEN now ELSE last_io
    BY DEF RunOnce
  <2>4. CASE Reads
    <3>1. InputStore(connecting') = CurrentStore'
      BY DEF InputStore, CurrentStore, Connected
    <3>2. read[CurrentStore'] = now /\ read \in [Stores -> Times \cup {now}]
      BY <1>3, <2>1, <2>4, <3>1 DEF Touched
    <3>3. again => CurrentStore' = "main"
      BY DEF CurrentStore
    <3> QED
      BY <1>3, <1>4, <2>3, <2>4, <3>2, <3>3 DEF Touched
  <2>5. CASE ~Reads
    <3>1. connecting' = IF connecting = "queued" THEN "sent" ELSE connecting
      <4>1. inbox = <<>> /\ Range(inbox) = {}
        BY <2>5 DEF Reads, Range
      <4> QED
        BY <4>1 DEF RunOnce, PhaseAfter
    <3>2. CurrentStore' = CurrentStore /\ ~again
      BY <3>1 DEF CurrentStore, Connected
    <3>3. Writes(connecting') <=> Writes(connecting)
      BY <3>1 DEF Writes, Asked
    <3>4. last_touch' = out
      BY <1>4, <2>5, <3>2
    <3> QED
      BY <1>3, <2>1, <2>2, <2>3, <2>5, <3>2, <3>3, <3>4 DEF Touched
  <2> QED
    BY <2>4, <2>5
<1> QED
  BY <1>5, <1>6 DEF KeepAliveInv, TouchedByLastIO

LEMMA KeepAliveStep == KeepAliveInv /\ [Next]_vars => KeepAliveInv'
<1> SUFFICES ASSUME KeepAliveInv, [Next]_vars
             PROVE  KeepAliveInv'
  OBVIOUS
<1> USE DEF KeepAliveInv, KeepAliveType, TouchedByLastIO, Running,
            CurrentStore, Connected
<1>1. CASE Open
  BY <1>1 DEF Open, Touched, Stores
<1>2. CASE Call
  BY <1>2 DEF Call
<1>3. CASE TimeOut
  BY <1>3 DEF TimeOut, history
<1>4. CASE RunOnce
  BY <1>4, RunOnceKeeps
<1>5. CASE Answer
  BY <1>5 DEF Answer, client, history
<1>6. CASE Talk
  BY <1>6 DEF Talk, client, history
<1>7. CASE Die
  BY <1>7 DEF Die, client, history
<1>8. CASE Tick
  BY <1>8, LaterType DEF Tick, client, history
<1>9. CASE UNCHANGED vars
  BY <1>9 DEF vars, client, history
<1> QED
  BY <1>1, <1>2, <1>3, <1>4, <1>5, <1>6, <1>7, <1>8, <1>9 DEF Next

(* No connection is given up unless nothing has been written or read for   *)
(* Timeout seconds, to the nanosecond, whatever the clock's resolution,    *)
(* the delays of peer and application and the moment of CONNACK.           *)
THEOREM NoEarlyTimeout == Spec => TimeoutMeansSilence
<1> DEFINE Silence == error' = "TIMEOUT" /\ error # "TIMEOUT" =>
                        Since(last_io) >= Timeout * Second
<1>1. KeepAliveInv /\ [Next]_vars => [Silence]_vars
  <2> SUFFICES ASSUME KeepAliveInv, Next, error' = "TIMEOUT",
                      error # "TIMEOUT"
               PROVE  Since(last_io) >= Timeout * Second
    OBVIOUS
  <2>1. TimeOut
    BY DEF Next, Open, Call, RunOnce, Answer, Talk, Die, Tick, client
  <2>2. When = Timeout /\ Timeout \in Nat
    BY <2>1, KeepAliveAssumption DEF TimeOut, When
  <2>3. last_touch[CurrentStore] = last_io /\ last_io \in Times
        /\ now \in Times
    BY <2>1 DEF TimeOut, KeepAliveInv, KeepAliveType, TouchedByLastIO
  <2>4. TimeoutTo(last_io, Timeout, now) = Zero
    BY <2>1, <2>2, <2>3 DEF TimeOut, Expired
  <2>5. Total(now) \in Int /\ Total(last_io) \in Int
        /\ Timeout * Second \in Int
    BY <2>2, <2>3, SecondAssumption DEF Times, Total
  <2>6. Total(TimeoutTo(last_io, Timeout, now)) =
          IF Total(now) <= Total(last_io) + Timeout * Second
            THEN (Total(last_io) + Timeout * Second) - Total(now) ELSE 0
    BY <2>2, <2>3, TimeoutIsExact, Zenon
  <2> QED
    BY <2>4, <2>5, <2>6, ZeroTotal DEF Since
<1>2. Spec => []KeepAliveInv
  BY KeepAliveInit, KeepAliveStep, PTL DEF Spec
<1> QED
  BY <1>1, <1>2, PTL DEF Spec, TimeoutMeansSilence

-----------------------------------------------------------------------------
(* What is under way between the client and its peer, and for how long.    *)
MoreTypes ==
  /\ now.secs >= 1 /\ last_io.secs >= 1
  /\ queued \in Nat /\ oneway \in Nat /\ waiting \in Nat
  /\ pinging \in BOOLEAN /\ alive \in BOOLEAN
  /\ inbox \in Seq(Packets) /\ owed \in Seq(Nat) /\ late \in 0 .. AppDelay
  /\ \A t \in {last_rx, last_tx, last_talk, last_call} : t \in Times

Spoken(p) == p \in Range(inbox)

(* Everything that the client waits for is still owed by the peer or has   *)
(* arrived; a CONNACK is the only thing that arrives before it.            *)
Conversation ==
  /\ Connected =>
       /\ waiting + (IF pinging THEN 1 ELSE 0) = Len(owed) + Answers
       /\ ~Spoken("CONNACK_1") /\ ~Spoken("CONNACK_2")
  /\ ~Connected =>
       Idle /\ ~Spoken("RESPONSE") /\ ~Spoken("MESSAGE") /\ Len(owed) <= 1
  /\ connecting = "queued" => owed = <<>> /\ inbox = <<>>
  /\ connecting \in {"sent", "half"} => (owed = <<>> <=> Spoken("CONNACK_2"))

(* last_io is the last of all input and output; what the peer owes it has  *)
(* got with the last output, and it is not late with it while it lives.    *)
Ages ==
  /\ 0 <= Since(last_io)
  /\ Since(last_io) <= Since(last_rx) /\ Since(last_io) <= Since(last_tx)
  /\ 0 <= Since(last_talk) /\ 0 <= Since(last_call)
  /\ alive => \A i \in 1 .. Len(owed) : /\ Total(now) <= owed[i] + PeerDelay
                                        /\ owed[i] <= Total(last_tx)
  /\ \A p \in Packets \ {"MESSAGE"} :
       Spoken(p) => Since(last_tx) <= PeerDelay + late

Idling == KeepAlive * Second
Waits == Timeout * Second

(* How long ago the last I/O was, while the client has nothing to wait     *)
(* for, and while it has.                                                  *)
Silences ==
  /\ Connected /\ Idle => Since(last_io) <= Idling + late
  /\ connecting # "half" /\ Count > 0 =>
       \/ Since(last_io) <= Waits + late
       \/ Connected /\ ~pinging /\ Since(last_io) <= Idling + late

(* Who caused it: the peer, a call of the application, or PINGREQ.         *)
Causes ==
  /\ connecting = "queued" => Since(last_rx) <= late
  /\ connecting = "sent" => Since(last_rx) <= Since(last_io) + AppDelay
  /\ Connected =>
       /\ queued + oneway > 0 => Since(last_call) <= late
       /\ LET sent == IF pinging THEN Idling + AppDelay ELSE 0 IN
            \/ Since(last_rx) <= Since(last_io) + sent
            \/ Since(last_call) <= Since(last_io) + sent + AppDelay
       /\ \/ Since(last_tx) <= Since(last_io) + PeerDelay + AppDelay
          \/ Since(last_talk) <= Since(last_io)

Talking == Running => Conversation /\ Ages /\ Silences /\ Causes
TalkInv == KeepAliveInv /\ MoreTypes /\ Talking

LEMMA Spans ==
  /\ Second \in Nat \ {0} /\ Idling \in Nat /\ Waits \in Nat
  /\ Timeout \in Nat \ {0} /\ KeepAlive \in Nat \ {0}
  /\ AppDelay \in Nat /\ PeerDelay \in Nat
BY SecondAssumption, KeepAliveAssumption DEF Idling, Waits

LEMMA Moments ==
  ASSUME NEW t \in Times
  PROVE  /\ Total(t) \in Nat
         /\ Total(Later(t)) = Total(t) + 1 /\ Later(t).secs >= t.secs
         /\ Total(t) = 0 => t = Zero
<1>1. /\ Second \in Nat \ {0}
      /\ t.secs \in Nat /\ t.nsecs \in 0 .. Second - 1
      /\ t = [secs |-> t.secs, nsecs |-> t.nsecs]
  BY SecondAssumption DEF Times
<1>2. /\ t.secs * Second \in Nat
      /\ (t.secs + 1) * Second = t.secs * Second + Second
      /\ t.secs * Second = 0 => t.secs = 0
  <2>1. /\ t.secs * Second \in Nat /\ 0 * Second = 0
        /\ (t.secs + 1) * Second = t.secs * Second + Second
    BY <1>1
  <2>2. t.secs > 0 => t.secs * Second >= 0 * Second + Second
    BY <1>1, SecondsApart
  <2>3. t.secs > 0 => t.secs * Second # 0
    <3> DEFINE x == t.secs * Second
               y == 0 * Second
    <3> HIDE DEF x, y
    <3>1. x \in Nat /\ y = 0 /\ (t.secs > 0 => x >= y + Second)
      BY <2>1, <2>2 DEF x, y
    <3>2. t.secs > 0 => x # 0
      BY <1>1, <3>1
    <3> QED BY <3>2 DEF x
  <2> QED BY <1>1, <2>1, <2>3
<1>3. Total(t) \in Nat
  BY <1>1, <1>2 DEF Total
<1>4. Total(t) = 0 => t = Zero
  BY <1>1, <1>2 DEF Total, Zero
<1>5. Total(Later(t)) = Total(t) + 1
  <2>1. CASE t.nsecs + 1 < Second
    BY <1>1, <1>2, <2>1 DEF Total, Later
  <2>2. CASE ~(t.nsecs + 1 < Second)
    <3>1. Later(t) = [secs |-> t.secs + 1, nsecs |-> 0]
      BY <2>2 DEF Later
    <3>2. t.nsecs + 1 = Second
      BY <1>1, <2>2
    <3> QED BY <1>1, <1>2, <3>1, <3>2 DEF Total
  <2> QED BY <2>1, <2>2
<1>6. Later(t).secs >= t.secs
  <2>1. Later(t).secs = t.secs \/ Later(t).secs = t.secs + 1
    BY <1>1 DEF Later
  <2> QED BY <1>1, <2>1
<1> QED BY <1>3, <1>4, <1>5, <1>6

(* The responses among the packets that have arrived.                      *)
Responses(q) == Cardinality({i \in 1 .. Len(q) : q[i] = "RESPONSE"})

LEMMA ResponsesCounted ==
  ASSUME NEW q \in Seq(Packets)
  PROVE  /\ Responses(q) \in Nat
         /\ Responses(q) = 0 <=> "RESPONSE" \notin Range(q)
         /\ Responses(<<>>) = 0
<1> DEFINE S == {i \in 1 .. Len(q) : q[i] = "RESPONSE"}
<1>1. Len(q) \in Nat /\ DOMAIN q = 1 .. Len(q)
  BY LenProperties
<1>2. IsFiniteSet(1 .. Len(q))
  BY <1>1, FS_Interval
<1>3. IsFiniteSet(S)
  BY <1>2, FS_Subset
<1>4. Cardinality(S) \in Nat /\ (Cardinality(S) = 0 <=> S = {})
  BY <1>3, FS_CardinalityType, FS_EmptySet
<1>5. S = {} <=> "RESPONSE" \notin Range(q)
  BY <1>1 DEF Range
<1>6. Responses(<<>>) = 0
  <2>1. {i \in 1 .. Len(<<>>) : <<>>[i] = "RESPONSE"} = {}
    BY SMT
  <2> QED BY <2>1, FS_EmptySet DEF Responses
<1> QED BY <1>4, <1>5, <1>6 DEF Responses

LEMMA ResponsesAppended ==
  ASSUME NEW q \in Seq(Packets), NEW p \in Packets
  PROVE  /\ Responses(Append(q, p)) =
              Responses(q) + (IF p = "RESPONSE" THEN 1 ELSE 0)
         /\ Range(Append(q, p)) = Range(q) \cup {p}
         /\ Append(q, p) \in Seq(Packets)
<1> DEFINE a == Append(q, p)
           S == {i \in 1 .. Len(q) : q[i] = "RESPONSE"}
           T == {i \in 1 .. Len(a) : a[i] = "RESPONSE"}
<1>1. /\ Len(q) \in Nat /\ DOMAIN q = 1 .. Len(q)
      /\ Len(a) = Len(q) + 1 /\ DOMAIN a = 1 .. Len(q) + 1
      /\ a[Len(q) + 1] = p /\ a \in Seq(Packets)
      /\ \A i \in 1 .. Len(q) : a[i] = q[i]
  BY LenProperties, AppendProperties
<1> HIDE DEF a
<1>2. Range(a) = Range(q) \cup {p}
  <2>1. ASSUME NEW i \in DOMAIN a PROVE a[i] \in Range(q) \cup {p}
    BY <1>1 DEF Range
  <2>2. ASSUME NEW i \in DOMAIN q PROVE q[i] \in Range(a)
    BY <1>1 DEF Range
  <2>3. p \in Range(a)
    BY <1>1 DEF Range
  <2> QED BY <2>1, <2>2, <2>3 DEF Range
<1>3. IsFiniteSet(1 .. Len(q))
  BY <1>1, FS_Interval
<1>4. IsFiniteSet(S)
  BY <1>3, FS_Subset
<1>5. CASE p = "RESPONSE"
  <2>1. T = S \cup {Len(q) + 1} /\ Len(q) + 1 \notin S
    BY <1>1, <1>5
  <2>2. Cardinality(T) = Cardinality(S) + 1
    BY <1>4, <2>1, FS_AddElement
  <2> QED BY <1>1, <1>2, <1>5, <2>2 DEF Responses, a
<1>6. CASE p # "RESPONSE"
  <2>1. T = S
    BY <1>1, <1>6
  <2>2. Cardinality(S) \in Nat
    BY <1>4, FS_CardinalityType
  <2>3. Cardinality(T) = Cardinality(S) + 0
    <3> HIDE DEF S, T
    <3> QED BY <2>1, <2>2
  <2> QED BY <1>1, <1>2, <1>6, <2>3 DEF Responses, a
<1> QED BY <1>5, <1>6

(* What the types say, in the form in which the steps use it.              *)
LEMMA Shape ==
  ASSUME KeepAliveInv, MoreTypes
  PROVE  /\ Total(now) \in Nat /\ Total(last_io) \in Nat
         /\ Total(last_rx) \in Nat /\ Total(last_tx) \in Nat
         /\ Total(last_talk) \in Nat /\ Total(last_call) \in Nat
         /\ Answers = Responses(inbox) /\ Answers \in Nat
         /\ Answers = 0 <=> ~Spoken("RESPONSE")
         /\ inbox = <<>> => Answers = 0 /\ \A p : ~Spoken(p)
         /\ inbox # <<>> => \E p \in Packets : Spoken(p)
         /\ Count \in Nat /\ late \in Nat /\ Len(owed) \in Nat
         /\ Count > 0 <=> IF Connected THEN queued + oneway > 0 \/ ~Idle
                                       ELSE connecting # "half"
<1>1. /\ now \in Times /\ last_io \in Times /\ last_rx \in Times
      /\ last_tx \in Times /\ last_talk \in Times /\ last_call \in Times
      /\ inbox \in Seq(Packets) /\ owed \in Seq(Nat)
      /\ late \in 0 .. AppDelay
  BY DEF KeepAliveInv, KeepAliveType, MoreTypes
<1>2. /\ Total(now) \in Nat /\ Total(last_io) \in Nat
      /\ Total(last_rx) \in Nat /\ Total(last_tx) \in Nat
      /\ Total(last_talk) \in Nat /\ Total(last_call) \in Nat
  BY <1>1, Moments
<1>3. /\ Answers = Responses(inbox) /\ Responses(inbox) \in Nat
      /\ Responses(inbox) = 0 <=> ~Spoken("RESPONSE")
      /\ Responses(<<>>) = 0
  BY <1>1, ResponsesCounted DEF Answers, Responses, Spoken
<1>4. inbox = <<>> => \A p : ~Spoken(p)
  BY DEF Spoken, Range
<1>5. inbox # <<>> => \E p \in Packets : Spoken(p)
  BY <1>1 DEF Spoken, Range
<1>6. late \in Nat /\ Len(owed) \in Nat
  BY <1>1, LenProperties, Spans
<1>7. /\ Count \in Nat
      /\ Count > 0 <=> IF Connected THEN queued + oneway > 0 \/ ~Idle
                                    ELSE connecting # "half"
  BY DEF Count, Idle, MoreTypes
<1> QED BY <1>2, <1>3, <1>4, <1>5, <1>6, <1>7

(* The test of client_keep_alive: how long the last I/O is ago.            *)
LEMMA ExpiredMeans ==
  ASSUME KeepAliveInv, MoreTypes, Running
  PROVE  /\ Count > 0 => (Expired <=> Since(last_io) >= Waits)
         /\ Count = 0 /\ Connected => (Expired <=> Since(last_io) >= Idling)
         /\ Count = 0 /\ ~Connected => ~Expired
<1>1. /\ now \in Times /\ last_io \in Times /\ last_io.secs >= 1
      /\ last_touch[CurrentStore] = last_io
  BY DEF KeepAliveInv, KeepAliveType, TouchedByLastIO, MoreTypes
<1>2. last_io # Zero
  BY <1>1 DEF Zero
<1>3. ASSUME NEW when \in Nat, when # 0, When = when
      PROVE  Expired <=> Since(last_io) >= when * Second
  <2>1. Expired <=> TimeoutTo(last_io, when, now) = Zero
    BY <1>1, <1>2, <1>3 DEF Expired, Timed
  <2>2. /\ TimeoutTo(last_io, when, now) \in Times
        /\ Total(TimeoutTo(last_io, when, now)) =
             IF Total(now) <= Total(last_io) + when * Second
               THEN (Total(last_io) + when * Second) - Total(now) ELSE 0
    BY <1>1, TimeoutIsExact, Zenon
  <2>3. TimeoutTo(last_io, when, now) = Zero
          <=> Total(TimeoutTo(last_io, when, now)) = 0
    BY <2>2, Moments, ZeroTotal
  <2>4. Total(now) \in Nat /\ Total(last_io) \in Nat /\ when * Second \in Nat
    BY <1>1, Moments, Spans
  <2> QED BY <2>1, <2>2, <2>3, <2>4 DEF Since
<1>4. Count > 0 => (Expired <=> Since(last_io) >= Waits)
  BY <1>3, Spans DEF When, Waits
<1>5. Count \in Nat
  BY Shape
<1>6. Count = 0 /\ Connected => (Expired <=> Since(last_io) >= Idling)
  BY <1>3, <1>5, Spans DEF When, Idling
<1>7. Count = 0 /\ ~Connected => ~Expired
  BY <1>5 DEF When, Expired, Timed
<1> QED BY <1>4, <1>6, <1>7

-----------------------------------------------------------------------------
(* One call of run_once.                                                   *)

LEMMA RunOncePhase ==
  ASSUME TalkInv, RunOnce
  PROVE  /\ Conversation /\ Ages /\ Silences /\ Causes
         /\ Connected => connecting' = "done"
         /\ ~Connected /\ ~Reads =>
              connecting' = IF connecting = "queued" THEN "sent"
                            ELSE connecting
         /\ ~Connected /\ Reads =>
              /\ connecting # "queued"
              /\ connecting' = IF Spoken("CONNACK_2") THEN "done" ELSE "half"
         /\ Expired => Connected /\ Count = 0
<1>1. Conversation /\ Ages /\ Silences /\ Causes
  BY DEF TalkInv, Talking, RunOnce
<1>2. connecting \in {"queued", "sent", "half", "done"}
  BY DEF TalkInv, KeepAliveInv, KeepAliveType
<1>3. /\ inbox = <<>> => \A p : ~Spoken(p)
      /\ inbox # <<>> => \E p \in Packets : Spoken(p)
      /\ Count \in Nat
  BY Shape DEF TalkInv
<1>4. connecting' = PhaseAfter /\ Running /\ ~(Expired /\ Count > 0)
  BY DEF RunOnce
<1>5. Connected => connecting' = "done"
  BY <1>1, <1>4 DEF PhaseAfter, Conversation, Spoken, Connected
<1>6. ~Reads => connecting' = IF connecting = "queued" THEN "sent"
                              ELSE connecting
  BY <1>3, <1>4 DEF PhaseAfter, Reads, Spoken
<1>7. ASSUME ~Connected, Reads
      PROVE  /\ connecting # "queued"
             /\ connecting' = IF Spoken("CONNACK_2") THEN "done" ELSE "half"
  <2>1. PICK p \in Packets : Spoken(p)
    BY <1>3, <1>7 DEF Reads
  <2>2. Spoken("CONNACK_1") \/ Spoken("CONNACK_2")
    BY <1>1, <1>7, <2>1 DEF Conversation, Packets
  <2>3. connecting # "queued"
    BY <1>1, <1>7 DEF Conversation, Reads
  <2>4. connecting' = IF Spoken("CONNACK_2") THEN "done" ELSE "half"
    BY <1>4, <2>2 DEF PhaseAfter, Spoken
  <2> QED BY <2>3, <2>4
<1>8. Expired => Connected /\ Count = 0
  BY <1>3, <1>4, ExpiredMeans DEF TalkInv
<1> QED BY <1>1, <1>5, <1>6, <1>7, <1>8

LEMMA RunOnceWrites ==
  ASSUME TalkInv, RunOnce
  PROVE  /\ Writes(connecting') <=>
              \/ connecting = "queued" \/ Expired
              \/ Connected' /\ queued + oneway > 0
         /\ Asked(connecting') \in Nat
         /\ Asked(connecting') > 0 => Writes(connecting')
         /\ owed' \in Seq(Nat)
         /\ Len(owed') = Len(owed) + Asked(connecting')
         /\ \A i \in 1 .. Len(owed') :
              \/ i \in 1 .. Len(owed) /\ owed'[i] = owed[i]
              \/ Asked(connecting') > 0 /\ owed'[i] = Total(now)
<1>1. /\ queued \in Nat /\ oneway \in Nat /\ owed \in Seq(Nat)
      /\ Total(now) \in Nat
  BY Shape DEF TalkInv, MoreTypes
<1>2. /\ Asked(connecting') \in Nat
      /\ Asked(connecting') > 0 => Writes(connecting')
      /\ Writes(connecting') <=>
           \/ connecting = "queued" \/ Expired
           \/ Connected' /\ queued + oneway > 0
  BY <1>1 DEF Asked, Writes, Connected
<1> DEFINE n == Asked(connecting')
           more == [i \in 1 .. n |-> Total(now)]
<1>3. /\ more \in Seq(Nat) /\ Len(more) = n
      /\ \A i \in 1 .. n : more[i] = Total(now)
  <2> HIDE DEF n
  <2> QED BY <1>1, <1>2 DEF n
<1>4. owed' = owed \o more
  BY DEF RunOnce
<1> HIDE DEF n, more
<1>5. /\ owed' \in Seq(Nat) /\ Len(owed') = Len(owed) + n
      /\ \A i \in 1 .. Len(owed) + n :
           owed'[i] = IF i <= Len(owed) THEN owed[i] ELSE more[i - Len(owed)]
  BY <1>1, <1>3, <1>4, ConcatProperties
<1>6. Len(owed) \in Nat /\ n \in Nat
  BY <1>1, <1>2, LenProperties DEF n
<1>7. ASSUME NEW i \in 1 .. Len(owed')
      PROVE  \/ i \in 1 .. Len(owed) /\ owed'[i] = owed[i]
             \/ n > 0 /\ owed'[i] = Total(now)
  <2>1. i \in 1 .. Len(owed) + n
    BY <1>5
  <2>2. CASE i <= Len(owed)
    <3>1. i \in 1 .. Len(owed) /\ owed'[i] = owed[i]
      BY <1>5, <1>6, <2>1, <2>2
    <3> QED BY <3>1
  <2>3. CASE ~(i <= Len(owed))
    <3>1. i - Len(owed) \in 1 .. n /\ n > 0
      BY <1>6, <2>1, <2>3
    <3>2. owed'[i] = more[i - Len(owed)]
      BY <1>5, <2>1, <2>3
    <3> QED BY <1>3, <3>1, <3>2
  <2> QED BY <2>2, <2>3
<1> QED BY <1>2, <1>5, <1>7 DEF n

(* What has been answered is no longer waited for: PINGREQ first.          *)
LEMMA RunOnceAnswers ==
  ASSUME TalkInv, RunOnce
  PROVE  /\ pinging' \in BOOLEAN /\ queued' \in Nat /\ oneway' \in Nat
         /\ waiting' \in Nat /\ inbox' = <<>> /\ late' = 0
         /\ Connected' => queued' = 0 /\ oneway' = 0
         /\ ~Connected' => ~Connected /\ waiting' = waiting
                           /\ queued' = queued /\ oneway' = oneway
         /\ ~Reads =>
              /\ pinging' = (pinging \/ Expired)
              /\ waiting' = waiting + (IF Connected' THEN queued ELSE 0)
         /\ waiting' + (IF pinging' THEN 1 ELSE 0) =
              waiting + (IF pinging THEN 1 ELSE 0) - Answers
                + (IF Expired THEN 1 ELSE 0)
                + (IF Connected' THEN queued ELSE 0)
<1>1. /\ queued \in Nat /\ oneway \in Nat /\ waiting \in Nat
      /\ pinging \in BOOLEAN /\ Answers \in Nat
      /\ Answers = 0 <=> ~Spoken("RESPONSE")
      /\ inbox = <<>> => Answers = 0
      /\ Count \in Nat
      /\ Count > 0 <=> IF Connected THEN queued + oneway > 0 \/ ~Idle
                                    ELSE connecting # "half"
  BY Shape DEF TalkInv, MoreTypes
<1>2. /\ Conversation /\ (Connected => Connected')
      /\ Expired => Connected /\ Count = 0
  BY RunOncePhase DEF Connected
<1>3. Len(owed) \in Nat
  BY Shape DEF TalkInv
<1>4. Expired => Idle /\ Answers = 0
  BY <1>1, <1>2, <1>3 DEF Conversation, Idle
<1>5. ~Connected => Idle /\ Answers = 0
  BY <1>1, <1>2 DEF Conversation
<1>6. Answers <= waiting + (IF pinging THEN 1 ELSE 0)
  BY <1>1, <1>2, <1>3, <1>5 DEF Conversation
<1> DEFINE ping == pinging \/ Expired
           answers == Answers - (IF ping /\ Answers > 0 THEN 1 ELSE 0)
<1>7. /\ pinging' = (ping /\ Answers = 0)
      /\ queued' = (IF Connected' THEN 0 ELSE queued)
      /\ oneway' = (IF Connected' THEN 0 ELSE oneway)
      /\ waiting' = waiting + (IF Connected' THEN queued ELSE 0) - answers
      /\ inbox' = <<>> /\ late' = 0
  BY DEF RunOnce, Connected
<1>8. ping \in BOOLEAN /\ (ping <=> pinging \/ Expired)
  OBVIOUS
<1>9. answers = IF ping /\ Answers > 0 THEN Answers - 1 ELSE Answers
  BY <1>1
<1> HIDE DEF ping, answers
<1>10. /\ answers \in Nat /\ answers <= waiting
       /\ Answers = 0 => answers = 0
       /\ answers + (IF ping /\ Answers > 0 THEN 1 ELSE 0) = Answers
  BY <1>1, <1>4, <1>6, <1>8, <1>9 DEF Idle
<1>11. Reads <=> inbox # <<>>
  BY DEF Reads
<1>12. /\ ~Reads => pinging' = ping /\ answers = 0
       /\ pinging' <=> ping /\ Answers = 0
       /\ Expired => ~pinging
  BY <1>1, <1>4, <1>7, <1>8, <1>10, <1>11 DEF Idle
<1>13. waiting' + (IF pinging' THEN 1 ELSE 0) =
         waiting + (IF pinging THEN 1 ELSE 0) - Answers
           + (IF Expired THEN 1 ELSE 0) + (IF Connected' THEN queued ELSE 0)
  <2>1. (IF pinging' THEN 1 ELSE 0) + (IF ping /\ Answers > 0 THEN 1 ELSE 0) =
           IF ping THEN 1 ELSE 0
    BY <1>1, <1>12
  <2>2. (IF ping THEN 1 ELSE 0) =
           (IF pinging THEN 1 ELSE 0) + (IF Expired THEN 1 ELSE 0)
    BY <1>8, <1>12
  <2> QED BY <1>1, <1>7, <1>10, <2>1, <2>2
<1> QED BY <1>1, <1>2, <1>5, <1>7, <1>8, <1>10, <1>12, <1>13

(* Nothing is left in inbox.                                               *)
LEMMA NothingArrived ==
  ASSUME inbox' = <<>>
  PROVE  Answers' = 0 /\ \A p : ~Spoken(p)'
<1>1. Responses(<<>>) = 0
  <2>1. <<>> \in Seq(Packets)
    OBVIOUS
  <2> QED BY <2>1, ResponsesCounted
<1>2. Answers' = 0
  BY <1>1 DEF Answers, Responses
<1> QED BY <1>2 DEF Spoken, Range

LEMMA RunOnceConversation ==
  ASSUME TalkInv, RunOnce
  PROVE  Conversation'
<1>1. /\ queued \in Nat /\ waiting \in Nat /\ pinging \in BOOLEAN
      /\ owed \in Seq(Nat) /\ Len(owed) \in Nat
      /\ inbox = <<>> => Answers = 0 /\ \A p : ~Spoken(p)
      /\ Answers \in Nat
      /\ Answers = 0 <=> ~Spoken("RESPONSE")
      /\ connecting \in {"queued", "sent", "half", "done"}
  BY Shape DEF TalkInv, MoreTypes, KeepAliveInv, KeepAliveType
<1>2. /\ Conversation
      /\ Connected => Connected'
      /\ ~Connected /\ ~Reads =>
           connecting' = IF connecting = "queued" THEN "sent" ELSE connecting
      /\ ~Connected /\ Reads =>
           /\ connecting # "queued"
           /\ connecting' = IF Spoken("CONNACK_2") THEN "done" ELSE "half"
      /\ Expired => Connected
  BY RunOncePhase DEF Connected
<1>3. /\ pinging' \in BOOLEAN /\ waiting' \in Nat
      /\ ~Connected' => ~Connected /\ waiting' = waiting
      /\ waiting' + (IF pinging' THEN 1 ELSE 0) =
           waiting + (IF pinging THEN 1 ELSE 0) - Answers
             + (IF Expired THEN 1 ELSE 0) + (IF Connected' THEN queued ELSE 0)
      /\ inbox' = <<>>
  BY RunOnceAnswers
<1>4. Answers' = 0 /\ \A p : ~Spoken(p)'
  BY <1>3, NothingArrived
<1>5. owed' \in Seq(Nat) /\ Len(owed') = Len(owed) + Asked(connecting')
  BY RunOnceWrites
<1>6. Asked(connecting') =
        (IF connecting = "queued" THEN 1 ELSE 0) + (IF Expired THEN 1 ELSE 0)
          + (IF Connected' THEN queued ELSE 0)
  BY DEF Asked, Connected
<1>7. CASE Connected'
  <2>1. connecting # "queued"
    BY <1>2, <1>7 DEF Connected
  <2>2. waiting + (IF pinging THEN 1 ELSE 0) = Len(owed) + Answers
    <3>1. CASE Connected
      BY <1>2, <3>1 DEF Conversation
    <3>2. CASE ~Connected
      <4>1. Spoken("CONNACK_2") /\ connecting \in {"sent", "half"}
        BY <1>1, <1>2, <1>7, <2>1, <3>2 DEF Connected, Reads
      <4>2. owed = <<>> /\ Idle /\ Answers = 0
        BY <1>1, <1>2, <3>2, <4>1 DEF Conversation
      <4> QED BY <4>2 DEF Idle
    <3> QED BY <3>1, <3>2
  <2>3. waiting' + (IF pinging' THEN 1 ELSE 0) = Len(owed')
    <3> DEFINE e == IF Expired THEN 1 ELSE 0
               p == IF pinging THEN 1 ELSE 0
               w == waiting + p
               v == waiting' + (IF pinging' THEN 1 ELSE 0)
               q == IF Connected' THEN queued ELSE 0
    <3>1. e \in Nat /\ w \in Nat /\ p \in Nat /\ q = queued /\ queued \in Nat
      BY <1>1, <1>7
    <3>2. v = waiting + p - Answers + e + q
      BY <1>3
    <3>3. Asked(connecting') = (IF connecting = "queued" THEN 1 ELSE 0) + e + q
      BY <1>6
    <3>4. w = Len(owed) + Answers
      BY <2>2
    <3>5. Len(owed) \in Nat /\ Answers \in Nat
      BY <1>1
    <3>9. waiting \in Nat /\ w = waiting + p
      BY <1>1
    <3> HIDE DEF e, p, w, v, q
    <3>6. Asked(connecting') = e + q
      BY <2>1, <3>1, <3>3
    <3>7. v = Len(owed) + (e + q)
      BY <3>1, <3>2, <3>4, <3>5, <3>9
    <3>8. Len(owed') = Len(owed) + (e + q)
      BY <1>5, <3>6
    <3> QED BY <3>7, <3>8 DEF v
  <2>4. Len(owed') \in Nat
    BY <1>5, LenProperties
  <2>5. waiting' + (IF pinging' THEN 1 ELSE 0) = Len(owed') + Answers'
    BY <1>4, <2>3, <2>4
  <2>6. connecting' = "done" /\ ~Spoken("CONNACK_1")' /\ ~Spoken("CONNACK_2")'
    BY <1>4, <1>7 DEF Connected
  <2> QED BY <2>5, <2>6 DEF Conversation, Connected
<1>8. CASE ~Connected'
  <2>1. Idle /\ Answers = 0 /\ ~Expired /\ ~Connected
    BY <1>1, <1>2, <1>3, <1>8 DEF Conversation
  <2>2. waiting' = 0 /\ ~pinging'
    BY <1>3, <1>8, <2>1 DEF Idle
  <2>3. Len(owed') = Len(owed) + (IF connecting = "queued" THEN 1 ELSE 0)
    BY <1>1, <1>5, <1>6, <1>8, <2>1
  <2>4. Len(owed') <= 1 /\ connecting' # "queued" /\ owed' # <<>>
    <3>1. CASE connecting = "queued"
      <4>1. owed = <<>> /\ connecting' = "sent"
        BY <1>2, <2>1, <3>1 DEF Conversation
      <4>2. Len(owed') = 1
        BY <2>3, <3>1, <4>1
      <4> QED BY <4>1, <4>2
    <3>2. CASE connecting # "queued"
      <4>0. ~Spoken("CONNACK_2")
        <5>1. CASE Reads
          BY <1>2, <1>8, <2>1, <5>1 DEF Connected
        <5>2. CASE ~Reads
          BY <1>1, <5>2 DEF Reads
        <5> QED BY <5>1, <5>2
      <4>1. connecting \in {"sent", "half"} /\ ~Spoken("CONNACK_2")
        BY <1>1, <2>1, <3>2, <4>0 DEF Connected
      <4>2. owed # <<>> /\ Len(owed) <= 1
        BY <1>2, <2>1, <4>1 DEF Conversation
      <4>3. Len(owed') = Len(owed) /\ Len(owed) # 0
        BY <1>1, <2>3, <3>2, <4>2, EmptySeq
      <4> QED BY <1>2, <1>5, <2>1, <3>2, <4>2, <4>3
    <3> QED BY <3>1, <3>2
  <2> QED BY <1>4, <1>8, <2>2, <2>4 DEF Conversation, Connected, Idle
<1> QED BY <1>7, <1>8

(* Either something is written or read, and the silence ends; or nothing   *)
(* changes, because nothing is queued, nothing has arrived and no time has *)
(* run out.                                                                *)
LEMMA RunOnceStirs ==
  ASSUME TalkInv, RunOnce
  PROVE  /\ now' = now
         /\ \/ /\ last_io' = now /\ (Writes(connecting') \/ Reads)
            \/ /\ last_io' = last_io /\ ~Writes(connecting') /\ ~Reads
               /\ connecting' = connecting /\ connecting # "queued"
               /\ waiting' = waiting /\ pinging' = pinging
               /\ queued' = queued /\ oneway' = oneway
               /\ Connected => queued + oneway = 0
               /\ ~Expired /\ owed' = owed
         /\ last_tx' = IF Writes(connecting') THEN now ELSE last_tx
         /\ last_rx' = IF Reads THEN now ELSE last_rx
         /\ last_talk' = IF Spoken("MESSAGE") THEN now ELSE last_talk
         /\ last_call' = last_call /\ alive' = alive
<1>1. /\ now' = now
      /\ last_io' = IF Writes(connecting') \/ Reads THEN now ELSE last_io
      /\ last_tx' = IF Writes(connecting') THEN now ELSE last_tx
      /\ last_rx' = IF Reads THEN now ELSE last_rx
      /\ last_talk' = IF Spoken("MESSAGE") THEN now ELSE last_talk
      /\ last_call' = last_call /\ alive' = alive
  BY DEF RunOnce, Spoken
<1>2. ASSUME ~Writes(connecting'), ~Reads
      PROVE  /\ connecting' = connecting /\ connecting # "queued"
             /\ waiting' = waiting /\ pinging' = pinging
             /\ queued' = queued /\ oneway' = oneway
             /\ Connected => queued + oneway = 0
             /\ ~Expired /\ owed' = owed
  <2>1. /\ connecting # "queued" /\ ~Expired
        /\ ~(Connected' /\ queued + oneway > 0)
    BY <1>2, RunOnceWrites
  <2>2. connecting' = connecting
    BY <1>2, <2>1, RunOncePhase DEF Connected
  <2>3. queued \in Nat /\ oneway \in Nat /\ waiting \in Nat
        /\ pinging \in BOOLEAN /\ owed \in Seq(Nat)
    BY DEF TalkInv, MoreTypes
  <2>4. Connected' <=> Connected
    BY <2>2 DEF Connected
  <2>5. Connected => queued = 0 /\ oneway = 0
    BY <2>1, <2>3, <2>4
  <2>6. waiting' = waiting /\ pinging' = pinging /\ queued' = queued
        /\ oneway' = oneway
    BY <1>2, <2>1, <2>3, <2>4, <2>5, RunOnceAnswers
  <2>7. Asked(connecting') = 0
    BY <1>2, RunOnceWrites
  <2>8. owed' = owed
    <3>1. /\ owed' \in Seq(Nat) /\ Len(owed') = Len(owed)
          /\ \A i \in 1 .. Len(owed) : owed'[i] = owed[i]
      BY <2>3, <2>7, RunOnceWrites, LenProperties
    <3> QED BY <2>3, <3>1, SeqEqual
  <2> QED BY <2>1, <2>2, <2>5, <2>6, <2>8
<1> QED BY <1>1, <1>2

(* How long ago everything is, after a call of run_once.                   *)
LEMMA RunOnceSince ==
  ASSUME TalkInv, RunOnce
  PROVE  /\ Since(last_io) \in Int /\ Since(last_rx) \in Int
         /\ Since(last_tx) \in Int /\ Since(last_talk) \in Int
         /\ Since(last_call) \in Int
         /\ Since(last_io)' =
              IF Writes(connecting') \/ Reads THEN 0 ELSE Since(last_io)
         /\ Since(last_rx)' = IF Reads THEN 0 ELSE Since(last_rx)
         /\ Since(last_tx)' = IF Writes(connecting') THEN 0 ELSE Since(last_tx)
         /\ Since(last_talk)' =
              IF Spoken("MESSAGE") THEN 0 ELSE Since(last_talk)
         /\ Since(last_call)' = Since(last_call)
<1>1. /\ Total(now) \in Nat /\ Total(last_io) \in Nat
      /\ Total(last_rx) \in Nat /\ Total(last_tx) \in Nat
      /\ Total(last_talk) \in Nat /\ Total(last_call) \in Nat
  BY Shape DEF TalkInv
<1>2. /\ now' = now
      /\ last_io' = IF Writes(connecting') \/ Reads THEN now ELSE last_io
      /\ last_tx' = IF Writes(connecting') THEN now ELSE last_tx
      /\ last_rx' = IF Reads THEN now ELSE last_rx
      /\ last_talk' = IF Spoken("MESSAGE") THEN now ELSE last_talk
      /\ last_call' = last_call
  BY DEF RunOnce, Spoken
<1>3. Total(now) - Total(now) = 0
  BY <1>1
<1>4. /\ Since(last_io)' =
           IF Writes(connecting') \/ Reads THEN 0 ELSE Since(last_io)
      /\ Since(last_rx)' = IF Reads THEN 0 ELSE Since(last_rx)
      /\ Since(last_tx)' = IF Writes(connecting') THEN 0 ELSE Since(last_tx)
      /\ Since(last_talk)' =
           IF Spoken("MESSAGE") THEN 0 ELSE Since(last_talk)
      /\ Since(last_call)' = Since(last_call)
  BY <1>2, <1>3 DEF Since
<1> QED BY <1>1, <1>4 DEF Since

LEMMA RunOnceAges ==
  ASSUME TalkInv, RunOnce
  PROVE  Ages'
<1>1. Ages /\ alive' = alive /\ now' = now /\ PeerDelay \in Nat
  BY RunOncePhase, RunOnceStirs, Spans
<1>2. /\ 0 <= Since(last_io)'
      /\ Since(last_io)' <= Since(last_rx)'
      /\ Since(last_io)' <= Since(last_tx)'
      /\ 0 <= Since(last_talk)' /\ 0 <= Since(last_call)'
  BY <1>1, RunOnceSince DEF Ages
<1>3. inbox' = <<>>
  BY RunOnceAnswers
<1>4. \A p : ~Spoken(p)'
  BY <1>3, NothingArrived
<1>5. ASSUME alive', NEW i \in 1 .. Len(owed')
      PROVE  Total(now)' <= owed'[i] + PeerDelay /\ owed'[i] <= Total(last_tx)'
  <2>1. /\ Total(now) \in Nat /\ Total(last_tx) \in Nat
        /\ owed \in Seq(Nat)
        /\ Since(last_tx) = Total(now) - Total(last_tx)
    BY Shape DEF TalkInv, MoreTypes, Since
  <2>2. Total(last_tx) <= Total(now)
    BY <1>1, <2>1, RunOnceSince DEF Ages
  <2>3. /\ Total(now)' = Total(now)
        /\ Total(last_tx)' = IF Writes(connecting') THEN Total(now)
                             ELSE Total(last_tx)
    BY RunOnceStirs
  <2>4. CASE i \in 1 .. Len(owed) /\ owed'[i] = owed[i]
    <3>1. owed[i] \in Nat
      BY <2>1, <2>4, ElementOfSeq
    <3>2. Total(now) <= owed[i] + PeerDelay /\ owed[i] <= Total(last_tx)
      BY <1>1, <1>5, <2>4 DEF Ages
    <3> QED BY <2>1, <2>2, <2>3, <2>4, <3>1, <3>2
  <2>5. CASE Asked(connecting') > 0 /\ owed'[i] = Total(now)
    <3>1. Writes(connecting')
      BY <2>5, RunOnceWrites
    <3> QED BY <1>1, <2>1, <2>3, <2>5, <3>1
  <2> QED BY <2>4, <2>5, RunOnceWrites
<1> QED BY <1>2, <1>4, <1>5 DEF Ages

LEMMA RunOnceSilences ==
  ASSUME TalkInv, RunOnce
  PROVE  Silences'
<1>1. late' = 0 /\ Idling \in Nat /\ Waits \in Nat
  BY RunOnceAnswers, Spans
<1>2. CASE Writes(connecting') \/ Reads
  <2>1. Since(last_io)' = 0
    BY <1>2, RunOnceSince
  <2> QED BY <1>1, <2>1 DEF Silences
<1>3. CASE ~(Writes(connecting') \/ Reads)
  <2>1. /\ connecting' = connecting /\ waiting' = waiting
        /\ pinging' = pinging /\ queued' = queued /\ oneway' = oneway
        /\ Connected => queued + oneway = 0
        /\ ~Expired
    BY <1>3, RunOnceStirs
  <2>2. Since(last_io)' = Since(last_io) /\ Since(last_io) \in Int
    BY <1>3, RunOnceSince
  <2>3. Count' = Count /\ (Idle' <=> Idle) /\ (Connected' <=> Connected)
    BY <2>1 DEF Count, Idle, Connected
  <2>4. /\ Count \in Nat
        /\ Count > 0 <=> IF Connected THEN queued + oneway > 0 \/ ~Idle
                                      ELSE connecting # "half"
    BY Shape DEF TalkInv
  <2>5. /\ Count > 0 => Since(last_io) < Waits
        /\ Count = 0 /\ Connected => Since(last_io) < Idling
    BY <1>1, <2>1, <2>2, ExpiredMeans DEF TalkInv, RunOnce
  <2>6. Connected /\ Idle => Since(last_io) < Idling
    BY <2>1, <2>4, <2>5
  <2> QED BY <1>1, <2>1, <2>2, <2>3, <2>5, <2>6 DEF Silences
<1> QED BY <1>2, <1>3

LEMMA RunOnceCauses ==
  ASSUME TalkInv, RunOnce
  PROVE  Causes'
<1> DEFINE w == Writes(connecting')
<1>1. /\ Silences /\ Causes /\ Ages
      /\ Connected => Connected'
      /\ ~Connected /\ ~Reads =>
           connecting' = IF connecting = "queued" THEN "sent" ELSE connecting
      /\ ~Connected /\ Reads =>
           connecting' = IF Spoken("CONNACK_2") THEN "done" ELSE "half"
      /\ Expired => Connected /\ Count = 0
      /\ connecting \in {"queued", "sent", "half", "done"}
  BY RunOncePhase DEF Connected, TalkInv, KeepAliveInv, KeepAliveType
<1>2. /\ Idling \in Nat /\ AppDelay \in Nat /\ PeerDelay \in Nat
      /\ late \in Nat /\ late <= AppDelay /\ late' = 0
  BY Spans, RunOnceAnswers, Shape DEF TalkInv, MoreTypes
<1>3. /\ Since(last_io) \in Int /\ Since(last_rx) \in Int
      /\ Since(last_tx) \in Int /\ Since(last_talk) \in Int
      /\ Since(last_call) \in Int
      /\ Since(last_io)' = IF w \/ Reads THEN 0 ELSE Since(last_io)
      /\ Since(last_rx)' = IF Reads THEN 0 ELSE Since(last_rx)
      /\ Since(last_tx)' = IF w THEN 0 ELSE Since(last_tx)
      /\ Since(last_talk)' =
           IF Spoken("MESSAGE") THEN 0 ELSE Since(last_talk)
      /\ Since(last_call)' = Since(last_call)
  BY RunOnceSince
<1>4. /\ w <=> \/ connecting = "queued" \/ Expired
               \/ Connected' /\ queued + oneway > 0
  BY RunOnceWrites
<1>5. ~w /\ ~Reads => /\ connecting' = connecting /\ pinging' = pinging
                      /\ queued' = queued /\ oneway' = oneway
  BY RunOnceStirs
<1> HIDE DEF w
<1>6. connecting' # "queued"
  BY <1>1 DEF Connected
<1>7. ASSUME connecting' = "sent"
      PROVE  Since(last_rx)' <= Since(last_io)' + AppDelay
  <2>1. ~Connected /\ ~Reads /\ connecting \in {"queued", "sent"}
    BY <1>1, <1>7 DEF Connected
  <2>2. CASE connecting = "queued"
    <3>1. Since(last_rx) <= late /\ w
      BY <1>1, <1>4, <2>2 DEF Causes
    <3> QED BY <1>2, <1>3, <2>1, <3>1
  <2>3. CASE connecting = "sent"
    <3>1. Since(last_rx) <= Since(last_io) + AppDelay /\ ~w
      BY <1>1, <1>4, <1>7, <2>1, <2>3 DEF Causes, Connected
    <3> QED BY <1>3, <2>1, <3>1
  <2> QED BY <2>1, <2>2, <2>3
<1>8. ASSUME Connected'
      PROVE  ~(queued' + oneway' > 0)
  BY <1>8, RunOnceAnswers
<1> DEFINE sent == IF pinging THEN Idling + AppDelay ELSE 0
<1>9. ASSUME Connected'
      PROVE  \/ Since(last_rx)' <= Since(last_io)' + sent'
             \/ Since(last_call)' <= Since(last_io)' + sent' + AppDelay
  <2>1. sent' \in Nat /\ sent \in Nat
    BY <1>2
  <2>2. CASE Reads
    BY <1>3, <2>1, <2>2
  <2>3. CASE ~Reads
    <3>1. Connected
      BY <1>1, <1>9, <2>3 DEF Connected
    <3>2. \/ Since(last_rx) <= Since(last_io) + sent
          \/ Since(last_call) <= Since(last_io) + sent + AppDelay
      BY <1>1, <3>1 DEF Causes
    <3>3. CASE ~w
      <4>1. sent' = sent
        BY <1>5, <2>3, <3>3
      <4> QED BY <1>3, <2>3, <3>2, <3>3, <4>1
    <3>4. CASE w /\ queued + oneway > 0
      <4>1. Since(last_call) <= late
        BY <1>1, <3>1, <3>4 DEF Causes
      <4> QED BY <1>2, <1>3, <2>1, <3>4, <4>1
    <3>5. CASE Expired
      <4>1. Idle
        BY <1>1, <3>1, <3>5, Shape DEF TalkInv
      <4>2. Since(last_io) <= Idling + late
        BY <1>1, <3>1, <4>1 DEF Silences
      <4>3. sent = 0
        BY <4>1 DEF Idle
      <4>4. sent' = Idling + AppDelay
        BY <2>3, <3>5, RunOnceAnswers
      <4>5. w
        BY <1>4, <3>5
      <4> HIDE DEF sent
      <4> QED BY <1>2, <1>3, <2>3, <3>2, <4>2, <4>3, <4>4, <4>5
    <3> QED BY <1>4, <3>1, <3>3, <3>4, <3>5 DEF Connected
  <2> QED BY <2>2, <2>3
<1>10. ASSUME Connected'
       PROVE  \/ Since(last_tx)' <= Since(last_io)' + PeerDelay + AppDelay
              \/ Since(last_talk)' <= Since(last_io)'
  <2>1. CASE w
    BY <1>2, <1>3, <2>1
  <2>2. CASE ~w /\ Reads
    <3>1. PICK p \in Packets : Spoken(p)
      BY <2>2, Shape DEF TalkInv, Reads
    <3>2. CASE p = "MESSAGE"
      BY <1>3, <2>2, <3>1, <3>2
    <3>3. CASE p # "MESSAGE"
      <4>1. Since(last_tx) <= PeerDelay + late
        BY <1>1, <3>1, <3>3 DEF Ages
      <4> QED BY <1>2, <1>3, <2>2, <4>1
    <3> QED BY <3>2, <3>3
  <2>3. CASE ~w /\ ~Reads
    <3>1. Connected
      BY <1>5, <1>10, <2>3 DEF Connected
    <3>2. \/ Since(last_tx) <= Since(last_io) + PeerDelay + AppDelay
          \/ Since(last_talk) <= Since(last_io)
      BY <1>1, <3>1 DEF Causes
    <3>3. CASE Spoken("MESSAGE")
      <4>1. FALSE
        BY <2>3, <3>3, Shape DEF TalkInv, Reads
      <4> QED BY <4>1
    <3>4. CASE ~Spoken("MESSAGE")
      BY <1>3, <2>3, <3>2, <3>4
    <3> QED BY <3>3, <3>4
  <2> QED BY <2>1, <2>2, <2>3
<1> QED BY <1>6, <1>7, <1>8, <1>9, <1>10 DEF Causes

LEMMA RunOnceTalks ==
  ASSUME TalkInv, RunOnce
  PROVE  MoreTypes' /\ Talking'
<1>1. now \in Times /\ MoreTypes /\ AppDelay \in Nat
  BY Spans DEF TalkInv, KeepAliveInv, KeepAliveType
<1>2. /\ pinging' \in BOOLEAN /\ queued' \in Nat /\ oneway' \in Nat
      /\ waiting' \in Nat /\ inbox' = <<>> /\ late' = 0
  BY RunOnceAnswers
<1>3. /\ now' = now /\ alive' = alive
      /\ last_io' \in {now, last_io} /\ last_rx' \in {now, last_rx}
      /\ last_tx' \in {now, last_tx} /\ last_talk' \in {now, last_talk}
      /\ last_call' = last_call
  BY RunOnceStirs
<1>4. owed' \in Seq(Nat) /\ inbox' \in Seq(Packets)
  BY <1>2, RunOnceWrites
<1>5. MoreTypes'
  BY <1>1, <1>2, <1>3, <1>4 DEF MoreTypes
<1> QED BY <1>5, RunOnceConversation, RunOnceAges, RunOnceSilences,
           RunOnceCauses DEF Talking

-----------------------------------------------------------------------------
(* The other actions.                                                      *)

(* A connection on which nothing has happened yet.                         *)
Fresh ==
  /\ KeepAliveInv /\ MoreTypes
  /\ connecting = "queued" /\ Idle
  /\ inbox = <<>> /\ owed = <<>> /\ late = 0
  /\ last_io = now /\ last_rx = now /\ last_talk = now
  /\ last_tx = now /\ last_call = now

LEMMA FreshTalks == Fresh => Talking
<1> SUFFICES ASSUME Fresh
             PROVE  Conversation /\ Ages /\ Silences /\ Causes
  BY DEF Talking
<1>1. /\ Total(now) \in Nat /\ \A p : ~Spoken(p)
      /\ Idling \in Nat /\ Waits \in Nat /\ PeerDelay \in Nat
  BY Shape, Spans DEF Fresh
<1>2. /\ Since(last_io) = 0 /\ Since(last_rx) = 0 /\ Since(last_tx) = 0
      /\ Since(last_talk) = 0 /\ Since(last_call) = 0
  BY <1>1 DEF Fresh, Since
<1>3. connecting = "queued" /\ ~Connected /\ late = 0 /\ Idle
      /\ owed = <<>> /\ inbox = <<>>
  BY DEF Fresh, Connected
<1>4. Len(owed) = 0
  BY <1>3
<1>5. Conversation
  BY <1>1, <1>3, <1>4 DEF Conversation
<1>6. Ages
  BY <1>1, <1>2, <1>3, <1>4 DEF Ages
<1>7. Silences
  BY <1>1, <1>2, <1>3 DEF Silences
<1>8. Causes
  BY <1>2, <1>3 DEF Causes
<1> QED BY <1>5, <1>6, <1>7, <1>8

LEMMA TalkInit == Init => TalkInv
<1> SUFFICES ASSUME Init PROVE TalkInv
  OBVIOUS
<1>1. KeepAliveInv
  BY KeepAliveInit
<1>2. MoreTypes
  <2>1. now \in Times /\ now.secs >= 1 /\ last_io = now
    BY <1>1 DEF KeepAliveInv, KeepAliveType, Init
  <2>2. late \in 0 .. AppDelay
    BY Spans DEF Init
  <2>3. inbox \in Seq(Packets) /\ owed \in Seq(Nat)
    BY DEF Init
  <2>4. \A t \in {last_rx, last_tx, last_talk, last_call} : t = now
    BY DEF Init
  <2>5. /\ queued \in Nat /\ oneway \in Nat /\ waiting \in Nat
        /\ pinging \in BOOLEAN /\ alive \in BOOLEAN
    BY DEF Init
  <2> QED BY <2>1, <2>2, <2>3, <2>4, <2>5 DEF MoreTypes
<1>3. Fresh
  BY <1>1, <1>2 DEF Fresh, Init, Idle
<1> QED BY <1>1, <1>2, <1>3, FreshTalks DEF TalkInv

LEMMA OpenTalks ==
  ASSUME TalkInv, Open, KeepAliveInv'
  PROVE  MoreTypes' /\ Talking'
<1>1. MoreTypes'
  <2>1. now \in Times /\ MoreTypes /\ 0 \in 0 .. AppDelay
    BY Spans DEF TalkInv, KeepAliveInv, KeepAliveType
  <2>2. queued' \in Nat
    BY <2>1 DEF Open, MoreTypes
  <2>3. late' \in 0 .. AppDelay
    BY <2>1 DEF Open
  <2>4. inbox' \in Seq(Packets) /\ owed' \in Seq(Nat)
    BY DEF Open
  <2>5. /\ now' = now /\ last_io' = now
        /\ \A t \in {last_rx', last_tx', last_talk', last_call'} : t = now
    BY DEF Open
  <2>6. /\ oneway' \in Nat /\ waiting' \in Nat
        /\ pinging' \in BOOLEAN /\ alive' \in BOOLEAN
    BY <2>1 DEF Open, MoreTypes
  <2>7. now'.secs >= 1
    BY <2>1, <2>5 DEF MoreTypes
  <2> QED BY <2>1, <2>2, <2>3, <2>4, <2>5, <2>6, <2>7 DEF MoreTypes
<1>2. Fresh'
  BY <1>1 DEF Fresh, Open, Idle
<1>3. Fresh' => Talking'
  BY FreshTalks, PTL
<1> QED BY <1>1, <1>2, <1>3

(* Steps that neither take time nor do I/O.                                *)
Quiet ==
  /\ UNCHANGED <<now, connecting, waiting, pinging, queued, oneway, late>>
  /\ UNCHANGED <<last_io, last_rx, last_tx, last_talk, last_call>>

LEMMA QuietTalks ==
  ASSUME Quiet, Silences, Causes
  PROVE  /\ Silences' /\ Causes'
         /\ Since(last_io)' = Since(last_io)
         /\ Since(last_rx)' = Since(last_rx)
         /\ Since(last_tx)' = Since(last_tx)
         /\ Since(last_talk)' = Since(last_talk)
         /\ Since(last_call)' = Since(last_call)
         /\ Connected' = Connected /\ Idle' = Idle
<1>1. /\ Since(last_io)' = Since(last_io)
      /\ Since(last_rx)' = Since(last_rx)
      /\ Since(last_tx)' = Since(last_tx)
      /\ Since(last_talk)' = Since(last_talk)
      /\ Since(last_call)' = Since(last_call)
      /\ Connected' = Connected /\ Idle' = Idle /\ Count' = Count
  BY DEF Quiet, Since, Connected, Idle, Count
<1>2. Silences'
  BY <1>1 DEF Quiet, Silences
<1>3. Causes'
  BY <1>1 DEF Quiet, Causes
<1> QED BY <1>1, <1>2, <1>3

LEMMA CallTalks ==
  ASSUME TalkInv, Call
  PROVE  MoreTypes' /\ Talking'
<1>1. /\ Running /\ Connected /\ Conversation /\ Ages /\ Silences /\ Causes
      /\ MoreTypes /\ now \in Times
  BY DEF TalkInv, Talking, Call, KeepAliveInv, KeepAliveType
<1>2. /\ UNCHANGED <<now, connecting, waiting, pinging, inbox, owed, alive>>
      /\ UNCHANGED <<late, last_io, last_rx, last_tx, last_talk>>
      /\ last_call' = now
  BY DEF Call, peer
<1>3. queued' \in Nat /\ oneway' \in Nat
  BY <1>1 DEF Call, MoreTypes
<1>4. MoreTypes'
  BY <1>1, <1>2, <1>3 DEF MoreTypes
<1>5. /\ Since(last_io)' = Since(last_io)
      /\ Since(last_rx)' = Since(last_rx)
      /\ Since(last_tx)' = Since(last_tx)
      /\ Since(last_talk)' = Since(last_talk)
      /\ Since(last_call)' = 0
      /\ Since(last_io) \in Int
      /\ Connected' = Connected /\ Idle' = Idle
  BY <1>2, Shape DEF TalkInv, Since, Connected, Idle
<1>6. Conversation'
  BY <1>1, <1>2, <1>5 DEF Conversation, Answers, Spoken
<1>7. Ages'
  BY <1>1, <1>2, <1>5 DEF Ages, Spoken
<1>8. Silences'
  <2>1. CASE Idle
    BY <1>1, <1>2, <1>5, <2>1 DEF Silences, Idle
  <2>2. CASE ~Idle
    <3>1. Count > 0 /\ connecting # "half"
      BY <1>1, <2>2, Shape DEF TalkInv, Connected
    <3> QED BY <1>1, <1>2, <1>5, <2>2, <3>1 DEF Silences
  <2> QED BY <2>1, <2>2
<1>9. Causes'
  <2>1. /\ AppDelay \in Nat /\ Idling \in Nat /\ late \in Nat
        /\ Since(last_io) >= 0 /\ connecting = "done"
    BY <1>1, Spans, Shape DEF TalkInv, Ages, Connected
  <2> DEFINE sent == IF pinging THEN Idling + AppDelay ELSE 0
  <2>2. sent' \in Nat
    BY <2>1
  <2>3. Since(last_call)' <= Since(last_io)' + sent' + AppDelay
    BY <1>5, <2>1, <2>2
  <2> QED BY <1>1, <1>2, <1>5, <2>1, <2>3 DEF Causes
<1> QED BY <1>4, <1>6, <1>7, <1>8, <1>9 DEF Talking

LEMMA TalkTalks ==
  ASSUME TalkInv, Talk
  PROVE  MoreTypes' /\ Talking'
<1>1. /\ Connected /\ Conversation /\ Ages /\ Silences /\ Causes
      /\ MoreTypes
  BY DEF TalkInv, Talking, Talk
<1>2. /\ Quiet /\ owed' = owed /\ alive' = alive
      /\ inbox' = Append(inbox, "MESSAGE")
  BY DEF Quiet, Talk, client, peer, history
<1>3. /\ Silences' /\ Causes' /\ Since(last_io)' = Since(last_io)
      /\ Since(last_rx)' = Since(last_rx)
      /\ Since(last_tx)' = Since(last_tx)
      /\ Since(last_talk)' = Since(last_talk)
      /\ Since(last_call)' = Since(last_call)
      /\ Connected' = Connected /\ Idle' = Idle
  BY <1>1, <1>2, QuietTalks
<1>4. "MESSAGE" \in Packets /\ inbox \in Seq(Packets)
  BY <1>1 DEF Packets, MoreTypes
<1>5. /\ Responses(Append(inbox, "MESSAGE")) =
           Responses(inbox) + (IF "MESSAGE" = "RESPONSE" THEN 1 ELSE 0)
      /\ Range(Append(inbox, "MESSAGE")) = Range(inbox) \cup {"MESSAGE"}
      /\ Append(inbox, "MESSAGE") \in Seq(Packets)
      /\ Responses(inbox) \in Nat
  BY <1>4, ResponsesAppended, ResponsesCounted
<1>6. Answers' = Answers
  <2>1. Answers = Responses(inbox) /\ Answers' = Responses(inbox')
    BY DEF Answers, Responses
  <2>2. Responses(inbox') = Responses(inbox) + 0
    BY <1>2, <1>5
  <2> QED BY <1>5, <2>1, <2>2
<1>7. \A p : Spoken(p)' <=> Spoken(p) \/ p = "MESSAGE"
  BY <1>2, <1>5 DEF Spoken
<1>8. MoreTypes'
  BY <1>1, <1>2, <1>5 DEF MoreTypes, Quiet
<1>9. Conversation'
  BY <1>1, <1>2, <1>3, <1>6, <1>7 DEF Conversation, Connected, Quiet
<1>10. Ages'
  BY <1>1, <1>2, <1>3, <1>7 DEF Ages, Quiet
<1> QED BY <1>3, <1>8, <1>9, <1>10 DEF Talking

LEMMA StillTalks ==
  ASSUME TalkInv, Die \/ UNCHANGED vars
  PROVE  MoreTypes' /\ Talking'
<1>1. /\ Quiet /\ owed' = owed /\ inbox' = inbox /\ error' = error
      /\ alive' \in {FALSE, alive}
  BY DEF Quiet, Die, vars, client, peer, history
<1>2. MoreTypes'
  BY <1>1 DEF TalkInv, MoreTypes, Quiet
<1>3. ASSUME Running'
      PROVE  Conversation' /\ Ages' /\ Silences' /\ Causes'
  <2>1. Conversation /\ Ages /\ Silences /\ Causes
    BY <1>1, <1>3 DEF TalkInv, Talking, Running
  <2>2. /\ Silences' /\ Causes' /\ Since(last_io)' = Since(last_io)
        /\ Since(last_rx)' = Since(last_rx)
        /\ Since(last_tx)' = Since(last_tx)
        /\ Since(last_talk)' = Since(last_talk)
        /\ Since(last_call)' = Since(last_call)
        /\ Connected' = Connected /\ Idle' = Idle
    BY <1>1, <2>1, QuietTalks
  <2>3. Conversation'
    BY <1>1, <2>1, <2>2 DEF Conversation, Quiet, Answers, Spoken
  <2>4. Ages'
    <3>1. alive' => alive
      BY <1>1
    <3> QED BY <1>1, <2>1, <2>2, <3>1 DEF Ages, Quiet, Spoken
  <2> QED BY <2>2, <2>3, <2>4
<1> QED BY <1>2, <1>3 DEF Talking

LEMMA TimeOutTalks ==
  ASSUME TalkInv, TimeOut
  PROVE  MoreTypes' /\ Talking'
<1>1. MoreTypes'
  BY DEF TimeOut, TalkInv, MoreTypes, peer, history
<1>2. ~Running'
  BY DEF TimeOut, Running
<1> QED BY <1>1, <1>2 DEF Talking

(* What a live peer still owes it got with the last output, at most        *)
(* PeerDelay ago.                                                          *)
LEMMA OwedSoon ==
  ASSUME TalkInv, Running, alive, owed # <<>>
  PROVE  Since(last_tx) <= PeerDelay
<1>1. owed \in Seq(Nat) /\ Len(owed) \in Nat /\ Len(owed) # 0
  BY EmptySeq, LenProperties DEF TalkInv, MoreTypes
<1>2. 1 \in 1 .. Len(owed) /\ owed[1] \in Nat
  BY <1>1, ElementOfSeq
<1>3. Total(now) <= owed[1] + PeerDelay /\ owed[1] <= Total(last_tx)
  BY <1>2 DEF TalkInv, Talking, Ages
<1>4. Total(now) \in Nat /\ Total(last_tx) \in Nat /\ PeerDelay \in Nat
  BY Shape, Spans DEF TalkInv
<1> QED BY <1>2, <1>3, <1>4 DEF Since

LEMMA AnswerTalks ==
  ASSUME TalkInv, Answer
  PROVE  MoreTypes' /\ Talking'
<1>1. /\ Running /\ alive /\ owed # <<>>
      /\ Conversation /\ Ages /\ Silences /\ Causes /\ MoreTypes
      /\ connecting \in {"queued", "sent", "half", "done"}
  BY DEF TalkInv, Talking, Answer, KeepAliveInv, KeepAliveType
<1>2. Quiet /\ alive' = alive
  BY DEF Quiet, Answer, client, history
<1>3. /\ Silences' /\ Causes' /\ Since(last_io)' = Since(last_io)
      /\ Since(last_rx)' = Since(last_rx)
      /\ Since(last_tx)' = Since(last_tx)
      /\ Since(last_talk)' = Since(last_talk)
      /\ Since(last_call)' = Since(last_call)
      /\ Connected' = Connected /\ Idle' = Idle
  BY <1>1, <1>2, QuietTalks
<1>4. Since(last_tx) <= PeerDelay + late
  <2>1. Since(last_tx) \in Int /\ late \in Nat /\ PeerDelay \in Nat
    BY Shape, Spans DEF TalkInv, Since
  <2> QED BY <1>1, <2>1, OwedSoon
<1>5. connecting # "queued" /\ inbox \in Seq(Packets) /\ owed \in Seq(Nat)
  BY <1>1 DEF Conversation, MoreTypes
<1>6. Packets = {"CONNACK_1", "CONNACK_2", "RESPONSE", "MESSAGE"}
  BY DEF Packets
<1>7. /\ Tail(owed) \in Seq(Nat) /\ Len(Tail(owed)) = Len(owed) - 1
      /\ \A i \in 1 .. Len(Tail(owed)) :
           i + 1 \in 1 .. Len(owed) /\ Tail(owed)[i] = owed[i + 1]
      /\ Len(owed) \in Nat
  <2>1. Len(owed) \in Nat
    BY <1>5, LenProperties
  <2>2. /\ Tail(owed) \in Seq(Nat) /\ Len(Tail(owed)) = Len(owed) - 1
        /\ \A i \in 1 .. Len(Tail(owed)) : Tail(owed)[i] = owed[i + 1]
    BY <1>1, <1>5, HeadTailProperties
  <2> QED BY <2>1, <2>2
<1>8. ASSUME NEW p \in Packets, inbox' = Append(inbox, p)
      PROVE  /\ inbox' \in Seq(Packets)
             /\ \A q : Spoken(q)' <=> Spoken(q) \/ q = p
             /\ Answers' = Answers + (IF p = "RESPONSE" THEN 1 ELSE 0)
  <2>1. /\ Responses(inbox') =
             Responses(inbox) + (IF p = "RESPONSE" THEN 1 ELSE 0)
        /\ Range(inbox') = Range(inbox) \cup {p} /\ inbox' \in Seq(Packets)
    BY <1>5, <1>8, ResponsesAppended
  <2>2. Answers = Responses(inbox) /\ Answers' = Responses(inbox')
    BY DEF Answers, Responses
  <2> QED BY <2>1, <2>2 DEF Spoken
(* The first part of CONNACK.                                              *)
<1>9. CASE ~Connected /\ connecting # "half" /\ inbox = <<>>
  <2>1. inbox' = <<"CONNACK_1">> /\ owed' = owed
    BY <1>9 DEF Answer
  <2>2. inbox' = Append(inbox, "CONNACK_1") /\ "CONNACK_1" \in Packets
    BY <1>6, <1>9, <2>1
  <2>3. /\ inbox' \in Seq(Packets)
        /\ \A q : Spoken(q)' <=> Spoken(q) \/ q = "CONNACK_1"
    BY <1>8, <2>2
  <2>4. MoreTypes'
    BY <1>1, <1>2, <2>1, <2>3 DEF MoreTypes, Quiet
  <2>5. Conversation'
    BY <1>1, <1>2, <1>3, <1>5, <1>9, <2>1, <2>3
       DEF Conversation, Connected, Quiet
  <2>6. Ages'
    BY <1>1, <1>2, <1>3, <1>4, <2>1, <2>3 DEF Ages, Quiet
  <2> QED BY <1>3, <2>4, <2>5, <2>6 DEF Talking
(* Everything else takes a debt away.                                      *)
<1>10. CASE ~(~Connected /\ connecting # "half" /\ inbox = <<>>)
  <2> DEFINE p == IF Connected THEN "RESPONSE" ELSE "CONNACK_2"
  <2>1. inbox' = Append(inbox, p) /\ owed' = Tail(owed) /\ p \in Packets
    BY <1>6, <1>10 DEF Answer
  <2>2. /\ inbox' \in Seq(Packets)
        /\ \A q : Spoken(q)' <=> Spoken(q) \/ q = p
        /\ Answers' = Answers + (IF p = "RESPONSE" THEN 1 ELSE 0)
    BY <1>8, <2>1
  <2>3. MoreTypes'
    BY <1>1, <1>2, <1>7, <2>1, <2>2 DEF MoreTypes, Quiet
  <2>4. Conversation'
    <3>1. Answers \in Nat /\ waiting \in Nat /\ pinging \in BOOLEAN
      BY <1>1, Shape DEF TalkInv, MoreTypes
    <3>2. CASE Connected
      <4>1. /\ Len(owed') = Len(owed) - 1 /\ Answers' = Answers + 1
            /\ ~Spoken("CONNACK_1")' /\ ~Spoken("CONNACK_2")'
        BY <1>1, <1>7, <2>1, <2>2, <3>2 DEF Conversation
      <4>2. waiting + (IF pinging THEN 1 ELSE 0) = Len(owed) + Answers
        BY <1>1, <3>2 DEF Conversation
      <4>3. waiting + (IF pinging THEN 1 ELSE 0) = Len(owed') + Answers'
        BY <1>7, <3>1, <4>1, <4>2
      <4>4. connecting' = "done" /\ waiting' = waiting /\ pinging' = pinging
        BY <1>2, <3>2 DEF Connected, Quiet
      <4> QED BY <4>1, <4>3, <4>4 DEF Conversation, Connected
    <3>3. CASE ~Connected
      <4>1. /\ Spoken("CONNACK_2")' /\ ~Spoken("RESPONSE")'
            /\ ~Spoken("MESSAGE")'
        BY <1>1, <2>2, <3>3 DEF Conversation
      <4>2. Len(owed) = 1
        BY <1>1, <1>5, <1>7, <3>3, EmptySeq DEF Conversation
      <4>3. Len(owed') = 0 /\ owed' = <<>>
        BY <1>7, <2>1, <4>2, EmptySeq
      <4>4. Idle' /\ ~Connected' /\ connecting' # "queued"
        BY <1>1, <1>2, <1>3, <1>5, <3>3 DEF Conversation, Quiet
      <4> QED BY <4>1, <4>3, <4>4 DEF Conversation
    <3> QED BY <3>2, <3>3
  <2>5. Ages'
    <3>1. /\ 0 <= Since(last_io)'
          /\ Since(last_io)' <= Since(last_rx)'
          /\ Since(last_io)' <= Since(last_tx)'
          /\ 0 <= Since(last_talk)' /\ 0 <= Since(last_call)'
      BY <1>1, <1>3 DEF Ages
    <3>2. \A i \in 1 .. Len(owed') : /\ Total(now) <= owed'[i] + PeerDelay
                                     /\ owed'[i] <= Total(last_tx)
      BY <1>1, <1>7, <2>1 DEF Ages
    <3>3. \A i \in 1 .. Len(owed') :
            /\ Total(now') <= owed'[i] + PeerDelay
            /\ owed'[i] <= Total(last_tx')
      BY <1>2, <3>2 DEF Quiet
    <3>4. Since(last_tx)' <= PeerDelay + late'
      BY <1>2, <1>3, <1>4 DEF Quiet
    <3> QED BY <3>1, <3>3, <3>4 DEF Ages
  <2> QED BY <1>3, <2>3, <2>4, <2>5 DEF Talking
<1> QED BY <1>9, <1>10

(* Time passes only if nobody is due: the application is late for AppDelay *)
(* at most, and what is not wanted is not yet needed.                      *)
LEMMA TickTalks ==
  ASSUME TalkInv, Tick
  PROVE  MoreTypes' /\ Talking'
<1>1. /\ MoreTypes /\ KeepAliveInv /\ now \in Times /\ now' = Later(now)
      /\ late \in Nat /\ AppDelay \in Nat /\ PeerDelay \in Nat
      /\ Idling \in Nat /\ Waits \in Nat
      /\ Wanted => late < AppDelay
      /\ late' = IF Wanted THEN late + 1 ELSE 0
  BY Shape, Spans DEF TalkInv, KeepAliveInv, KeepAliveType, Tick
<1>2. /\ UNCHANGED <<error, connecting, queued, oneway, waiting, pinging>>
      /\ UNCHANGED <<inbox, owed, alive>>
      /\ UNCHANGED <<last_io, last_rx, last_tx, last_talk, last_call>>
  BY DEF Tick, client, peer, history
<1>3. /\ Total(now) \in Nat /\ Total(now') = Total(now) + 1
      /\ now'.secs >= now.secs
  BY <1>1, Moments
<1>4. MoreTypes'
  <2>1. now.secs \in Nat /\ now'.secs \in Nat /\ now.secs >= 1
    BY <1>1, LaterType DEF MoreTypes, Times
  <2>2. now'.secs >= 1 /\ late' \in 0 .. AppDelay
    BY <1>1, <1>3, <2>1
  <2> QED BY <1>1, <1>2, <2>2 DEF MoreTypes
<1>5. /\ Since(last_io) \in Int /\ Since(last_io)' = Since(last_io) + 1
      /\ Since(last_rx) \in Int /\ Since(last_rx)' = Since(last_rx) + 1
      /\ Since(last_tx) \in Int /\ Since(last_tx)' = Since(last_tx) + 1
      /\ Since(last_talk) \in Int /\ Since(last_talk)' = Since(last_talk) + 1
      /\ Since(last_call) \in Int /\ Since(last_call)' = Since(last_call) + 1
  <2>1. /\ Total(last_io) \in Nat /\ Total(last_rx) \in Nat
        /\ Total(last_tx) \in Nat /\ Total(last_talk) \in Nat
        /\ Total(last_call) \in Nat
    BY Shape DEF TalkInv
  <2> QED BY <1>2, <1>3, <2>1 DEF Since
<1>6. ASSUME Running'
      PROVE  Conversation' /\ Ages' /\ Silences' /\ Causes'
  <2>1. Running /\ Conversation /\ Ages /\ Silences /\ Causes
    BY <1>2, <1>6 DEF TalkInv, Talking, Running
  <2>2. Connected' = Connected /\ Idle' = Idle /\ Count' = Count
    BY <1>2 DEF Connected, Idle, Count
  <2>3. Conversation'
    BY <1>2, <2>1, <2>2 DEF Conversation, Answers, Spoken
  <2>4. ~Wanted => /\ ~Expired /\ ~Reads /\ connecting # "queued"
                   /\ Connected => ~(queued + oneway > 0)
    <3>1. queued \in Nat /\ oneway \in Nat
      BY <1>1 DEF MoreTypes
    <3> QED BY <2>1, <3>1 DEF Wanted, Writes, Asked, Connected
  <2>5. Ages'
    <3>1. /\ 0 <= Since(last_io)'
          /\ Since(last_io)' <= Since(last_rx)'
          /\ Since(last_io)' <= Since(last_tx)'
          /\ 0 <= Since(last_talk)' /\ 0 <= Since(last_call)'
      BY <1>5, <2>1 DEF Ages
    <3>2. ASSUME alive', NEW i \in 1 .. Len(owed')
          PROVE  Total(now') <= owed'[i] + PeerDelay
                 /\ owed'[i] <= Total(last_tx')
      <4>1. alive /\ i \in 1 .. Len(owed)
        BY <1>2, <3>2
      <4>2. Total(now) < owed[i] + PeerDelay /\ owed[i] <= Total(last_tx)
        BY <2>1, <4>1 DEF Tick, Ages
      <4>3. owed[i] \in Nat
        BY <1>1, <4>1, ElementOfSeq DEF MoreTypes
      <4> QED BY <1>1, <1>2, <1>3, <4>2, <4>3
    <3>3. ASSUME NEW p \in Packets \ {"MESSAGE"}, Spoken(p)'
          PROVE  Since(last_tx)' <= PeerDelay + late'
      <4>1. Spoken(p)
        BY <1>2, <3>3 DEF Spoken
      <4>2. Reads
        BY <1>1, <4>1, Shape DEF Reads
      <4>3. Wanted
        BY <2>1, <4>2 DEF Wanted
      <4>4. Since(last_tx) <= PeerDelay + late
        BY <2>1, <4>1 DEF Ages
      <4> QED BY <1>1, <1>5, <4>3, <4>4
    <3> QED BY <3>1, <3>2, <3>3 DEF Ages
  <2>6. ASSUME ~Wanted
        PROVE  /\ Count > 0 => Since(last_io) < Waits
               /\ Connected /\ Idle => Since(last_io) < Idling
    <3>1. /\ Count \in Nat
          /\ Count > 0 <=> IF Connected THEN queued + oneway > 0 \/ ~Idle
                                        ELSE connecting # "half"
      BY <1>1, Shape
    <3>2. /\ Count > 0 => Since(last_io) < Waits
          /\ Count = 0 /\ Connected => Since(last_io) < Idling
      BY <1>1, <1>5, <2>1, <2>4, <2>6, ExpiredMeans
    <3>3. Connected /\ Idle => Count = 0
      BY <2>4, <2>6, <3>1
    <3> QED BY <3>2, <3>3
  <2>7. Silences'
    <3>1. CASE Wanted
      BY <1>1, <1>2, <1>5, <2>1, <2>2, <3>1 DEF Silences
    <3>2. CASE ~Wanted
      BY <1>1, <1>2, <1>5, <2>2, <2>6, <3>2 DEF Silences
    <3> QED BY <3>1, <3>2
  <2>8. Causes'
    <3>1. connecting = "queued" => Since(last_rx)' <= late'
      BY <1>1, <1>5, <2>1, <2>4 DEF Causes
    <3>2. connecting = "sent" => Since(last_rx)' <= Since(last_io)' + AppDelay
      BY <1>1, <1>5, <2>1 DEF Causes
    <3>3. Connected /\ queued + oneway > 0 => Since(last_call)' <= late'
      BY <1>1, <1>5, <2>1, <2>4 DEF Causes
    <3> DEFINE sent == IF pinging THEN Idling + AppDelay ELSE 0
    <3>4. sent \in Nat
      BY <1>1
    <3>5. ASSUME Connected
          PROVE  \/ Since(last_rx)' <= Since(last_io)' + sent
                 \/ Since(last_call)' <= Since(last_io)' + sent + AppDelay
      <4>1. \/ Since(last_rx) <= Since(last_io) + sent
            \/ Since(last_call) <= Since(last_io) + sent + AppDelay
        BY <2>1, <3>5 DEF Causes
      <4> HIDE DEF sent
      <4> QED BY <1>1, <1>5, <3>4, <4>1
    <3>6. ASSUME Connected
          PROVE  \/ Since(last_tx)' <= Since(last_io)' + PeerDelay + AppDelay
                 \/ Since(last_talk)' <= Since(last_io)'
      BY <1>1, <1>5, <2>1, <3>6 DEF Causes
    <3>7. sent' = sent
      BY <1>2
    <3> QED BY <1>2, <2>2, <3>1, <3>2, <3>3, <3>5, <3>6, <3>7 DEF Causes
  <2> QED BY <2>3, <2>5, <2>7, <2>8
<1> QED BY <1>4, <1>6 DEF Talking

LEMMA TalkStep == TalkInv /\ [Next]_vars => TalkInv'
<1> SUFFICES ASSUME TalkInv, [Next]_vars
             PROVE  TalkInv'
  OBVIOUS
<1>1. KeepAliveInv'
  BY KeepAliveStep DEF TalkInv
<1>2. MoreTypes' /\ Talking'
  <2>1. CASE Open
    BY <1>1, <2>1, OpenTalks
  <2>2. CASE Call
    BY <2>2, CallTalks
  <2>3. CASE TimeOut
    BY <2>3, TimeOutTalks
  <2>4. CASE RunOnce
    BY <2>4, RunOnceTalks
  <2>5. CASE Answer
    BY <2>5, AnswerTalks
  <2>6. CASE Talk
    BY <2>6, TalkTalks
  <2>7. CASE Die \/ UNCHANGED vars
    BY <2>7, StillTalks
  <2>8. CASE Tick
    BY <2>8, TickTalks
  <2> QED BY <2>1, <2>2, <2>3, <2>4, <2>5, <2>6, <2>7, <2>8 DEF Next
<1> QED BY <1>1, <1>2 DEF TalkInv

LEMMA AlwaysTalking == Spec => []TalkInv
BY TalkInit, TalkStep, PTL DEF Spec

(* While the client waits for a live peer, it is not long ago that it      *)
(* wrote.                                                                  *)
LEMMA WaitingIsShort ==
  ASSUME TalkInv, Running, alive, IF Connected THEN ~Idle
                                  ELSE connecting = "sent"
  PROVE  Since(last_tx) <= PeerDelay + late
<1>1. Conversation /\ Ages /\ MoreTypes
  BY DEF TalkInv, Talking
<1>2. /\ Since(last_tx) \in Int /\ late \in Nat /\ PeerDelay \in Nat
      /\ Answers \in Nat /\ Len(owed) \in Nat
      /\ Answers = 0 <=> ~Spoken("RESPONSE")
  BY Shape, Spans DEF TalkInv, Since
<1>3. CASE owed # <<>>
  <2>1. Since(last_tx) <= PeerDelay
    BY <1>3, OwedSoon
  <2> QED BY <1>2, <2>1
<1>4. CASE owed = <<>>
  <2>1. Len(owed) = 0
    BY <1>4
  <2>2. Spoken("RESPONSE") \/ Spoken("CONNACK_2")
    <3>1. CASE Connected
      <4>1. waiting + (IF pinging THEN 1 ELSE 0) = Answers
        BY <1>1, <1>2, <2>1, <3>1 DEF Conversation
      <4>2. waiting # 0 \/ pinging
        BY <3>1 DEF Idle
      <4>3. Answers # 0
        BY <1>1, <4>1, <4>2 DEF MoreTypes
      <4> QED BY <1>2, <4>3
    <3>2. CASE ~Connected
      BY <1>1, <1>4, <3>2 DEF Conversation
    <3> QED BY <3>1, <3>2
  <2> QED BY <1>1, <2>2 DEF Ages, Packets
<1> QED BY <1>3, <1>4

(* When a live peer is given up, for any keep_alive, Timeout and delays:   *)
(* either its answer and the application together took the whole Timeout,  *)
(* or nothing was awaited, and a new request met the last_touch of a       *)
(* silence that had not yet lasted until PINGREQ (client_keep_alive, which *)
(* counts main_store before it is encoded).                                *)
THEOREM LivePeerIsKept == Spec => LivePeerKept
<1> DEFINE Given == error' = "TIMEOUT" /\ Running /\ alive => SlowOrSudden
<1>1. TalkInv /\ [Next]_vars => [Given]_vars
  <2> SUFFICES ASSUME TalkInv, Next, error' = "TIMEOUT", Running, alive
               PROVE  SlowOrSudden
    OBVIOUS
  <2>1. TimeOut
    BY DEF Next, Open, Call, RunOnce, Answer, Talk, Die, Tick, client, Running
  <2>2. /\ Count > 0 /\ Expired
        /\ Conversation /\ Ages /\ Silences /\ Causes
        /\ connecting \in {"queued", "sent", "half", "done"}
    BY <2>1 DEF TimeOut, TalkInv, Talking, KeepAliveInv, KeepAliveType
  <2>3. /\ Since(last_io) \in Int /\ Since(last_tx) \in Int
        /\ Since(last_rx) \in Int /\ Since(last_call) \in Int
        /\ Idling \in Nat /\ late \in Nat /\ late <= AppDelay
        /\ PeerDelay \in Nat /\ AppDelay \in Nat
    BY Shape, Spans DEF TalkInv, MoreTypes, Since
  <2>4. Since(last_io) <= Since(last_tx) /\ Since(last_io) <= Since(last_rx)
    BY <2>2 DEF Ages
  <2>5. CASE IF Connected THEN ~Idle ELSE connecting = "sent"
    <3>1. Since(last_tx) <= PeerDelay + late
      BY <2>5, WaitingIsShort
    <3>2. Since(last_io) <= PeerDelay + AppDelay
      BY <2>3, <2>4, <3>1
    <3> QED BY <2>5, <3>2, Zenon DEF SlowOrSudden
  <2>6. CASE Connected /\ Idle
    <3>1. queued + oneway > 0
      BY <2>2, <2>6, Shape DEF TalkInv
    <3>2. Since(last_call) <= late
      BY <2>2, <2>6, <3>1 DEF Causes
    <3>3. Since(last_io) <= Idling + late
      BY <2>2, <2>6 DEF Silences
    <3>4. Since(last_call) <= AppDelay /\ Since(last_io) <= Idling + AppDelay
      BY <2>3, <3>2, <3>3
    <3> QED BY <2>6, <3>1, <3>4, Zenon DEF SlowOrSudden, Idling
  <2>7. CASE ~Connected /\ connecting # "sent"
    <3>1. connecting = "queued"
      BY <2>2, <2>7, Shape DEF TalkInv, Connected
    <3>2. Since(last_rx) <= late
      BY <2>2, <3>1 DEF Causes
    <3>3. Since(last_io) <= PeerDelay + AppDelay
      BY <2>3, <2>4, <3>2
    <3> QED BY <2>7, <3>3, Zenon DEF SlowOrSudden
  <2> QED BY <2>5, <2>6, <2>7
<1> QED
  BY <1>1, AlwaysTalking, PTL DEF Spec, LivePeerKept

(* A peer that has fallen silent is given up within keep_alive and Timeout *)
(* seconds, and as late as the application is: unless the application goes *)
(* on to call, or CONNACK has come in half.  No assumption on the delays.  *)
THEOREM SilenceNoticed == Spec => []SilenceIsNoticed
<1>1. TalkInv => SilenceIsNoticed
  <2> SUFFICES ASSUME TalkInv, Running, connecting # "half"
               PROVE  SilenceIsNoticed
    BY DEF SilenceIsNoticed
  <2>1. /\ Ages /\ Silences /\ Causes
        /\ connecting \in {"queued", "sent", "half", "done"}
    BY DEF TalkInv, Talking, KeepAliveInv, KeepAliveType
  <2>2. /\ Since(last_io) \in Int /\ Since(last_rx) \in Int
        /\ Since(last_call) \in Int /\ Idling \in Nat /\ Waits \in Nat
        /\ late \in Nat /\ late <= AppDelay /\ AppDelay \in Nat
    BY Shape, Spans DEF TalkInv, MoreTypes, Since
  <2>3. (KeepAlive + Timeout) * Second = Idling + Waits
    BY SecondAssumption, KeepAliveAssumption DEF Idling, Waits
  <2>4. Count > 0 <=> IF Connected THEN queued + oneway > 0 \/ ~Idle
                                   ELSE connecting # "half"
    BY Shape DEF TalkInv
  <2> DEFINE sent == IF pinging THEN Idling + AppDelay ELSE 0
  <2>5. \/ Since(last_rx) <= Idling + Waits + 2 * AppDelay
        \/ Since(last_call) <= Idling + Waits + 3 * AppDelay
    <3>1. CASE connecting = "queued"
      BY <2>1, <2>2, <3>1 DEF Causes
    <3>2. CASE connecting = "sent"
      <4>1. Since(last_io) <= Waits + late
        BY <2>1, <2>4, <3>2 DEF Silences, Connected
      <4>2. Since(last_rx) <= Since(last_io) + AppDelay
        BY <2>1, <3>2 DEF Causes
      <4> QED BY <2>2, <4>1, <4>2
    <3>3. CASE Connected
      <4>1. Since(last_io) + sent <= Idling + Waits + 2 * AppDelay
        <5>1. CASE pinging
          <6>1. Since(last_io) <= Waits + late
            BY <2>1, <2>4, <3>3, <5>1 DEF Silences, Idle
          <6> QED BY <2>2, <5>1, <6>1
        <5>2. CASE ~pinging
          <6>1. \/ Since(last_io) <= Waits + late
                \/ Since(last_io) <= Idling + late
            BY <2>1, <2>4, <3>3 DEF Silences
          <6> QED BY <2>2, <5>2, <6>1
        <5> QED BY <5>1, <5>2
      <4>2. \/ Since(last_rx) <= Since(last_io) + sent
            \/ Since(last_call) <= Since(last_io) + sent + AppDelay
        BY <2>1, <3>3 DEF Causes
      <4>3. sent \in Nat
        BY <2>2
      <4> HIDE DEF sent
      <4> QED BY <2>2, <4>1, <4>2, <4>3
    <3> QED BY <2>1, <3>1, <3>2, <3>3 DEF Connected
  <2> QED BY <2>3, <2>5 DEF SilenceIsNoticed
<1> QED BY <1>1, AlwaysTalking, PTL

(* A live broker hears of the client within keep_alive, as CONNECT has     *)
(* promised, and the delays, unless what it sent itself put PINGREQ off:   *)
(* for any keep_alive, Timeout and delays.                                 *)
THEOREM BrokerHears == Spec => []BrokerHearsClient
<1>1. TalkInv => BrokerHearsClient
  <2> SUFFICES ASSUME TalkInv, Running, Connected, alive
               PROVE  BrokerHearsClient
    BY DEF BrokerHearsClient
  <2>1. Silences /\ Causes
    BY DEF TalkInv, Talking
  <2>2. /\ Since(last_io) \in Int /\ Since(last_tx) \in Int
        /\ Since(last_talk) \in Int /\ Idling \in Nat
        /\ late \in Nat /\ late <= AppDelay
        /\ AppDelay \in Nat /\ PeerDelay \in Nat
    BY Shape, Spans DEF TalkInv, MoreTypes, Since
  <2>3. \/ Since(last_tx) <= Idling + PeerDelay + 2 * AppDelay
        \/ Since(last_talk) <= Idling + AppDelay
    <3>1. CASE ~Idle
      <4>1. Since(last_tx) <= PeerDelay + late
        BY <3>1, WaitingIsShort
      <4> QED BY <2>2, <4>1
    <3>2. CASE Idle
      <4>1. Since(last_io) <= Idling + late
        BY <2>1, <3>2 DEF Silences
      <4>2. \/ Since(last_tx) <= Since(last_io) + PeerDelay + AppDelay
            \/ Since(last_talk) <= Since(last_io)
        BY <2>1 DEF Causes
      <4> QED BY <2>2, <4>1, <4>2
    <3> QED BY <3>1, <3>2
  <2> QED BY <2>3 DEF BrokerHearsClient, Idling
<1> QED BY <1>1, AlwaysTalking, PTL
=============================================================================
