--------------------------- MODULE LmqttKeepAlive ---------------------------
(***************************************************************************)
(* The client's clock: when it sends PINGREQ and when it gives up a        *)
(* connection.  lmqtt_client_run_once first compares the time with the     *)
(* last I/O on the current store, then writes what is queued and reads     *)
(* what has arrived; here one call of it takes no time.                    *)
(*                                                                         *)
(* The application calls it when select returns: when there is something   *)
(* to read, when it has made a request, and when the time that             *)
(* lmqtt_client_get_timeout gave has passed; it may be late.               *)
(***************************************************************************)
EXTENDS LmqttTime, Sequences, FiniteSets, Functions

CONSTANTS
  Timeout, KeepAlive,   \* seconds, as the application configures them
  PeerDelay,            \* the longest time until a live peer's answer
  AppDelay,             \* how late the application calls run_once at most
  MaxTime,              \* bound: seconds that the clock runs
  MaxCalls              \* bound: requests that the application makes

ASSUME KeepAliveAssumption ==
  /\ Timeout \in Nat \ {0} /\ KeepAlive \in Nat \ {0}
  /\ PeerDelay \in Nat /\ AppDelay \in Nat
  /\ MaxTime \in Nat /\ MaxCalls \in Nat

VARIABLES
  now,           \* the clock
  error,         \* client->error: "NONE" or "TIMEOUT"
  connecting,    \* the CONNECT: "queued", "sent", "half" answered, "done"
  queued,        \* requests in main_store that are not encoded
  oneway,        \* QoS 0 messages in main_store
  waiting,       \* requests in main_store that are marked
  pinging,       \* a PINGREQ in main_store is marked
  last_touch,    \* of each store
  inbox,         \* what run_once would read
  owed,          \* when the peer received what it has not answered yet
  alive,         \* the peer answers
  late,          \* for how long the application should have called run_once
  last_io, last_rx, last_talk, last_tx, last_call,  \* history
  calls          \* requests made so far

client  == <<error, connecting, queued, oneway, waiting, pinging, last_touch>>
peer    == <<owed, alive>>
history == <<last_io, last_rx, last_talk, last_tx, last_call>>
vars    == <<now, client, inbox, peer, late, history, calls>>

Packets == {"CONNACK_1", "CONNACK_2", "RESPONSE", "MESSAGE"}

Connected == connecting = "done"
Running == error = "NONE"

CurrentStore == IF Connected THEN "main" ELSE "connect"
Count ==
  IF Connected THEN queued + oneway + waiting + (IF pinging THEN 1 ELSE 0)
  ELSE IF connecting = "half" THEN 0 ELSE 1

(* keep_alive is set when CONNACK has come; that of connect_store never.   *)
When_Unset == IF Count > 0 THEN Timeout ELSE 0
When ==
  IF Count > 0 THEN Timeout ELSE IF Connected THEN KeepAlive ELSE 0

(* lmqtt_store_get_timeout: there is a time to wait for, and it is up.     *)
Timed == When # 0 /\ last_touch[CurrentStore] # Zero
Expired ==
  Timed /\ TimeoutTo(last_touch[CurrentStore], When, now) = Zero

(* lmqtt_store_touch.                                                      *)
Touched(touches, s) == [touches EXCEPT ![s] = now]

Init ==
  /\ now = [secs |-> 1, nsecs |-> 0]
  /\ error = "NONE" /\ connecting = "queued"
  /\ queued = 0 /\ oneway = 0 /\ waiting = 0 /\ pinging = FALSE
  /\ last_touch = [s \in {"connect", "main"} |->
                     IF s = "connect" THEN now ELSE Zero]
  /\ inbox = <<>> /\ owed = <<>> /\ alive = TRUE /\ late = 0
  /\ last_io = now /\ last_rx = now /\ last_talk = now
  /\ last_tx = now /\ last_call = now /\ calls = 0

-----------------------------------------------------------------------------
(* The application.                                                        *)

(* lmqtt_client_reset and lmqtt_client_connect on a new connection.  What  *)
(* main_store has kept is encoded again, PINGREQ is not.                   *)
Open ==
  /\ ~Running
  /\ error' = "NONE" /\ connecting' = "queued" /\ pinging' = FALSE
  /\ queued' = queued + waiting /\ waiting' = 0
  /\ last_touch' = Touched(last_touch, "connect")
  /\ inbox' = <<>> /\ owed' = <<>> /\ alive' = TRUE /\ late' = 0
  /\ last_io' = now /\ last_rx' = now /\ last_talk' = now
  /\ last_tx' = now /\ last_call' = now
  /\ UNCHANGED <<now, oneway, calls>>

(* A request that the peer answers, or a QoS 0 message.                    *)
Call ==
  /\ Running /\ Connected /\ calls < MaxCalls
  /\ calls' = calls + 1 /\ last_call' = now
  /\ \/ queued' = queued + 1 /\ UNCHANGED oneway
     \/ oneway' = oneway + 1 /\ UNCHANGED queued
  /\ UNCHANGED <<now, error, connecting, waiting, pinging, last_touch>>
  /\ UNCHANGED <<inbox, peer, late, last_io, last_rx, last_talk, last_tx>>

(* run_once, when client_keep_alive gives up before anything is read.      *)
TimeOut ==
  /\ Running /\ Expired /\ Count > 0
  /\ error' = "TIMEOUT"
  /\ UNCHANGED <<now, connecting, queued, oneway, waiting, pinging>>
  /\ UNCHANGED <<last_touch, inbox, peer, late, history, calls>>

(* What is written: CONNECT; the PINGREQ that client_keep_alive has just   *)
(* added; and what is queued in main_store, also if it is CONNACK that has *)
(* made it current, since the loop then goes round once more.              *)
Asked(phase) ==
  (IF connecting = "queued" THEN 1 ELSE 0) + (IF Expired THEN 1 ELSE 0)
    + (IF phase = "done" THEN queued ELSE 0)
Writes(phase) == Asked(phase) > 0 \/ (phase = "done" /\ oneway > 0)
Reads == inbox # <<>>

(* The store that is current when the input has been processed is touched, *)
(* which is main_store if CONNACK was in it.                               *)
InputStore_Before(phase) == CurrentStore
InputStore(phase) == IF phase = "done" THEN "main" ELSE "connect"

Answers == Cardinality({i \in 1 .. Len(inbox) : inbox[i] = "RESPONSE"})
PhaseAfter ==
  IF "CONNACK_2" \in Range(inbox) THEN "done"
  ELSE IF "CONNACK_1" \in Range(inbox) THEN "half"
  ELSE IF connecting = "queued" THEN "sent" ELSE connecting

(* run_once, when it writes and reads.  Answers come in order, that to     *)
(* PINGREQ first, since it is sent only when there is nothing to wait for. *)
RunOnce ==
  /\ Running /\ ~(Expired /\ Count > 0)
  /\ connecting' = PhaseAfter
  /\ LET done == connecting' = "done"
         ping == pinging \/ Expired
         answers == Answers - (IF ping /\ Answers > 0 THEN 1 ELSE 0)
     IN /\ pinging' = (ping /\ Answers = 0)
        /\ queued' = IF done THEN 0 ELSE queued
        /\ oneway' = IF done THEN 0 ELSE oneway
        /\ waiting' = waiting + (IF done THEN queued ELSE 0) - answers
  /\ last_touch' =
       LET If(done, s, touches) == IF done THEN Touched(touches, s)
                                   ELSE touches
       IN If(Connected' /\ ~Connected /\ Writes("done"), "main",
             If(Reads, InputStore(connecting'),
                If(Writes(connecting), CurrentStore, last_touch)))
  /\ owed' = owed \o [i \in 1 .. Asked(connecting') |-> Total(now)]
  /\ inbox' = <<>> /\ late' = 0
  /\ last_io' = IF Writes(connecting') \/ Reads THEN now ELSE last_io
  /\ last_rx' = IF Reads THEN now ELSE last_rx
  /\ last_tx' = IF Writes(connecting') THEN now ELSE last_tx
  /\ last_talk' = IF "MESSAGE" \in Range(inbox) THEN now ELSE last_talk
  /\ UNCHANGED <<now, error, alive, last_call, calls>>

-----------------------------------------------------------------------------
(* The peer.                                                               *)

(* It answers what it has got, CONNECT in two parts that may be far apart. *)
Answer ==
  /\ Running /\ alive /\ owed # <<>>
  /\ IF ~Connected /\ connecting # "half" /\ inbox = <<>>
       THEN inbox' = <<"CONNACK_1">> /\ UNCHANGED owed
       ELSE /\ inbox' = Append(inbox, IF Connected THEN "RESPONSE"
                                      ELSE "CONNACK_2")
            /\ owed' = Tail(owed)
  /\ UNCHANGED <<now, client, alive, late, history, calls>>

(* A message for the application, which asks for no acknowledgement.       *)
Talk ==
  /\ Running /\ alive /\ Connected
  /\ "MESSAGE" \notin Range(inbox)
  /\ inbox' = Append(inbox, "MESSAGE")
  /\ UNCHANGED <<now, client, peer, late, history, calls>>

(* From now on the peer is silent, and nobody closes the connection.       *)
Die ==
  /\ Running /\ alive /\ alive' = FALSE
  /\ UNCHANGED <<now, client, inbox, owed, late, history, calls>>

-----------------------------------------------------------------------------
(* Time passes, unless a live peer is due to answer, or the application to *)
(* call run_once.                                                          *)
Wanted == Running /\ (Reads \/ Writes(connecting) \/ Expired)

Tick ==
  /\ now.secs < MaxTime
  /\ Running /\ alive =>
       \A i \in 1 .. Len(owed) : Total(now) < owed[i] + PeerDelay
  /\ Wanted => late < AppDelay
  /\ late' = IF Wanted THEN late + 1 ELSE 0
  /\ now' = Later(now)
  /\ UNCHANGED <<client, inbox, peer, history, calls>>

Next ==
  \/ Open \/ Call \/ TimeOut \/ RunOnce
  \/ Answer \/ Talk \/ Die
  \/ Tick

Spec == Init /\ [][Next]_vars

-----------------------------------------------------------------------------
(* Properties.                                                             *)

Since(t) == Total(now) - Total(t)

(* LMQTT_ERROR_TIMEOUT is reported only when nothing has been written or   *)
(* read for Timeout seconds (client_keep_alive, and the store that         *)
(* client_buffer_transfer touches).                                        *)
TimeoutMeansSilence ==
  [][error' = "TIMEOUT" /\ error # "TIMEOUT" =>
       Since(last_io) >= Timeout * Second]_vars

(* A live peer is given up in two cases only.  It or the application was   *)
(* slow: the answer, or CONNECT, took the whole Timeout.  Or the end comes *)
(* suddenly: nothing is awaited, and the application has just made a       *)
(* request, which client_keep_alive counts before it is encoded, after a   *)
(* silence that PINGREQ allows.                                            *)
Idle == waiting = 0 /\ ~pinging
SlowOrSudden ==
  IF Connected /\ Idle
    THEN /\ queued + oneway > 0
         /\ Since(last_call) <= AppDelay
         /\ Since(last_io) <= KeepAlive * Second + AppDelay
    ELSE Since(last_io) <= PeerDelay + AppDelay

(* LMQTT_ERROR_TIMEOUT strikes a live peer in these cases only: never, as  *)
(* it takes Timeout (TimeoutMeansSilence), if that exceeds both KeepAlive  *)
(* and PeerDelay by more than AppDelay.  The code compares them nowhere.   *)
LivePeerKept ==
  [][error' = "TIMEOUT" /\ Running /\ alive => SlowOrSudden]_vars

(* A silent peer is noticed: first by PINGREQ, then by the timeout, unless *)
(* the application goes on to call, or CONNACK is half read, when the      *)
(* store is empty and has no keep_alive (lmqtt_store_get_timeout).         *)
SilenceIsNoticed ==
  Running /\ connecting # "half" =>
    \/ Since(last_rx) <= (KeepAlive + Timeout) * Second + 2 * AppDelay
    \/ Since(last_call) <= (KeepAlive + Timeout) * Second + 3 * AppDelay

(* The broker hears of the client within KeepAlive, as CONNECT promised,   *)
(* and the time an answer takes, unless it has itself sent something: any  *)
(* input postpones PINGREQ.                                                *)
BrokerHearsClient ==
  Running /\ Connected =>
    \/ Since(last_tx) <= KeepAlive * Second + PeerDelay + 2 * AppDelay
    \/ Since(last_talk) <= KeepAlive * Second + AppDelay
    \/ ~alive
=============================================================================
