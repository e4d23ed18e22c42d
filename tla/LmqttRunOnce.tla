---------------------------- MODULE LmqttRunOnce ----------------------------
(***************************************************************************)
(* One connection as lmqtt_client_run_once drives it: bytes that go from   *)
(* the encoder through write_buf to the socket, and from the socket        *)
(* through read_buf to the decoder, until neither side of a transfer can   *)
(* go on; and the application, which asks select to wait for what the      *)
(* result of the call names, and for nothing else.                         *)
(*                                                                         *)
(* The peer, and the files behind the strings of messages, act between any *)
(* two turns of a transfer.                                                *)
(***************************************************************************)
EXTENDS Integers, Sequences, FiniteSetsExt

CONSTANTS
  RdCapacity, WrCapacity,   \* of read_buf and write_buf
  SocketRoom,               \* bytes the socket takes before it blocks
  MaxCalls, MaxMessages     \* bounds: packets queued by the application,
                            \* and sent by the peer

ASSUME RunOnceAssumption ==
  /\ RdCapacity \in Nat \ {0} /\ WrCapacity \in Nat \ {0}
  /\ SocketRoom \in Nat \ {0}
  /\ MaxCalls \in Nat /\ MaxMessages \in Nat

(* A byte of a packet: "h" goes from or to memory, "s" from or to a string *)
(* with callbacks, "a" ends a message that is to be acknowledged, and "d"  *)
(* is the last byte of DISCONNECT.                                         *)
OutPackets == {<<"h">>, <<"h", "s", "s">>, <<"h", "d">>}
InPackets  == {<<"h", "h">>, <<"h", "s", "s", "s">>, <<"h", "a">>}

VARIABLES
  state,        \* of the client: "up", "initial" or "failed"
  pc,           \* "app", or the transfer that runs: "output" or "input"
  transfer,     \* the two sides, each [available, result]
  queue,        \* bytes of the entries that are not encoded
  tx_closed,    \* DISCONNECT is encoded
  write_buf,    \* how many bytes are in it
  read_buf,
  tx_blocked, rx_blocked,   \* blocking_str of encoder and decoder
  had_current,  \* has_cur_before
  flags,        \* the result of run_once
  called,       \* the application has queued a packet since run_once
  sock_in,      \* bytes that have arrived
  rest,         \* bytes of the message that the peer is sending
  conn,         \* as the peer sees it: "open", "closed" or "reset"
  room,         \* bytes that the socket takes now
  source, sink, \* bytes the strings' callbacks give and take now
  calls, messages

run  == <<pc, transfer, had_current>>
tx   == <<queue, tx_closed, write_buf, tx_blocked>>
rx   == <<read_buf, rx_blocked>>
app  == <<called, calls>>
env  == <<sock_in, rest, conn, room, source, sink, messages>>
vars == <<state, flags, run, tx, rx, app, env>>

(* transfer_initialize                                                     *)
Fresh == [s \in {"in", "out"} |-> [available |-> TRUE, result |-> "NONE"]]

Init ==
  /\ state = "up" /\ pc = "app" /\ transfer = Fresh
  /\ queue = <<"h">> /\ tx_closed = FALSE /\ write_buf = 0   \* CONNECT
  /\ read_buf = <<>> /\ tx_blocked = FALSE /\ rx_blocked = FALSE
  /\ had_current = FALSE /\ flags = {} /\ called = TRUE
  /\ sock_in = <<>> /\ rest = <<>> /\ conn = "open" /\ room = SocketRoom
  /\ source = 0 /\ sink = 0 /\ calls = 0 /\ messages = 0

Drop(s, n) == SubSeq(s, n + 1, Len(s))
Strings(s) == Cardinality({i \in 1 .. Len(s) : s[i] = "s"})
Acks(s) == Cardinality({i \in 1 .. Len(s) : s[i] = "a"})

(* How many bytes go through when there is room for so many, the strings   *)
(* move so many, and nothing is encoded after DISCONNECT.                  *)
Moved(bytes, limit, strings) ==
  Max({n \in 0 .. Min({Len(bytes), limit}) :
         LET moved == SubSeq(bytes, 1, n) IN
           /\ Strings(moved) <= strings
           /\ \A i \in 1 .. n - 1 : bytes[i] # "d"})

-----------------------------------------------------------------------------
(* The application.                                                        *)

Ask ==
  /\ pc = "app" /\ state = "up" /\ calls < MaxCalls
  /\ \E p \in OutPackets : queue' = queue \o p
  /\ called' = TRUE /\ calls' = calls + 1
  /\ UNCHANGED <<state, flags, run, tx_closed, write_buf, tx_blocked, rx, env>>

(* select returns, or there is no need for it.                             *)
Ready ==
  \/ called
  \/ "CONN_RD" \in flags /\ (sock_in # <<>> \/ conn # "open")
  \/ "CONN_WR" \in flags /\ (room > 0 \/ conn = "reset")
  \/ "DATA_RD" \in flags /\ source > 0
  \/ "DATA_WR" \in flags /\ sink > 0

RunOnce ==
  /\ pc = "app" /\ state = "up" /\ Ready
  /\ pc' = "output" /\ transfer' = Fresh
  /\ flags' = {} /\ called' = FALSE
  /\ UNCHANGED <<state, had_current, tx, rx, calls, env>>

-----------------------------------------------------------------------------
(* The transfers.  One step is one turn of the loop in                     *)
(* client_buffer_transfer, the input and then the output: what the world   *)
(* does between the two calls, it may as well do before or after both.     *)

Eof == \E s \in {"in", "out"} : transfer[s].result = "EOF"

Looping_InputOnly == transfer["in"].available
Looping_UntilEof ==
  ~Eof /\ \E s \in {"in", "out"} : transfer[s].available
Looping == transfer["in"].available \/ transfer["out"].available

(* transfer_exec: a side is over once it has found no room for moving, or  *)
(* its function has not moved anything.                                    *)
CanMove(side, room_left) == transfer[side].available /\ room_left
After(moves, side, result) ==
  IF moves THEN [available |-> result = "MOVED", result |-> result]
  ELSE [transfer[side] EXCEPT !.available = FALSE]

(* The result of lmqtt_tx_buffer_encode after n bytes.  A string that has  *)
(* given some and then none is asked again by the next call.               *)
EncodeResult(n) ==
  CASE tx_closed -> "EOF"
    [] ~tx_closed /\ n < Len(queue) /\ n < WrCapacity - write_buf
         /\ queue[n + 1] = "s" /\ (n = 0 \/ queue[n] # "s") -> "WOULD_BLOCK"
    [] ~tx_closed /\ queue = <<>> -> "WOULD_BLOCK"
    [] OTHER -> "MOVED"

(* client_process_output: encode into write_buf, write from it.            *)
Output ==
  /\ pc = "output" /\ Looping
  /\ LET encodes == CanMove("in", write_buf < WrCapacity)
         n == IF ~encodes \/ tx_closed THEN 0
              ELSE Moved(queue, WrCapacity - write_buf, source)
         result == EncodeResult(n)
         writes == CanMove("out", write_buf + n > 0)
         w == IF writes /\ conn # "reset" THEN Min({write_buf + n, room})
              ELSE 0
     IN /\ queue' = Drop(queue, n)
        /\ source' = source - Strings(SubSeq(queue, 1, n))
        /\ tx_closed' = (tx_closed \/ (n > 0 /\ queue[n] = "d"))
        /\ tx_blocked' =
             IF encodes THEN result = "WOULD_BLOCK" /\ queue' # <<>>
             ELSE tx_blocked
        /\ write_buf' = write_buf + n - w /\ room' = room - w
        /\ transfer' = [in |-> After(encodes, "in", result),
                        out |-> After(writes, "out",
                                  IF w > 0 THEN "MOVED" ELSE "WOULD_BLOCK")]
        /\ state' = IF writes /\ conn = "reset" THEN "failed" ELSE state
  /\ UNCHANGED <<pc, had_current, flags, rx, app>>
  /\ UNCHANGED <<sock_in, rest, conn, sink, messages>>

(* client_process_input: read into read_buf, decode from it.  The decoder  *)
(* forgets a string that blocks after other bytes have been decoded, and   *)
(* queues acknowledgements.                                                *)
Input ==
  /\ pc = "input" /\ Looping
  /\ LET reads == CanMove("in", Len(read_buf) < RdCapacity)
         broken == reads /\ conn = "reset"
         n == IF ~reads \/ broken THEN 0
              ELSE Min({RdCapacity - Len(read_buf), Len(sock_in)})
         filled == read_buf \o SubSeq(sock_in, 1, n)
         decodes == ~broken /\ CanMove("out", filled # <<>>)
         d == IF decodes THEN Moved(filled, RdCapacity, sink) ELSE 0
         decoded == SubSeq(filled, 1, d)
     IN /\ sock_in' = Drop(sock_in, n)
        /\ read_buf' = Drop(filled, d)
        /\ rx_blocked' = IF decodes THEN d = 0 ELSE rx_blocked
        /\ sink' = sink - Strings(decoded)
        /\ queue' = queue \o [i \in 1 .. Acks(decoded) |-> "h"]
        /\ transfer' = [in |-> After(reads, "in",
                                 IF n > 0 THEN "MOVED"
                                 ELSE IF conn = "open" THEN "WOULD_BLOCK"
                                 ELSE "EOF"),
                        out |-> After(decodes, "out",
                                  IF d > 0 THEN "MOVED" ELSE "WOULD_BLOCK")]
        /\ state' = IF broken THEN "failed" ELSE state
  /\ UNCHANGED <<pc, had_current, flags, tx_closed, write_buf, tx_blocked>>
  /\ UNCHANGED <<app, rest, conn, room, source, messages>>

(* The end of client_buffer_transfer, where it has not failed: end of      *)
(* file, or the status of the side that has nothing to do.                 *)
Ended(process) ==
  state = "up" /\ pc = process /\ ~Looping

NothingIn_FullToo(buffered) == transfer["in"].result = "WOULD_BLOCK"
NothingIn(buffered) ==
  transfer["in"].result = "WOULD_BLOCK" /\ ~buffered

(* client_set_state_initial                                                *)
EndConnection ==
  /\ Ended("output") \/ Ended("input")
  /\ Eof
  /\ state' = "initial" /\ pc' = "app"
  /\ UNCHANGED <<flags, transfer, had_current, tx, rx, app, env>>

EndOutput ==
  /\ Ended("output") /\ ~Eof
  /\ flags' = flags \cup
       (IF ~NothingIn(write_buf > 0) THEN {"CONN_WR"}
        ELSE IF tx_blocked THEN {"DATA_RD"} ELSE {})
  /\ had_current' = (queue # <<>>)
  /\ pc' = "input" /\ transfer' = Fresh
  /\ UNCHANGED <<state, tx, rx, app, env>>

(* run_once goes round again for what the input has queued.                *)
Again_Never == FALSE
Again == "CONN_WR" \notin flags /\ ~had_current /\ queue # <<>>

EndInput ==
  /\ Ended("input") /\ ~Eof
  /\ IF Again THEN pc' = "output" /\ transfer' = Fresh /\ flags' = {}
     ELSE /\ pc' = "app" /\ UNCHANGED transfer
          /\ flags' = flags \cup
               (IF NothingIn(read_buf # <<>>) THEN {"CONN_RD"}
                ELSE IF rx_blocked THEN {"DATA_WR"} ELSE {})
  /\ UNCHANGED <<state, had_current, tx, rx, app, env>>

-----------------------------------------------------------------------------
(* The peer, and the files that strings read from and write to.            *)

Arrives ==
  /\ conn = "open" /\ Len(sock_in) < RdCapacity + 1
  /\ \/ /\ rest # <<>>
        /\ sock_in' = Append(sock_in, Head(rest)) /\ rest' = Tail(rest)
        /\ UNCHANGED messages
     \/ /\ rest = <<>> /\ messages < MaxMessages
        /\ messages' = messages + 1
        /\ \E p \in InPackets :
             sock_in' = Append(sock_in, Head(p)) /\ rest' = Tail(p)
  /\ UNCHANGED <<conn, room, source, sink>>

Leaves ==
  /\ conn = "open" /\ conn' \in {"closed", "reset"}
  /\ UNCHANGED <<sock_in, rest, room, source, sink, messages>>

Drains ==
  /\ room < SocketRoom /\ conn = "open" /\ room' = SocketRoom
  /\ UNCHANGED <<sock_in, rest, conn, source, sink, messages>>

Gives ==
  /\ source = 0 /\ source' = 1
  /\ UNCHANGED <<sock_in, rest, conn, room, sink, messages>>

Takes ==
  /\ sink = 0 /\ sink' = 1
  /\ UNCHANGED <<sock_in, rest, conn, room, source, messages>>

Environment ==
  /\ state = "up"
  /\ Arrives \/ Leaves \/ Drains \/ Gives \/ Takes
  /\ UNCHANGED <<state, flags, run, tx, rx, app>>

Client ==
  \/ RunOnce
  \/ state = "up" /\ (Output \/ Input)
  \/ EndConnection \/ EndOutput \/ EndInput

Next == Ask \/ Client \/ Environment

(* The loop calls run_once when select returns, run_once does not stop in  *)
(* the middle, the peer goes on to read, and files are ready in the end.   *)
Fairness ==
  /\ WF_vars(Client)
  /\ WF_vars(Environment /\ Drains)
  /\ WF_vars(Environment /\ Gives) /\ WF_vars(Environment /\ Takes)

Spec == Init /\ [][Next]_vars /\ Fairness

-----------------------------------------------------------------------------
(* Properties.                                                             *)

(* select is running.                                                      *)
Waiting == pc = "app" /\ state = "up" /\ ~called

(* The call came with a full read_buf, so the read side was over before it *)
(* began, and the decoder has emptied the buffer: the result does not say  *)
(* that the client wants to read (client_buffer_transfer returns the       *)
(* status of the decoder, which has no string that blocks).                *)
Deaf ==
  transfer["in"].result = "NONE" /\ read_buf = <<>>

(* While select runs, the client is waiting to read, or for a string that  *)
(* takes no more bytes; with one exception.                                *)
NoDeafSelect ==
  Waiting => \/ "CONN_RD" \in flags
             \/ "DATA_WR" \in flags /\ read_buf # <<>>
             \/ Deaf

(* While select runs, what is queued or buffered waits for the socket to   *)
(* take bytes or for a string that gives none, an acknowledgement as well  *)
(* that the input has queued (the loop of lmqtt_client_run_once).          *)
NoMuteSelect ==
  Waiting /\ (queue # <<>> \/ write_buf > 0) =>
    \/ "CONN_WR" \in flags
    \/ "DATA_RD" \in flags /\ write_buf = 0

(* A connection that ends leaves bytes in a buffer only if the side that   *)
(* they were for had no room: what DISCONNECT follows is written as far as *)
(* the socket takes it, what the peer sent before it closed is decoded.    *)
NothingDroppedAtEof ==
  [][state' = "initial" /\ state = "up" =>
       \/ transfer["out"].result = "WOULD_BLOCK"
       \/ pc = "output" /\ write_buf = 0
       \/ pc = "input" /\ read_buf = <<>>]_vars

(* Everything that is queued is written, unless the connection ends.       *)
AllWritten ==
  (queue # <<>> \/ write_buf > 0) ~>
    \/ queue = <<>> /\ write_buf = 0
    \/ state # "up" \/ conn # "open"

(* Everything that has arrived is decoded, unless the connection ends, or  *)
(* the client does not listen (Deaf).                                      *)
AllDecoded ==
  (sock_in # <<>> \/ read_buf # <<>>) ~>
    \/ sock_in = <<>> /\ read_buf = <<>>
    \/ state # "up"
    \/ Waiting /\ Deaf
=============================================================================
