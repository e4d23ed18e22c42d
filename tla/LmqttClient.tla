---------------------------- MODULE LmqttClient ----------------------------
(***************************************************************************)
(* The client of lmqtt_client.c with the packet level of lmqtt_packet.c:   *)
(* the states initial / connecting / connected / failed, the two stores,   *)
(* the encoder and decoder at the granularity of packets, the callbacks.   *)
(*                                                                         *)
(* The peer and the network are not modelled here: any response may arrive *)
(* at any moment.  LmqttSession composes these actions with a broker.      *)
(*                                                                         *)
(* The application makes its requests in the order 1, 2, 3 ...: a request  *)
(* is the number of its call, and stands for the subscribe or publish      *)
(* structure that the call hands over until its callback is called.        *)
(***************************************************************************)
EXTENDS LmqttStore

CONSTANTS
  Capacity,          \* entries of main_store
  IdModulus,         \* packet ids are counted modulo this (2^16 in the code)
  IdSetCapacity,     \* ids of received QoS 2 messages that can be remembered
  TxCapacity,        \* packets that fit in write_buf
  NumRequests,       \* bound: requests accepted from the application
  InboundIds,        \* packet ids that the peer uses for its own messages
  CleanSessions,     \* the clean_session flags the application connects with
  SplitKinds,        \* requests whose response may arrive in two parts
  CallbacksMayFail   \* may the application's callbacks return 0?

ASSUME SizesAssumption ==
  /\ Capacity \in Nat \ {0}
  /\ IdModulus \in Nat \ {0}
  /\ IdSetCapacity \in Nat
  /\ TxCapacity \in Nat \ {0}
  /\ NumRequests \in Nat

ASSUME ChoicesAssumption ==
  /\ InboundIds \subseteq Nat
  /\ CleanSessions \subseteq BOOLEAN
  /\ SplitKinds \subseteq Kinds
  /\ CallbacksMayFail \in BOOLEAN

VARIABLES
  closed, error, clean_session,     \* fields of lmqtt_client_t
  connect_enabled,                  \* internal.connect is client_do_connect
  requests_enabled,                 \* the other internal functions are enabled
  current,                          \* which store current_store points to
  main_store, connect_store,
  next_packet_id,
  connect_clean,                    \* clean_session of the CONNECT under way
  rx_value,                         \* rx_state.internal.value
  id_set,                           \* rx_state.id_set
  tx_closed,                        \* tx_state.closed
  tx_value,                         \* the entry the encoder is half way into
  write_buf                         \* packets encoded and not yet written

(* History of the run, which no action reads: how many requests have been  *)
(* accepted, the "succeeded" arguments each one's callback was called with,*)
(* those whose last response arrived (or, at QoS 0, that were encoded) and *)
(* those whose PUBREC arrived.                                             *)
VARIABLES accepted, calls, acked, received

state   == <<closed, error, connect_enabled, requests_enabled>>
stores  == <<main_store, connect_store, next_packet_id>>
session == <<clean_session, connect_clean, id_set>>
txs     == <<tx_closed, tx_value, write_buf>>
history == <<accepted, calls, acked, received>>
vars    == <<state, stores, session, txs, history, current, rx_value>>

-----------------------------------------------------------------------------
Requests == 1 .. NumRequests
None     == 0
Ids      == 0 .. IdModulus - 1
Entries  == [kind: Kinds, id: Ids \cup InboundIds, val: Requests \cup {None}]
NoEntry  == [kind |-> "NONE", id |-> 0, val |-> None]
Errors   == {"NONE", "FAILED", "TIMEOUT", "CLOSED"}

RequestKinds == {"SUBSCRIBE", "UNSUBSCRIBE",
                 "PUBLISH_0", "PUBLISH_1", "PUBLISH_2"}

(* The request an entry carries, if it carries one.                        *)
RequestOf(e) == {e.val} \ {None}

Entry(kind, id, val) == [kind |-> kind, id |-> id, val |-> val]

RequestsIn_Marked(s) == {s.entries[i].val : i \in 1 .. s.pos} \ {None}
RequestsIn(s) == {s.entries[i].val : i \in 1 .. Count(s)} \ {None}

(* The callbacks of the requests rs are called with the argument succeeded.*)
Reported(c, rs, succeeded) ==
  [r \in Requests |-> IF r \in rs THEN Append(c[r], succeeded) ELSE c[r]]

Results == IF CallbacksMayFail THEN BOOLEAN ELSE {TRUE}

CurrentStore == IF current = "main" THEN main_store ELSE connect_store

UpdateCurrent(s) ==
  IF current = "main" THEN main_store' = s /\ UNCHANGED connect_store
                      ELSE connect_store' = s /\ UNCHANGED main_store

-----------------------------------------------------------------------------
(* The four states of the client (client_set_state_initial and so on).     *)

CleanupStores_ForgetsIds(keep_session, succeeded, store, c) ==
  /\ connect_store' = EmptyStore /\ id_set' = {}
  /\ main_store' = IF keep_session THEN store ELSE EmptyStore
  /\ calls' = IF keep_session
                THEN c ELSE Reported(c, RequestsIn(main_store), succeeded)
(* c is the history with what the caller has already reported.             *)
CleanupStores(keep_session, succeeded, store, c) ==
  /\ connect_store' = EmptyStore
  /\ IF keep_session
       THEN /\ main_store' = store
            /\ calls' = c
            /\ UNCHANGED id_set
       ELSE /\ main_store' = EmptyStore
            /\ calls' = Reported(c, RequestsIn(main_store), succeeded)
            /\ id_set' = {}

KeptStore_All == main_store
KeptStore_NoSubscribe ==
  DeleteKinds(main_store, {"PINGREQ", "DISCONNECT", "SUBSCRIBE"})
KeptStore == DeleteKinds(main_store, {"PINGREQ", "DISCONNECT"})

SetStateInitial_ClosedLast ==
  /\ error' = "NONE" /\ closed' = TRUE
  /\ current' = "connect"
  /\ CleanupStores(~clean_session, ~closed, KeptStore, calls)
  /\ tx_closed' = TRUE
  /\ connect_enabled' = TRUE /\ requests_enabled' = FALSE
SetStateInitial_Flushes ==
  /\ error' = "NONE" /\ closed' = TRUE
  /\ current' = "connect"
  /\ CleanupStores(clean_session, FALSE, KeptStore, calls)
  /\ tx_closed' = TRUE
  /\ connect_enabled' = TRUE /\ requests_enabled' = FALSE
SetStateInitial ==
  /\ error' = "NONE" /\ closed' = TRUE
  /\ current' = "connect"
  /\ CleanupStores(~clean_session, FALSE, KeptStore, calls)
  /\ tx_closed' = TRUE
  /\ connect_enabled' = TRUE /\ requests_enabled' = FALSE

SetStateConnecting ==
  /\ error' = "NONE" /\ closed' = FALSE
  /\ rx_value' = NoEntry
  /\ tx_closed' = FALSE /\ tx_value' = NoEntry
  /\ write_buf' = <<>>
  /\ connect_enabled' = FALSE /\ UNCHANGED requests_enabled

(* succeeded is !closed, and closed has just been cleared.                 *)
SetStateConnected(clean) ==
  /\ current' = "main"
  /\ CleanupStores(~clean, TRUE, UnmarkAll(KeptStore), calls)

SetStateFailed(e) ==
  /\ error' = e /\ closed' = TRUE
  /\ connect_enabled' = FALSE /\ requests_enabled' = FALSE

(* Requests, responses and the clock are handled while the connection is   *)
(* up.  Only the encoder stops at DISCONNECT: where the write of its last  *)
(* byte blocks, lmqtt_client_run_once returns, and is called again.        *)
Running  == ~closed
Encoding == Running /\ ~tx_closed

Init ==
  /\ closed = TRUE /\ error = "NONE" /\ clean_session = FALSE
  /\ connect_enabled = TRUE /\ requests_enabled = FALSE
  /\ current = "connect"
  /\ main_store = EmptyStore /\ connect_store = EmptyStore
  /\ next_packet_id = 0
  /\ connect_clean = FALSE
  /\ rx_value = NoEntry /\ id_set = {}
  /\ tx_closed = TRUE /\ tx_value = NoEntry /\ write_buf = <<>>
  /\ accepted = 0 /\ calls = [r \in Requests |-> <<>>]
  /\ acked = {} /\ received = {}

-----------------------------------------------------------------------------
(* The functions the application calls.                                    *)

Connect(clean) ==
  /\ connect_enabled
  /\ IsQueueable(connect_store, 1)
  /\ connect_store' = Appended(connect_store, Entry("CONNECT", 0, None))
  /\ connect_clean' = clean
  /\ SetStateConnecting
  /\ UNCHANGED <<clean_session, current, main_store, next_packet_id, id_set,
                 history>>

(* A QoS 0 message has no packet id; every other request takes one, even   *)
(* when the store then turns out to be full and the call fails.            *)
TakesId_OnlyQos1(kind) == kind \notin {"PUBLISH_0", "PUBLISH_2"}
TakesId(kind) == kind # "PUBLISH_0"

Request(kind) ==
  /\ requests_enabled
  /\ accepted < NumRequests
  /\ next_packet_id' = IF TakesId(kind) THEN (next_packet_id + 1) % IdModulus
                                        ELSE next_packet_id
  /\ IF IsQueueable(main_store, Capacity)
       THEN /\ accepted' = accepted + 1
            /\ main_store' =
                 Appended(main_store,
                          Entry(kind,
                                IF TakesId(kind) THEN next_packet_id ELSE 0,
                                accepted + 1))
       ELSE UNCHANGED <<accepted, main_store>>
  /\ UNCHANGED <<state, session, txs, current, rx_value, connect_store,
                 calls, acked, received>>

Disconnect ==
  /\ requests_enabled
  /\ IsQueueable(main_store, Capacity)
  /\ main_store' = Appended(main_store, Entry("DISCONNECT", 0, None))
  /\ UNCHANGED <<state, session, txs, history, current, rx_value,
                 connect_store, next_packet_id>>

Reset ==
  /\ closed /\ error # "CLOSED"
  /\ SetStateInitial
  /\ UNCHANGED <<clean_session, connect_clean, next_packet_id, rx_value,
                 tx_value, write_buf, accepted, acked, received>>

(* The callback of the response under way is called first, then the ones   *)
(* of the stores.  The application finalizes a client once.                *)
Finalize ==
  /\ error # "CLOSED"
  /\ SetStateFailed("CLOSED")
  /\ CleanupStores(FALSE, FALSE, main_store,
                   Reported(calls, RequestOf(rx_value), FALSE))
  /\ UNCHANGED <<clean_session, connect_clean, current, next_packet_id,
                 rx_value, txs, accepted, acked, received>>

-----------------------------------------------------------------------------
(* client_process_output: the encoder fills write_buf, write drains it.    *)

(* The encoder stops inside the current packet: write_buf is full, or a    *)
(* string of the packet blocks.  It will look the entry up again.          *)
EncodePart ==
  /\ Encoding
  /\ HasCurrent(CurrentStore)
  /\ tx_value = NoEntry
  /\ tx_value' = Current(CurrentStore)
  /\ UNCHANGED <<state, stores, session, history, current, rx_value,
                 tx_closed, write_buf>>

(* The last byte of the current packet is encoded.  A packet that is not   *)
(* answered leaves the store; a QoS 0 message is reported as successful.   *)
Encode ==
  /\ Encoding
  /\ HasCurrent(CurrentStore)
  /\ Len(write_buf) < TxCapacity
  /\ LET e == Current(CurrentStore) IN
       /\ write_buf' = Append(write_buf, e)
       /\ UpdateCurrent(IF ExpectsResponse(e.kind)
                          THEN MarkCurrent(CurrentStore)
                          ELSE DropCurrent(CurrentStore))
       /\ tx_closed' = (e.kind = "DISCONNECT")
       /\ tx_value' = NoEntry
       /\ IF e.kind = "PUBLISH_0"
            THEN /\ calls' = Reported(calls, RequestOf(e), TRUE)
                 /\ acked' = acked \cup RequestOf(e)
                 /\ \E ok \in Results :
                      IF ok THEN UNCHANGED state ELSE SetStateFailed("FAILED")
            ELSE UNCHANGED <<calls, acked, state>>
  /\ UNCHANGED <<session, next_packet_id, current, rx_value, accepted,
                 received>>

Write(p) ==
  /\ ~closed
  /\ write_buf # <<>>
  /\ p = Head(write_buf)
  /\ write_buf' = Tail(write_buf)
  /\ UNCHANGED <<state, stores, session, history, current, rx_value,
                 tx_closed, tx_value>>

(* The connection ends: read or write returns 0, or the encoder has        *)
(* nothing left after a DISCONNECT.  What write_buf holds is not written.  *)
Eof ==
  /\ ~closed
  /\ SetStateInitial
  /\ UNCHANGED <<clean_session, connect_clean, next_packet_id, rx_value,
                 tx_value, write_buf, accepted, acked, received>>

(* A read, a write, a string or a packet is in error.                      *)
Fail ==
  /\ ~closed
  /\ SetStateFailed("FAILED")
  /\ UNCHANGED <<stores, session, txs, history, current, rx_value>>

-----------------------------------------------------------------------------
(* client_process_input: packets from the peer.  kind is the kind of the   *)
(* request that the packet answers (CONNECT for CONNACK, PUBLISH_2 for     *)
(* PUBREC, PUBREL for PUBCOMP ...).                                        *)

Receiving == Running /\ rx_value = NoEntry

(* The callback of the finished response, and its result; when it fails    *)
(* the decoder keeps the value.                                            *)
CallBack(e) ==
  \E ok \in IF e.kind = "PINGREQ" THEN {TRUE} ELSE Results :
    /\ rx_value' = IF ok THEN NoEntry ELSE e
    /\ IF e.kind = "CONNECT" /\ ok
         THEN /\ closed' = FALSE /\ error' = "NONE"
              /\ requests_enabled' = TRUE /\ UNCHANGED connect_enabled
         ELSE IF ok THEN UNCHANGED state ELSE SetStateFailed("FAILED")

(* The message of a PUBREC becomes a PUBREL, with the same callback.       *)
PubrelFor_Publish(e) == e
PubrelFor(e) == Entry("PUBREL", e.id, e.val)

(* The packet that answers e is complete; s is the current store without e.*)
Finish(e, s) ==
  \/ /\ e.kind = "CONNECT"
     /\ clean_session' = connect_clean
     /\ SetStateConnected(connect_clean)
     /\ CallBack(e)
     /\ UNCHANGED <<acked, received>>
  \/ /\ e.kind = "PUBLISH_2"
     /\ UpdateCurrent(Appended(s, PubrelFor(e)))
     /\ rx_value' = NoEntry
     /\ received' = received \cup RequestOf(e)
     /\ UNCHANGED <<state, current, clean_session, id_set, calls, acked>>
  \/ /\ e.kind \notin {"CONNECT", "PUBLISH_2"}
     /\ UpdateCurrent(s)
     /\ CallBack(e)
     /\ calls' = Reported(calls, RequestOf(e), TRUE)
     /\ acked' = acked \cup RequestOf(e)
     /\ UNCHANGED <<current, clean_session, id_set, received>>

(* A whole response arrives and answers the first marked entry it fits.    *)
Respond(kind, id) ==
  /\ Receiving
  /\ Matching(CurrentStore, kind, id) # {}
  /\ Finish(CurrentStore.entries[Found(CurrentStore, kind, id)],
            PopMarkedBy(CurrentStore, kind, id))
  /\ UNCHANGED <<connect_clean, next_packet_id, txs, accepted>>

(* Only the beginning of the response has arrived: the entry has left the  *)
(* store, the callback has to wait for the rest.                           *)
BeginResponse(kind, id) ==
  /\ kind \in SplitKinds
  /\ Receiving
  /\ Matching(CurrentStore, kind, id) # {}
  /\ rx_value' = CurrentStore.entries[Found(CurrentStore, kind, id)]
  /\ UpdateCurrent(PopMarkedBy(CurrentStore, kind, id))
  /\ UNCHANGED <<state, session, txs, history, current, next_packet_id>>

(* CONNACK and SUBACK have bytes after the point where the entry is taken  *)
(* out; a longer packet of another type is an error (Fail).                *)
FinishResponse ==
  /\ Running
  /\ rx_value.kind \in {"CONNECT", "SUBSCRIBE"}
  /\ Finish(rx_value, CurrentStore)
  /\ UNCHANGED <<connect_clean, next_packet_id, txs, accepted>>

(* No marked entry fits the response: NO_CORRESPONDING_REQUEST.            *)
Unexpected(kind, id) ==
  /\ Receiving
  /\ Matching(CurrentStore, kind, id) = {}
  /\ Fail

CurrentCapacity_Same == Capacity
CurrentCapacity == IF current = "main" THEN Capacity ELSE 1

(* The store, when it is full, silently refuses an acknowledgement.        *)
Acknowledged(kind, id) ==
  IF IsQueueable(CurrentStore, CurrentCapacity)
    THEN Appended(CurrentStore, Entry(kind, id, None))
    ELSE CurrentStore

Duplicate(qos, id) == qos = 2 /\ id \in id_set
NoRoomFor(qos, id) ==
  qos = 2 /\ id \notin id_set /\ Cardinality(id_set) >= IdSetCapacity
Delivers(qos, id)  == ~Duplicate(qos, id) /\ ~NoRoomFor(qos, id)

Answered_OnlyNew(qos, id) ==
  IF qos = 0 \/ Duplicate(qos, id)
    THEN CurrentStore
    ELSE Acknowledged(IF qos = 1 THEN "PUBACK" ELSE "PUBREC", id)
Answered(qos, id) ==
  IF qos = 0
    THEN CurrentStore
    ELSE Acknowledged(IF qos = 1 THEN "PUBACK" ELSE "PUBREC", id)

(* A PUBLISH is acknowledged first; then its id is remembered and the      *)
(* message handed to the application.                                      *)
ReceivePublish(qos, id, ok) ==
  /\ Receiving
  /\ UpdateCurrent(Answered(qos, id))
  /\ \/ Duplicate(qos, id) /\ UNCHANGED <<state, id_set>>
     \/ NoRoomFor(qos, id) /\ SetStateFailed("FAILED") /\ UNCHANGED id_set
     \/ /\ Delivers(qos, id)
        /\ id_set' = IF qos = 2 THEN id_set \cup {id} ELSE id_set
        /\ IF ok THEN UNCHANGED state ELSE SetStateFailed("FAILED")
  /\ UNCHANGED <<clean_session, connect_clean, txs, history, current,
                 next_packet_id, rx_value>>

ReceivePubrel_KeepsId(id) ==
  /\ Receiving
  /\ UpdateCurrent(Acknowledged("PUBCOMP", id))
  /\ IF IsQueueable(CurrentStore, CurrentCapacity)
       THEN UNCHANGED state ELSE SetStateFailed("FAILED")
  /\ UNCHANGED <<session, txs, history, current, next_packet_id, rx_value>>
(* PUBREL is answered even when its id is not (or no longer) remembered.   *)
ReceivePubrel(id) ==
  /\ Receiving
  /\ id_set' = id_set \ {id}
  /\ UpdateCurrent(Acknowledged("PUBCOMP", id))
  /\ IF IsQueueable(CurrentStore, CurrentCapacity)
       THEN UNCHANGED state ELSE SetStateFailed("FAILED")
  /\ UNCHANGED <<clean_session, connect_clean, txs, history, current,
                 next_packet_id, rx_value>>

-----------------------------------------------------------------------------
(* client_keep_alive, when the time of the current store has run out.  The *)
(* connect store has no keep alive interval of its own.                    *)

Timeout ==
  /\ Running
  /\ Count(CurrentStore) > 0
  /\ SetStateFailed("TIMEOUT")
  /\ UNCHANGED <<stores, session, txs, history, current, rx_value>>

Pingreq ==
  /\ Running
  /\ current = "main"
  /\ Count(main_store) = 0
  /\ main_store' = Appended(main_store, Entry("PINGREQ", 0, None))
  /\ UNCHANGED <<state, session, txs, history, current, rx_value,
                 connect_store, next_packet_id>>

-----------------------------------------------------------------------------
ResponseKinds ==
  {"CONNECT", "SUBSCRIBE", "UNSUBSCRIBE", "PUBLISH_1", "PUBLISH_2",
   "PUBREL", "PINGREQ"}

Application ==
  \/ \E clean \in CleanSessions : Connect(clean)
  \/ \E kind \in RequestKinds : Request(kind)
  \/ Disconnect
  \/ Reset
  \/ Finalize

Output ==
  EncodePart \/ Encode \/ (write_buf # <<>> /\ Write(Head(write_buf)))

Input ==
  \/ \E kind \in ResponseKinds, id \in Ids :
       Respond(kind, id) \/ BeginResponse(kind, id) \/ Unexpected(kind, id)
  \/ FinishResponse
  \/ \E qos \in 0 .. 2, id \in InboundIds, ok \in Results :
       ReceivePublish(qos, id, ok)
  \/ \E id \in InboundIds : ReceivePubrel(id)

KeepAlive == Timeout \/ Pingreq

Next == Application \/ Output \/ Input \/ KeepAlive \/ Eof \/ Fail

Spec == Init /\ [][Next]_vars

-----------------------------------------------------------------------------
(* Properties.                                                             *)

IsStore(s, capacity) ==
  WellFormed(s, Entries) /\ Count(s) <= capacity

(* Every variable keeps its type, and no store exceeds its capacity or     *)
(* has its position beyond its end (lmqtt_store_append, store_pop_at).     *)
TypeOK ==
  /\ closed \in BOOLEAN /\ error \in Errors
  /\ connect_enabled \in BOOLEAN /\ requests_enabled \in BOOLEAN
  /\ clean_session \in BOOLEAN /\ connect_clean \in BOOLEAN
  /\ current \in {"connect", "main"}
  /\ IsStore(main_store, Capacity) /\ IsStore(connect_store, 1)
  /\ next_packet_id \in Ids
  /\ rx_value \in Entries \cup {NoEntry}
  /\ id_set \subseteq InboundIds
  /\ tx_closed \in BOOLEAN
  /\ tx_value \in Entries \cup {NoEntry}
  /\ write_buf \in Seq(Entries)
  /\ accepted \in 0 .. NumRequests
  /\ calls \in [Requests -> Seq(BOOLEAN)]
  /\ acked \subseteq Requests /\ received \subseteq Requests

(* Only packets that the peer answers are left marked in a store: any      *)
(* other would wait there for ever, take a place of it, and be sent again  *)
(* by the next connection (lmqtt_tx_buffer_encode, kind_expects_response). *)
MarkedExpectResponse ==
  \A kind \in MarkedKinds(main_store) \cup MarkedKinds(connect_store) :
    ExpectsResponse(kind)

(* CONNECT has a store of its own, and nothing else is ever in it: from    *)
(* client_do_connect to its CONNACK the store holds the one CONNECT, or    *)
(* the decoder does, and a new one is possible only when it is empty again *)
(* (client_set_current_store, client_do_connect_fail).                     *)
ConnectPhase ==
  /\ KindsIn(connect_store) \subseteq {"CONNECT"}
  /\ "CONNECT" \notin KindsIn(main_store)
  /\ connect_enabled =>
       closed /\ current = "connect" /\ Count(connect_store) = 0
  /\ requests_enabled => current = "main"
  /\ Running /\ current = "connect" =>
       Count(connect_store) = IF rx_value.kind = "CONNECT" THEN 0 ELSE 1
  /\ Running => IF current = "connect"
                  THEN rx_value.kind \in {"NONE", "CONNECT"}
                  ELSE rx_value.kind # "CONNECT"

(* lmqtt_tx_buffer_encode looks the current entry up again in every call,  *)
(* and goes on at the byte where the last call stopped: responses, flushes *)
(* and reconnections in between must leave it at the same entry.           *)
EncoderMatchesCurrent ==
  Running /\ tx_value # NoEntry =>
    HasCurrent(CurrentStore) /\ Current(CurrentStore) = tx_value

(* What still waits in main_store for the next connection never includes a *)
(* PINGREQ or DISCONNECT of the last one: the DISCONNECT would end the new *)
(* connection at once (client_cleanup_stores).                             *)
NoStaleControl ==
  current = "connect" =>
    KindsIn(main_store) \cap {"PINGREQ", "DISCONNECT"} = {}

Places(r) ==
  Cardinality({i \in 1 .. Count(main_store) : main_store.entries[i].val = r})
    + (IF rx_value.val = r THEN 1 ELSE 0)
Pending(r) == r <= accepted /\ calls[r] = <<>>

(* A request accepted by subscribe, unsubscribe or publish whose callback  *)
(* has not been called yet is in exactly one place from which it will be   *)
(* sent, answered or reported: nothing forgets it, nothing holds it twice  *)
(* (README: a reconnection preserves the session state).                   *)
PendingIsTracked == \A r \in Requests : Pending(r) => Places(r) = 1

(* After its callback the application may release or reuse a request's     *)
(* structure: the store keeps no pointer to it (lmqtt_store_value_t).      *)
NoDanglingRequest ==
  \A r \in Requests : calls[r] # <<>> => r \notin RequestsIn(main_store)

(* A callback says "succeeded" only when the peer's last response to the   *)
(* request has arrived, or a QoS 0 message was encoded (client_on_publish, *)
(* client_on_suback, client_on_unsuback: succeeded is !client->closed).    *)
SuccessOnlyIfAcked ==
  \A r \in Requests :
    (\E k \in 1 .. Len(calls[r]) : calls[r][k]) => r \in acked

(* No request's callback is called twice.                                  *)
CalledOnce == \A r \in Requests : Len(calls[r]) <= 1

(* lmqtt_client_finalize answers for everything that was accepted.         *)
FinalizeResolvesAll ==
  error = "CLOSED" => \A r \in 1 .. accepted : calls[r] # <<>>

(* While every connection asks to keep the session, no loss of connection, *)
(* error or reset makes a request fail: only lmqtt_client_finalize does.   *)
KeptSessionNeverFails ==
  \A r \in Requests :
    (\E k \in 1 .. Len(calls[r]) : ~calls[r][k]) => error = "CLOSED"

(* Messages are sent again in the order in which they were accepted, as    *)
(* entries leave from the middle of the store and the position is reset.   *)
ResentInOrder ==
  \A i, j \in 1 .. Count(main_store) :
    LET a == main_store.entries[i]  b == main_store.entries[j] IN
      i < j /\ {a.kind, b.kind} \subseteq RequestKinds => a.val < b.val

(* Once the PUBREC of a QoS 2 message has arrived, the message itself is   *)
(* not stored, hence not sent, again: PUBREL takes its place               *)
(* (rx_buffer_finish_packet).                                              *)
NoRepublishAfterPubrec ==
  \A i \in 1 .. Count(main_store) :
    main_store.entries[i].kind = "PUBLISH_2" =>
      main_store.entries[i].val \notin received

LostOnlyByConnect ==
  \A r \in Requests :
    Pending(r) /\ Places(r) = 1 /\ Pending(r)' =>
      \/ Places(r)' = 1
      \/ rx_value.val = r /\ \E clean \in CleanSessions : Connect(clean)

(* Nothing but a reconnection loses a request, and only the one whose      *)
(* response was half decoded (client_set_state_connecting).                *)
OnlyReconnectLosesRequest == [][LostOnlyByConnect]_vars

CalledAgainOnlyByFinalize ==
  \A r \in Requests :
    calls[r] # <<>> /\ calls'[r] # calls[r] =>
      rx_value.val = r /\ error' = "CLOSED"

(* A request that has been reported is reported again only by finalize,    *)
(* and only when its callback has returned 0, which leaves the value in    *)
(* the decoder (rx_buffer_finish_packet, lmqtt_client_finalize).           *)
OnlyFinalizeCallsAgain == [][CalledAgainOnlyByFinalize]_vars
=============================================================================
