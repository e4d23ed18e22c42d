------------------------- MODULE LmqttClientProofs -------------------------
(***************************************************************************)
(* Invariants of the client, for every size of its stores and buffers,     *)
(* every number of requests and every choice of what the peer, the network *)
(* and the callbacks may do.                                               *)
(***************************************************************************)
EXTENDS LmqttClient, LmqttStoreTheorems

LEMMA SizeFacts ==
  /\ Capacity \in Nat /\ Capacity >= 1
  /\ IdModulus \in Nat /\ IdModulus >= 1
  /\ NumRequests \in Nat
  /\ InboundIds \subseteq Nat /\ CleanSessions \subseteq BOOLEAN
  /\ 0 \in Ids
BY SizesAssumption, ChoicesAssumption DEF Ids

LEMMA EntryType ==
  ASSUME NEW kind \in Kinds, NEW id \in Ids \cup InboundIds,
         NEW val \in Requests \cup {None}
  PROVE  Entry(kind, id, val) \in Entries
BY DEF Entry, Entries

LEMMA ReportedType ==
  ASSUME NEW c \in [Requests -> Seq(BOOLEAN)], NEW rs, NEW b \in BOOLEAN
  PROVE  Reported(c, rs, b) \in [Requests -> Seq(BOOLEAN)]
<1>1. \A r \in Requests :
        c[r] \in Seq(BOOLEAN) /\ Append(c[r], b) \in Seq(BOOLEAN)
  OBVIOUS
<1> QED BY <1>1, Zenon DEF Reported

LEMMA EmptyStoreType ==
  ASSUME NEW capacity \in Nat
  PROVE  IsStore(EmptyStore, capacity) /\ Count(EmptyStore) = 0
BY EmptySeq DEF IsStore, WellFormed, EmptyStore, Count

(* A store with room takes one more entry.                                 *)
LEMMA AppendedType ==
  ASSUME NEW capacity \in Nat, NEW s, IsStore(s, capacity),
         IsQueueable(s, capacity), NEW e \in Entries
  PROVE  IsStore(Appended(s, e), capacity)
BY AppendedLemma, LenProperties DEF IsStore, IsQueueable, WellFormed, Count

(* Taking out the entry that a response answers makes room for another.    *)
LEMMA PopMarkedByType ==
  ASSUME NEW capacity \in Nat, NEW s, IsStore(s, capacity),
         NEW kind, NEW id, Matching(s, kind, id) # {}
  PROVE  /\ s.entries[Found(s, kind, id)] \in Entries
         /\ s.entries[Found(s, kind, id)].kind = kind
         /\ IsStore(PopMarkedBy(s, kind, id), capacity)
         /\ IsQueueable(PopMarkedBy(s, kind, id), capacity)
<1>1. WellFormed(s, Entries) /\ Count(s) <= capacity /\ Count(s) \in Nat
  BY LenProperties DEF IsStore, WellFormed, Count
<1>2. /\ Found(s, kind, id) \in 1 .. Count(s)
      /\ s.entries[Found(s, kind, id)] \in Entries
      /\ s.entries[Found(s, kind, id)].kind = kind
  BY <1>1, FoundLemma
<1>3. /\ WellFormed(PopMarkedBy(s, kind, id), Entries)
      /\ Count(PopMarkedBy(s, kind, id)) = Count(s) - 1
  BY <1>1, <1>2, PopAtLemma DEF PopMarkedBy
<1> QED BY <1>1, <1>2, <1>3 DEF IsStore, IsQueueable

LEMMA EncodedType ==
  ASSUME NEW capacity \in Nat, NEW s, IsStore(s, capacity), HasCurrent(s)
  PROVE  /\ Current(s) \in Entries
         /\ IsStore(MarkCurrent(s), capacity)
         /\ IsStore(DropCurrent(s), capacity)
<1>1. /\ WellFormed(s, Entries) /\ Count(s) <= capacity /\ Count(s) \in Nat
      /\ s.pos \in Nat /\ s.pos + 1 \in 1 .. Count(s)
  BY LenProperties DEF IsStore, WellFormed, Count, HasCurrent
<1>2. /\ WellFormed(MarkCurrent(s), Entries) /\ Current(s) \in Entries
      /\ MarkCurrent(s).entries = s.entries
  BY <1>1, MarkCurrentLemma
<1>3. /\ WellFormed(DropCurrent(s), Entries)
      /\ Count(DropCurrent(s)) = Count(s) - 1
  BY <1>1, PopAtLemma DEF DropCurrent
<1> QED BY <1>1, <1>2, <1>3 DEF IsStore, Count

LEMMA KeptType ==
  ASSUME NEW capacity \in Nat, IsStore(main_store, capacity)
  PROVE  /\ IsStore(KeptStore, capacity)
         /\ IsStore(UnmarkAll(KeptStore), capacity)
<1>1. WellFormed(main_store, Entries) /\ Count(main_store) <= capacity
  BY DEF IsStore
<1>2. /\ WellFormed(KeptStore, Entries)
      /\ Count(KeptStore) <= Count(main_store)
  BY <1>1, DeleteKindsLemma DEF KeptStore
<1>3. Count(KeptStore) \in Nat /\ Count(main_store) \in Nat
  BY <1>1, <1>2, LenProperties DEF WellFormed, Count
<1>4. /\ WellFormed(UnmarkAll(KeptStore), Entries)
      /\ Count(UnmarkAll(KeptStore)) = Count(KeptStore)
  BY <1>2, <1>3 DEF WellFormed, UnmarkAll, Count
<1> QED BY <1>1, <1>2, <1>3, <1>4 DEF IsStore

-----------------------------------------------------------------------------
(* Type correctness.                                                       *)

LEMMA InitType == Init => TypeOK
<1> SUFFICES ASSUME Init PROVE TypeOK
  OBVIOUS
<1>1. IsStore(main_store, Capacity) /\ IsStore(connect_store, 1)
  BY SizeFacts, EmptyStoreType DEF Init
<1>2. calls \in [Requests -> Seq(BOOLEAN)]
  <2>1. <<>> \in Seq(BOOLEAN)
    BY EmptySeq
  <2> QED BY <2>1 DEF Init
<1>3. write_buf \in Seq(Entries)
  BY EmptySeq DEF Init
<1>4. accepted \in 0 .. NumRequests /\ next_packet_id \in Ids
  BY SizeFacts DEF Init
<1> QED BY <1>1, <1>2, <1>3, <1>4 DEF Init, TypeOK, Errors

LEMMA CurrentType ==
  ASSUME TypeOK
  PROVE  /\ CurrentCapacity \in Nat
         /\ IsStore(CurrentStore, CurrentCapacity)
BY SizeFacts DEF TypeOK, CurrentCapacity, CurrentStore

LEMMA UpdateType ==
  ASSUME TypeOK, NEW s, IsStore(s, CurrentCapacity), UpdateCurrent(s)
  PROVE  IsStore(main_store', Capacity) /\ IsStore(connect_store', 1)
BY DEF TypeOK, CurrentCapacity, UpdateCurrent

LEMMA CleanupType ==
  ASSUME TypeOK, NEW keep \in BOOLEAN, NEW b \in BOOLEAN, NEW s, NEW c,
         IsStore(s, Capacity), c \in [Requests -> Seq(BOOLEAN)],
         CleanupStores(keep, b, s, c)
  PROVE  /\ IsStore(main_store', Capacity) /\ IsStore(connect_store', 1)
         /\ calls' \in [Requests -> Seq(BOOLEAN)]
         /\ id_set' \subseteq InboundIds
<1>1. IsStore(EmptyStore, Capacity) /\ IsStore(EmptyStore, 1)
  BY SizeFacts, EmptyStoreType
<1>2. Reported(c, RequestsIn(main_store), b) \in [Requests -> Seq(BOOLEAN)]
  BY ReportedType
<1> QED BY <1>1, <1>2 DEF CleanupStores, TypeOK

LEMMA InitialType ==
  ASSUME TypeOK, SetStateInitial
  PROVE  /\ IsStore(main_store', Capacity) /\ IsStore(connect_store', 1)
         /\ calls' \in [Requests -> Seq(BOOLEAN)]
         /\ id_set' \subseteq InboundIds
         /\ closed' \in BOOLEAN /\ error' \in Errors
         /\ connect_enabled' \in BOOLEAN /\ requests_enabled' \in BOOLEAN
         /\ current' \in {"connect", "main"} /\ tx_closed' \in BOOLEAN
<1>1. IsStore(KeptStore, Capacity)
  BY SizeFacts, KeptType DEF TypeOK
<1>2. (~clean_session) \in BOOLEAN /\ calls \in [Requests -> Seq(BOOLEAN)]
  BY DEF TypeOK
<1>3. CleanupStores(~clean_session, FALSE, KeptStore, calls)
  BY DEF SetStateInitial
<1>4. /\ IsStore(main_store', Capacity) /\ IsStore(connect_store', 1)
      /\ calls' \in [Requests -> Seq(BOOLEAN)]
      /\ id_set' \subseteq InboundIds
  BY <1>1, <1>2, <1>3, CleanupType
<1> QED BY <1>4 DEF SetStateInitial, Errors

(* A finished response: e is the entry it answers, s the current store     *)
(* without e.                                                              *)
LEMMA FinishType ==
  ASSUME TypeOK, NEW e \in Entries, NEW s, IsStore(s, CurrentCapacity),
         e.kind = "PUBLISH_2" => IsQueueable(s, CurrentCapacity),
         Finish(e, s)
  PROVE  /\ IsStore(main_store', Capacity) /\ IsStore(connect_store', 1)
         /\ calls' \in [Requests -> Seq(BOOLEAN)]
         /\ id_set' \subseteq InboundIds
         /\ closed' \in BOOLEAN /\ error' \in Errors
         /\ connect_enabled' \in BOOLEAN /\ requests_enabled' \in BOOLEAN
         /\ current' \in {"connect", "main"} /\ clean_session' \in BOOLEAN
         /\ rx_value' \in Entries \cup {NoEntry}
         /\ acked' \subseteq Requests /\ received' \subseteq Requests
<1>1. RequestOf(e) \subseteq Requests
  BY DEF RequestOf, Entries
<1>2. ASSUME CallBack(e)
      PROVE  /\ rx_value' \in Entries \cup {NoEntry}
             /\ closed' \in BOOLEAN /\ error' \in Errors
             /\ connect_enabled' \in BOOLEAN /\ requests_enabled' \in BOOLEAN
  BY <1>2 DEF CallBack, SetStateFailed, state, TypeOK, Errors
<1>3. CASE e.kind = "CONNECT"
  <2>1. /\ clean_session' = connect_clean /\ SetStateConnected(connect_clean)
        /\ CallBack(e) /\ acked' = acked /\ received' = received
    BY <1>3 DEF Finish
  <2>2. IsStore(UnmarkAll(KeptStore), Capacity)
    BY SizeFacts, KeptType DEF TypeOK
  <2>3. /\ IsStore(main_store', Capacity) /\ IsStore(connect_store', 1)
        /\ calls' \in [Requests -> Seq(BOOLEAN)]
        /\ id_set' \subseteq InboundIds
    <3>1. (~connect_clean) \in BOOLEAN /\ calls \in [Requests -> Seq(BOOLEAN)]
      BY DEF TypeOK
    <3>2. CleanupStores(~connect_clean, TRUE, UnmarkAll(KeptStore), calls)
      BY <2>1 DEF SetStateConnected
    <3> QED BY <2>2, <3>1, <3>2, CleanupType
  <2> QED BY <1>2, <2>1, <2>3 DEF SetStateConnected, TypeOK
<1>4. CASE e.kind = "PUBLISH_2"
  <2>1. /\ UpdateCurrent(Appended(s, PubrelFor(e))) /\ rx_value' = NoEntry
        /\ received' = received \cup RequestOf(e)
        /\ UNCHANGED <<state, current, clean_session, id_set, calls, acked>>
    BY <1>4 DEF Finish
  <2>2. PubrelFor(e) \in Entries
    BY DEF PubrelFor, Entry, Entries, Kinds
  <2>3. IsStore(Appended(s, PubrelFor(e)), CurrentCapacity)
    BY <1>4, <2>2, CurrentType, AppendedType
  <2>4. IsStore(main_store', Capacity) /\ IsStore(connect_store', 1)
    BY <2>1, <2>3, UpdateType
  <2> QED BY <1>1, <2>1, <2>4 DEF TypeOK, state
<1>5. CASE e.kind \notin {"CONNECT", "PUBLISH_2"}
  <2>1. /\ UpdateCurrent(s) /\ CallBack(e)
        /\ calls' = Reported(calls, RequestOf(e), TRUE)
        /\ acked' = acked \cup RequestOf(e)
        /\ UNCHANGED <<current, clean_session, id_set, received>>
    BY <1>5 DEF Finish
  <2>2. IsStore(main_store', Capacity) /\ IsStore(connect_store', 1)
    BY <2>1, UpdateType
  <2>3. calls' \in [Requests -> Seq(BOOLEAN)]
    BY <2>1, ReportedType DEF TypeOK
  <2> QED BY <1>1, <1>2, <2>1, <2>2, <2>3 DEF TypeOK
<1> QED BY <1>3, <1>4, <1>5

LEMMA NextType ==
  ASSUME TypeOK, [Next]_vars
  PROVE  TypeOK'
<1> USE DEF state, stores, session, txs, history
<1>0. CASE UNCHANGED vars
  BY <1>0 DEF vars, TypeOK, IsStore, WellFormed, Count
<1>1. ASSUME NEW clean \in CleanSessions, Connect(clean) PROVE TypeOK'
  <2>1. IsStore(connect_store', 1)
    <3>1. Entry("CONNECT", 0, None) \in Entries
      BY SizeFacts, EntryType DEF Kinds
    <3> QED BY <1>1, <3>1, AppendedType DEF Connect, TypeOK
  <2>2. clean \in BOOLEAN /\ <<>> \in Seq(Entries)
    BY SizeFacts, EmptySeq
  <2> QED BY <1>1, <2>1, <2>2 DEF Connect, SetStateConnecting, TypeOK, Errors
<1>2. ASSUME NEW kind \in RequestKinds, Request(kind) PROVE TypeOK'
  <2>1. next_packet_id' \in Ids
    BY <1>2, SizeFacts DEF Request, TypeOK, Ids
  <2>2. CASE IsQueueable(main_store, Capacity)
    <3>1. accepted + 1 \in Requests /\ accepted' \in 0 .. NumRequests
      BY <1>2, <2>2, SizeFacts DEF Request, TypeOK, Requests
    <3>2. Entry(kind, IF TakesId(kind) THEN next_packet_id ELSE 0,
                accepted + 1) \in Entries
      BY <3>1, SizeFacts, EntryType DEF TypeOK, RequestKinds, Kinds
    <3>3. IsStore(main_store', Capacity)
      BY <1>2, <2>2, <3>2, SizeFacts, AppendedType DEF Request, TypeOK
    <3> QED BY <1>2, <2>1, <2>2, <3>1, <3>3 DEF Request, TypeOK
  <2>3. CASE ~IsQueueable(main_store, Capacity)
    BY <1>2, <2>1, <2>3 DEF Request, TypeOK
  <2> QED BY <2>2, <2>3
<1>3. CASE Disconnect
  <2>1. Entry("DISCONNECT", 0, None) \in Entries
    BY SizeFacts, EntryType DEF Kinds
  <2>2. IsStore(main_store', Capacity)
    BY <1>3, <2>1, SizeFacts, AppendedType DEF Disconnect, TypeOK
  <2> QED BY <1>3, <2>2 DEF Disconnect, TypeOK
<1>4. CASE Reset
  BY <1>4, InitialType DEF Reset, TypeOK
<1>5. CASE Finalize
  <2>1. Reported(calls, RequestOf(rx_value), FALSE)
          \in [Requests -> Seq(BOOLEAN)]
    BY ReportedType DEF TypeOK
  <2>2. /\ IsStore(main_store', Capacity) /\ IsStore(connect_store', 1)
        /\ calls' \in [Requests -> Seq(BOOLEAN)]
        /\ id_set' \subseteq InboundIds
    <3>1. CleanupStores(FALSE, FALSE, main_store,
                        Reported(calls, RequestOf(rx_value), FALSE))
      BY <1>5 DEF Finalize
    <3>2. IsStore(main_store, Capacity)
      BY DEF TypeOK
    <3> QED BY <2>1, <3>1, <3>2, CleanupType
  <2> QED BY <1>5, <2>2 DEF Finalize, SetStateFailed, TypeOK, Errors
<1>6. CASE EncodePart
  <2>1. Current(CurrentStore) \in Entries
    BY <1>6, CurrentType, EncodedType DEF EncodePart
  <2> QED BY <1>6, <2>1 DEF EncodePart, TypeOK
<1>7. CASE Encode
  <2> DEFINE e == Current(CurrentStore)
             s == IF ExpectsResponse(e.kind) THEN MarkCurrent(CurrentStore)
                                             ELSE DropCurrent(CurrentStore)
  <2>1. e \in Entries /\ IsStore(s, CurrentCapacity)
    BY <1>7, CurrentType, EncodedType DEF Encode
  <2>2. /\ write_buf' = Append(write_buf, e) /\ UpdateCurrent(s)
        /\ tx_closed' = (e.kind = "DISCONNECT") /\ tx_value' = NoEntry
    BY <1>7 DEF Encode
  <2>3. /\ calls' \in [Requests -> Seq(BOOLEAN)] /\ acked' \subseteq Requests
        /\ closed' \in BOOLEAN /\ error' \in Errors
        /\ connect_enabled' \in BOOLEAN /\ requests_enabled' \in BOOLEAN
    <3>1. Reported(calls, RequestOf(e), TRUE) \in [Requests -> Seq(BOOLEAN)]
      BY ReportedType DEF TypeOK
    <3>2. RequestOf(e) \subseteq Requests
      BY <2>1 DEF RequestOf, Entries
    <3> QED BY <1>7, <3>1, <3>2 DEF Encode, SetStateFailed, TypeOK, Errors
  <2> HIDE DEF e, s
  <2>4. IsStore(main_store', Capacity) /\ IsStore(connect_store', 1)
    BY <2>1, <2>2, UpdateType
  <2>5. write_buf' \in Seq(Entries)
    BY <2>1, <2>2 DEF TypeOK
  <2>6. tx_closed' \in BOOLEAN /\ tx_value' \in Entries \cup {NoEntry}
    BY <2>2
  <2> QED BY <1>7, <2>3, <2>4, <2>5, <2>6 DEF Encode, TypeOK
<1>8. CASE write_buf # <<>> /\ Write(Head(write_buf))
  <2>1. write_buf' \in Seq(Entries)
    BY <1>8, HeadTailProperties DEF Write, TypeOK
  <2> QED BY <1>8, <2>1 DEF Write, TypeOK
<1>9. ASSUME NEW kind \in ResponseKinds, NEW id \in Ids, Respond(kind, id)
      PROVE  TypeOK'
  <2> DEFINE e == CurrentStore.entries[Found(CurrentStore, kind, id)]
             s == PopMarkedBy(CurrentStore, kind, id)
  <2>1. /\ e \in Entries /\ IsStore(s, CurrentCapacity)
        /\ IsQueueable(s, CurrentCapacity)
    BY <1>9, CurrentType, PopMarkedByType DEF Respond
  <2>2. Finish(e, s)
    BY <1>9 DEF Respond
  <2> HIDE DEF e, s
  <2> QED BY <1>9, <2>1, <2>2, FinishType DEF Respond, TypeOK
<1>10. ASSUME NEW kind \in ResponseKinds, NEW id \in Ids,
              BeginResponse(kind, id)
       PROVE  TypeOK'
  <2> DEFINE e == CurrentStore.entries[Found(CurrentStore, kind, id)]
             s == PopMarkedBy(CurrentStore, kind, id)
  <2>1. e \in Entries /\ IsStore(s, CurrentCapacity)
    BY <1>10, CurrentType, PopMarkedByType DEF BeginResponse
  <2>2. rx_value' = e /\ UpdateCurrent(s)
    BY <1>10 DEF BeginResponse
  <2> HIDE DEF e, s
  <2>3. IsStore(main_store', Capacity) /\ IsStore(connect_store', 1)
    BY <2>1, <2>2, UpdateType
  <2> QED BY <1>10, <2>1, <2>2, <2>3 DEF BeginResponse, TypeOK
<1>11. ASSUME NEW kind \in ResponseKinds, NEW id \in Ids, Unexpected(kind, id)
       PROVE  TypeOK'
  BY <1>11 DEF Unexpected, Fail, SetStateFailed, TypeOK, Errors
<1>12. CASE FinishResponse
  <2>1. /\ rx_value \in Entries /\ rx_value.kind # "PUBLISH_2"
        /\ Finish(rx_value, CurrentStore)
    BY <1>12 DEF FinishResponse, TypeOK, NoEntry
  <2> QED BY <1>12, <2>1, CurrentType, FinishType DEF FinishResponse, TypeOK
<1>13. ASSUME NEW kind \in {"PUBACK", "PUBREC", "PUBCOMP"},
              NEW id \in InboundIds
       PROVE  IsStore(Acknowledged(kind, id), CurrentCapacity)
  <2>1. Entry(kind, id, None) \in Entries
    BY EntryType DEF Kinds
  <2> QED BY <2>1, CurrentType, AppendedType DEF Acknowledged
<1>14. ASSUME NEW qos \in 0 .. 2, NEW id \in InboundIds, NEW ok \in Results,
              ReceivePublish(qos, id, ok)
       PROVE  TypeOK'
  <2>1. IsStore(main_store', Capacity) /\ IsStore(connect_store', 1)
    <3>1. IsStore(Answered(qos, id), CurrentCapacity)
      BY <1>13, CurrentType DEF Answered
    <3> QED BY <1>14, <3>1, UpdateType DEF ReceivePublish
  <2>2. /\ closed' \in BOOLEAN /\ error' \in Errors
        /\ connect_enabled' \in BOOLEAN /\ requests_enabled' \in BOOLEAN
        /\ id_set' \subseteq InboundIds
    BY <1>14 DEF ReceivePublish, SetStateFailed, TypeOK, Errors
  <2> QED BY <1>14, <2>1, <2>2 DEF ReceivePublish, TypeOK
<1>15. ASSUME NEW id \in InboundIds, ReceivePubrel(id) PROVE TypeOK'
  <2>1. IsStore(main_store', Capacity) /\ IsStore(connect_store', 1)
    BY <1>13, <1>15, UpdateType DEF ReceivePubrel
  <2> QED BY <1>15, <2>1 DEF ReceivePubrel, SetStateFailed, TypeOK, Errors
<1>16. CASE Timeout
  BY <1>16 DEF Timeout, SetStateFailed, TypeOK, Errors
<1>17. CASE Pingreq
  <2>1. Entry("PINGREQ", 0, None) \in Entries
    BY SizeFacts, EntryType DEF Kinds
  <2>2. IsQueueable(main_store, Capacity)
    BY <1>17, SizeFacts DEF Pingreq, IsQueueable
  <2>3. IsStore(main_store', Capacity)
    BY <1>17, <2>1, <2>2, SizeFacts, AppendedType DEF Pingreq, TypeOK
  <2> QED BY <1>17, <2>3 DEF Pingreq, TypeOK
<1>18. CASE Eof
  BY <1>18, InitialType DEF Eof, TypeOK
<1>19. CASE Fail
  BY <1>19 DEF Fail, SetStateFailed, TypeOK, Errors
<1> QED BY <1>0, <1>1, <1>2, <1>3, <1>4, <1>5, <1>6, <1>7, <1>8, <1>9, <1>10,
           <1>11, <1>12, <1>14, <1>15, <1>16, <1>17, <1>18, <1>19
        DEF Next, Application, Output, Input, KeepAlive

(* The types are invariant; in particular no store ever holds more entries *)
(* than it has room for, nor has its position beyond its last entry.       *)
THEOREM TypeCorrect == Spec => []TypeOK
BY InitType, NextType, PTL DEF Spec

-----------------------------------------------------------------------------
(* The inductive invariant behind the safety theorems below.  None of its  *)
(* conjuncts is inductive alone: that the encoder is at the current entry  *)
(* survives the switch to main_store only because the connect store held   *)
(* just the CONNECT, which a CONNACK finds marked; and that the connect    *)
(* store holds just the CONNECT needs a PUBLISH received meanwhile to find *)
(* it full.                                                                *)
SafeInv ==
  /\ TypeOK /\ ConnectPhase /\ MarkedExpectResponse
  /\ EncoderMatchesCurrent /\ NoStaleControl

ControlKinds == {"PINGREQ", "DISCONNECT"}

MainOK(s) ==
  /\ "CONNECT" \notin KindsIn(s)
  /\ \A kind \in MarkedKinds(s) : ExpectsResponse(kind)
ConnectOK(s) == KindsIn(s) \subseteq {"CONNECT"}
CurrentOK(s) == IF current = "main" THEN MainOK(s) ELSE ConnectOK(s)

(* The conjuncts about what the two stores contain.                        *)
Shapes ==
  ConnectOK(connect_store) /\ MainOK(main_store) /\ NoStaleControl

LEMMA MarkedSubset ==
  ASSUME NEW capacity \in Nat, NEW s, IsStore(s, capacity)
  PROVE  MarkedKinds(s) \subseteq KindsIn(s)
<1>1. s.pos \in Nat /\ Count(s) \in Nat /\ s.pos <= Count(s)
  BY LenProperties DEF IsStore, WellFormed, Count
<1> QED BY <1>1 DEF MarkedKinds, KindsIn

LEMMA SafeShapes ==
  ASSUME SafeInv
  PROVE  /\ Shapes /\ CurrentOK(CurrentStore) /\ TypeOK
         /\ IsStore(main_store, Capacity) /\ WellFormed(main_store, Entries)
         /\ IsStore(CurrentStore, CurrentCapacity)
         /\ WellFormed(CurrentStore, Entries)
         /\ Count(CurrentStore) \in Nat /\ CurrentStore.pos \in Nat
         /\ CurrentStore.pos <= Count(CurrentStore)
<1>1. TypeOK /\ IsStore(CurrentStore, CurrentCapacity)
  BY CurrentType DEF SafeInv
<1>2. /\ Count(CurrentStore) \in Nat /\ CurrentStore.pos \in Nat
      /\ CurrentStore.pos <= Count(CurrentStore)
  BY <1>1, LenProperties DEF IsStore, WellFormed, Count
<1>3. Shapes
  BY DEF SafeInv, Shapes, ConnectPhase, MarkedExpectResponse, MainOK,
         ConnectOK
<1>4. CurrentOK(CurrentStore)
  BY <1>3 DEF Shapes, CurrentOK, CurrentStore
<1> QED BY <1>1, <1>2, <1>3, <1>4 DEF TypeOK, IsStore

(* The current store has been replaced by s.                               *)
LEMMA UpdateShapes ==
  ASSUME SafeInv, NEW s, CurrentOK(s), UpdateCurrent(s), current' = current
  PROVE  Shapes' /\ CurrentStore' = s
<1>1. Shapes
  BY SafeShapes
<1>2. current = "main" \/ current = "connect"
  BY DEF SafeInv, TypeOK
<1>3. CASE current = "main"
  BY <1>1, <1>3
     DEF Shapes, CurrentOK, UpdateCurrent, NoStaleControl, CurrentStore
<1>4. CASE current = "connect"
  BY <1>1, <1>4
     DEF Shapes, CurrentOK, UpdateCurrent, NoStaleControl, CurrentStore
<1> QED BY <1>2, <1>3, <1>4

LEMMA KeptShapes ==
  ASSUME SafeInv
  PROVE  /\ MainOK(KeptStore) /\ MainOK(UnmarkAll(KeptStore))
         /\ KindsIn(KeptStore) \cap ControlKinds = {}
         /\ KindsIn(UnmarkAll(KeptStore)) \cap ControlKinds = {}
<1>1. WellFormed(main_store, Entries) /\ MainOK(main_store)
  BY SafeShapes DEF Shapes
<1>2. /\ KindsIn(KeptStore) \subseteq KindsIn(main_store) \ ControlKinds
      /\ MarkedKinds(KeptStore) \subseteq MarkedKinds(main_store)
  BY <1>1, DeleteKindsKinds DEF KeptStore, ControlKinds
<1>3. WellFormed(KeptStore, Entries)
  BY <1>1, DeleteKindsLemma DEF KeptStore
<1>4. /\ KindsIn(UnmarkAll(KeptStore)) = KindsIn(KeptStore)
      /\ MarkedKinds(UnmarkAll(KeptStore)) = {}
  BY <1>3, UnmarkAllKinds
<1> QED BY <1>1, <1>2, <1>4 DEF MainOK

LEMMA CleanupShapes ==
  ASSUME NEW keep, NEW b, NEW s, NEW c, CleanupStores(keep, b, s, c),
         MainOK(s)
  PROVE  /\ ConnectOK(connect_store') /\ MainOK(main_store')
         /\ Count(connect_store') = 0
         /\ KindsIn(s) \cap ControlKinds = {} =>
              KindsIn(main_store') \cap ControlKinds = {}
<1>1. /\ ConnectOK(EmptyStore) /\ MainOK(EmptyStore)
      /\ KindsIn(EmptyStore) = {} /\ Count(EmptyStore) = 0
  BY EmptyStoreKinds DEF ConnectOK, MainOK, EmptyStore, Count
<1> QED BY <1>1 DEF CleanupStores

(* A step after which the client is closed leaves little to prove.         *)
LEMMA ClosedSafe ==
  ASSUME TypeOK', Shapes', closed', ~requests_enabled',
         connect_enabled' => current' = "connect" /\ Count(connect_store') = 0
  PROVE  SafeInv'
<1>1. MarkedKinds(connect_store') \subseteq KindsIn(connect_store')
  BY MarkedSubset DEF TypeOK
<1>2. MarkedExpectResponse'
  BY <1>1 DEF MarkedExpectResponse, Shapes, MainOK, ConnectOK,
              ExpectsResponse
<1> QED BY <1>2 DEF SafeInv, Shapes, MainOK, ConnectOK, ConnectPhase, Running,
                    EncoderMatchesCurrent

(* The stores are as before, the client has failed.                        *)
LEMMA FailedSafe ==
  ASSUME SafeInv, TypeOK', NEW e, SetStateFailed(e),
         UNCHANGED <<main_store, connect_store, current>>
  PROVE  SafeInv'
<1>1. Shapes
  BY SafeShapes
<1>2. Shapes'
  BY <1>1 DEF Shapes, NoStaleControl
<1> QED BY <1>2, ClosedSafe DEF SetStateFailed

LEMMA InitialSafe ==
  ASSUME SafeInv, TypeOK', SetStateInitial
  PROVE  SafeInv'
<1>1. CleanupStores(~clean_session, FALSE, KeptStore, calls)
  BY DEF SetStateInitial
<1>2. /\ ConnectOK(connect_store') /\ MainOK(main_store')
      /\ Count(connect_store') = 0
      /\ KindsIn(main_store') \cap ControlKinds = {}
  BY <1>1, KeptShapes, CleanupShapes
<1>3. Shapes'
  BY <1>2 DEF Shapes, NoStaleControl, ControlKinds
<1> QED BY <1>2, <1>3, ClosedSafe DEF SetStateInitial

-----------------------------------------------------------------------------
(* Steps that keep the current store the current one and replace it by s:  *)
(* what is left to show of them, with the values of rx_value and tx_value. *)
PhaseOK(s, rx, tx) ==
  /\ current = "connect" =>
       /\ Count(s) = IF rx.kind = "CONNECT" THEN 0 ELSE 1
       /\ rx.kind \in {"NONE", "CONNECT"}
  /\ current = "main" => rx.kind # "CONNECT"
  /\ tx # NoEntry => HasCurrent(s) /\ Current(s) = tx

LEMMA PhaseNow ==
  ASSUME SafeInv, Running
  PROVE  PhaseOK(CurrentStore, rx_value, tx_value) /\ ~connect_enabled
BY DEF SafeInv, TypeOK, ConnectPhase, EncoderMatchesCurrent, PhaseOK, Running,
       CurrentStore

LEMMA StepSafe ==
  ASSUME SafeInv, TypeOK', NEW s, CurrentOK(s), UpdateCurrent(s),
         current' = current, ~connect_enabled',
         requests_enabled' => requests_enabled,
         Running' => PhaseOK(s, rx_value', tx_value')
  PROVE  SafeInv'
<1>1. Shapes' /\ CurrentStore' = s
  BY UpdateShapes
<1>2. MarkedKinds(connect_store') \subseteq KindsIn(connect_store')
  BY MarkedSubset DEF TypeOK
<1>3. MarkedExpectResponse' /\ NoStaleControl'
  BY <1>1, <1>2 DEF MarkedExpectResponse, Shapes, MainOK, ConnectOK,
                    ExpectsResponse
<1>4. requests_enabled' => current' = "main"
  BY DEF SafeInv, ConnectPhase
<1>5. current' = "main" \/ current' = "connect"
  BY DEF TypeOK
<1>6. CurrentStore' = IF current' = "main" THEN main_store'
                                          ELSE connect_store'
  BY DEF CurrentStore
<1>7. EncoderMatchesCurrent'
  BY <1>1 DEF EncoderMatchesCurrent, PhaseOK
<1>8. ConnectPhase'
  BY <1>1, <1>4, <1>5, <1>6
     DEF ConnectPhase, Shapes, MainOK, ConnectOK, PhaseOK
<1> QED BY <1>3, <1>7, <1>8 DEF SafeInv

(* Appending to the current store, while it is main_store.                 *)
LEMMA AppendedPhase ==
  ASSUME SafeInv, current = "main", NEW e \in Entries, e.kind # "CONNECT",
         NEW s, WellFormed(s, Entries), CurrentOK(s)
  PROVE  /\ CurrentOK(Appended(s, e))
         /\ \A rx, tx : PhaseOK(s, rx, tx) => PhaseOK(Appended(s, e), rx, tx)
<1>1. /\ KindsIn(Appended(s, e)) \subseteq KindsIn(s) \cup {e.kind}
      /\ MarkedKinds(Appended(s, e)) \subseteq MarkedKinds(s)
      /\ HasCurrent(s) => /\ HasCurrent(Appended(s, e))
                          /\ Current(Appended(s, e)) = Current(s)
  BY AppendedKinds
<1> QED BY <1>1 DEF CurrentOK, MainOK, PhaseOK

(* The entry that a response answers leaves the current store.             *)
LEMMA PopMarkedByPhase ==
  ASSUME SafeInv, Running, NEW kind, NEW id,
         Matching(CurrentStore, kind, id) # {}
  PROVE  LET s == PopMarkedBy(CurrentStore, kind, id) IN
           /\ CurrentOK(s) /\ WellFormed(s, Entries)
           /\ tx_value # NoEntry => HasCurrent(s) /\ Current(s) = tx_value
           /\ IF current = "connect"
                THEN kind = "CONNECT" /\ Count(s) = 0 /\ tx_value = NoEntry
                ELSE kind # "CONNECT"
<1> DEFINE i == Found(CurrentStore, kind, id)
           s == PopMarkedBy(CurrentStore, kind, id)
<1>1. /\ WellFormed(CurrentStore, Entries) /\ CurrentOK(CurrentStore)
      /\ Count(CurrentStore) \in Nat /\ CurrentStore.pos \in Nat
      /\ CurrentStore.pos <= Count(CurrentStore)
  BY SafeShapes
<1>2. /\ i \in 1 .. Count(CurrentStore) /\ i \in 1 .. CurrentStore.pos
      /\ CurrentStore.entries[i].kind = kind
  BY <1>1, FoundLemma
<1>3. kind \in KindsIn(CurrentStore)
  BY <1>2 DEF KindsIn
<1>4. /\ WellFormed(s, Entries) /\ Count(s) = Count(CurrentStore) - 1
  BY <1>1, <1>2, PopAtLemma DEF PopMarkedBy
<1>5. /\ KindsIn(s) \subseteq KindsIn(CurrentStore)
      /\ MarkedKinds(s) \subseteq MarkedKinds(CurrentStore)
      /\ HasCurrent(CurrentStore) =>
           HasCurrent(s) /\ Current(s) = Current(CurrentStore)
  BY <1>1, <1>2, PopAtKinds DEF PopMarkedBy
<1>6. PhaseOK(CurrentStore, rx_value, tx_value)
  BY PhaseNow
<1>7. CurrentOK(s)
  BY <1>1, <1>5 DEF CurrentOK, MainOK, ConnectOK
<1>8. CASE current = "connect"
  <2>1. kind = "CONNECT"
    BY <1>1, <1>3, <1>8 DEF CurrentOK, ConnectOK
  <2>2. Count(CurrentStore) <= 1
    BY <1>6, <1>8 DEF PhaseOK
  <2>3. Count(s) = 0 /\ ~HasCurrent(CurrentStore)
    BY <1>1, <1>2, <1>4, <2>2 DEF HasCurrent
  <2> HIDE DEF s
  <2> QED BY <1>4, <1>6, <1>7, <1>8, <2>1, <2>3 DEF PhaseOK, s
<1>9. CASE current = "main"
  <2>1. kind # "CONNECT"
    BY <1>1, <1>3, <1>9 DEF CurrentOK, MainOK
  <2> HIDE DEF s
  <2> QED BY <1>4, <1>5, <1>6, <1>7, <1>9, <2>1 DEF PhaseOK, s
<1> QED BY <1>8, <1>9 DEF SafeInv, TypeOK

(* The packet that answers e is complete, and s is the current store       *)
(* without e.                                                              *)
LEMMA FinishSafe ==
  ASSUME SafeInv, TypeOK', Running, NEW e \in Entries, NEW s, Finish(e, s),
         CurrentOK(s), WellFormed(s, Entries), tx_value' = tx_value,
         tx_value # NoEntry => HasCurrent(s) /\ Current(s) = tx_value,
         IF current = "connect" THEN e.kind = "CONNECT" /\ tx_value = NoEntry
                                ELSE e.kind # "CONNECT"
  PROVE  SafeInv'
<1>1. ~connect_enabled /\ ~closed
  BY PhaseNow DEF Running
<1>2. ASSUME CallBack(e)
      PROVE  /\ ~connect_enabled'
             /\ rx_value' = NoEntry \/ (closed' /\ ~requests_enabled')
             /\ e.kind # "CONNECT" => (requests_enabled' => requests_enabled)
  BY <1>1, <1>2 DEF CallBack, SetStateFailed, state
<1>3. NoEntry.kind = "NONE"
  BY DEF NoEntry
<1>4. CASE e.kind = "CONNECT"
  <2>1. tx_value = NoEntry
    BY <1>4
  <2>2. SetStateConnected(connect_clean) /\ CallBack(e)
    BY <1>4 DEF Finish
  <2>3. /\ current' = "main"
        /\ CleanupStores(~connect_clean, TRUE, UnmarkAll(KeptStore), calls)
    BY <2>2 DEF SetStateConnected
  <2>4. /\ ConnectOK(connect_store') /\ MainOK(main_store')
        /\ Count(connect_store') = 0
    BY <2>3, KeptShapes, CleanupShapes
  <2>5. MarkedKinds(connect_store') \subseteq KindsIn(connect_store')
    BY MarkedSubset DEF TypeOK
  <2>6. MarkedExpectResponse' /\ NoStaleControl'
    BY <2>3, <2>4, <2>5 DEF MarkedExpectResponse, MainOK, ConnectOK,
                            ExpectsResponse, NoStaleControl
  <2>7. EncoderMatchesCurrent'
    BY <2>1 DEF EncoderMatchesCurrent
  <2>8. ConnectPhase'
    BY <1>2, <1>3, <2>2, <2>3, <2>4
       DEF ConnectPhase, MainOK, ConnectOK, Running
  <2> QED BY <2>6, <2>7, <2>8 DEF SafeInv
<1>5. CASE e.kind # "CONNECT"
  <2>1. current = "main"
    BY <1>5 DEF SafeInv, TypeOK
  <2>2. CASE e.kind = "PUBLISH_2"
    <3>1. /\ UpdateCurrent(Appended(s, PubrelFor(e))) /\ rx_value' = NoEntry
          /\ UNCHANGED <<state, current>>
      BY <2>2 DEF Finish
    <3>2. PubrelFor(e) \in Entries /\ PubrelFor(e).kind # "CONNECT"
      BY DEF PubrelFor, Entry, Entries, Kinds
    <3>3. PhaseOK(s, rx_value', tx_value')
      BY <1>3, <2>1, <3>1 DEF PhaseOK
    <3>4. /\ CurrentOK(Appended(s, PubrelFor(e)))
          /\ PhaseOK(Appended(s, PubrelFor(e)), rx_value', tx_value')
      BY <2>1, <3>2, <3>3, AppendedPhase
    <3> QED BY <1>1, <3>1, <3>4, StepSafe DEF state
  <2>3. CASE e.kind # "PUBLISH_2"
    <3>1. UpdateCurrent(s) /\ CallBack(e) /\ current' = current
      BY <1>5, <2>3 DEF Finish
    <3>2. Running' => PhaseOK(s, rx_value', tx_value')
      BY <1>2, <1>3, <2>1, <3>1 DEF PhaseOK, Running
    <3> QED BY <1>2, <1>5, <3>1, <3>2, StepSafe
  <2> QED BY <2>2, <2>3
<1> QED BY <1>4, <1>5

LEMMA InitSafe == Init => SafeInv
<1> SUFFICES ASSUME Init PROVE SafeInv
  OBVIOUS
<1>1. /\ KindsIn(main_store) = {} /\ KindsIn(connect_store) = {}
      /\ MarkedKinds(main_store) = {} /\ MarkedKinds(connect_store) = {}
      /\ Count(connect_store) = 0
  BY EmptyStoreKinds DEF Init, EmptyStore, Count
<1>2. /\ TypeOK /\ closed /\ connect_enabled /\ ~requests_enabled
      /\ current = "connect"
  BY InitType DEF Init
<1> QED BY <1>1, <1>2
        DEF SafeInv, ConnectPhase, MarkedExpectResponse,
            EncoderMatchesCurrent, NoStaleControl, Running

LEMMA NextSafe ==
  ASSUME SafeInv, [Next]_vars
  PROVE  SafeInv'
<1> USE DEF state, stores, session, txs, history
<1>. TypeOK /\ TypeOK'
  BY NextType DEF SafeInv
<1>0. CASE UNCHANGED vars
  BY <1>0 DEF vars, SafeInv, ConnectPhase, MarkedExpectResponse,
              NoStaleControl, EncoderMatchesCurrent, KindsIn, MarkedKinds,
              Count, Running, HasCurrent, Current, CurrentStore
<1>1. ASSUME NEW clean \in CleanSessions, Connect(clean) PROVE SafeInv'
  <2>1. /\ current = "connect" /\ Count(connect_store) = 0
        /\ ~requests_enabled /\ ~requests_enabled'
    BY <1>1 DEF Connect, SetStateConnecting, SafeInv, ConnectPhase
  <2>2. Entry("CONNECT", 0, None) \in Entries
    BY SizeFacts, EntryType DEF Kinds
  <2>3. WellFormed(connect_store, Entries) /\ ConnectOK(connect_store)
    BY SafeShapes DEF TypeOK, IsStore, Shapes
  <2> DEFINE s == Appended(connect_store, Entry("CONNECT", 0, None))
  <2>4. Count(s) = 1 /\ KindsIn(s) \subseteq KindsIn(connect_store)
                                               \cup {"CONNECT"}
    BY <2>1, <2>2, <2>3, AppendedLemma, AppendedKinds DEF Entry
  <2> HIDE DEF s
  <2>5. CurrentOK(s) /\ UpdateCurrent(s) /\ current' = current
    BY <1>1, <2>1, <2>3, <2>4
       DEF Connect, CurrentOK, ConnectOK, UpdateCurrent, s
  <2>6. PhaseOK(s, rx_value', tx_value') /\ ~connect_enabled'
    BY <1>1, <2>1, <2>4 DEF Connect, SetStateConnecting, PhaseOK, NoEntry
  <2> QED BY <2>1, <2>5, <2>6, StepSafe
<1>2. ASSUME NEW e \in Entries, e.kind # "CONNECT", requests_enabled,
             main_store' = Appended(main_store, e),
             UNCHANGED <<state, txs, current, rx_value, connect_store>>
      PROVE  SafeInv'
  <2>1. current = "main" /\ ~connect_enabled
    BY <1>2 DEF SafeInv, ConnectPhase
  <2>2. WellFormed(main_store, Entries) /\ CurrentOK(main_store)
    BY <2>1, SafeShapes DEF Shapes, CurrentOK
  <2>3. CurrentOK(Appended(main_store, e)) /\ CurrentStore = main_store
    BY <1>2, <2>1, <2>2, AppendedPhase DEF CurrentStore
  <2>4. Running => PhaseOK(Appended(main_store, e), rx_value, tx_value)
    BY <1>2, <2>1, <2>2, <2>3, PhaseNow, AppendedPhase
  <2>5. UpdateCurrent(Appended(main_store, e))
    BY <1>2, <2>1 DEF UpdateCurrent
  <2>6. Running' = Running
    BY <1>2 DEF Running
  <2> QED BY <1>2, <2>1, <2>3, <2>4, <2>5, <2>6, StepSafe
<1>3. ASSUME NEW kind \in RequestKinds, Request(kind) PROVE SafeInv'
  <2>1. CASE IsQueueable(main_store, Capacity)
    <3>1. accepted + 1 \in Requests
      BY <1>3, SizeFacts DEF Request, TypeOK, Requests
    <3> DEFINE e == Entry(kind, IF TakesId(kind) THEN next_packet_id ELSE 0,
                          accepted + 1)
    <3>2. e \in Entries
      BY <3>1, SizeFacts, EntryType DEF TypeOK, RequestKinds, Kinds
    <3>3. e.kind # "CONNECT"
      BY DEF Entry, RequestKinds
    <3>4. main_store' = Appended(main_store, e) /\ requests_enabled
      BY <1>3, <2>1 DEF Request
    <3> HIDE DEF e
    <3> QED BY <1>2, <1>3, <3>2, <3>3, <3>4 DEF Request
  <2>2. CASE ~IsQueueable(main_store, Capacity)
    BY <1>3, <2>2 DEF Request, SafeInv, ConnectPhase, MarkedExpectResponse,
                      NoStaleControl, EncoderMatchesCurrent, Running,
                      CurrentStore, KindsIn, MarkedKinds, Count, HasCurrent,
                      Current
  <2> QED BY <2>1, <2>2
<1>4. CASE Disconnect
  <2>1. /\ Entry("DISCONNECT", 0, None) \in Entries
        /\ Entry("DISCONNECT", 0, None).kind # "CONNECT"
    BY SizeFacts, EntryType DEF Kinds, Entry
  <2> QED BY <1>2, <1>4, <2>1 DEF Disconnect
<1>5. CASE Reset
  BY <1>5, InitialSafe DEF Reset
<1>6. CASE Finalize
  <2>1. /\ closed' = TRUE /\ ~requests_enabled' /\ ~connect_enabled'
        /\ current' = current
        /\ CleanupStores(FALSE, FALSE, main_store,
                         Reported(calls, RequestOf(rx_value), FALSE))
    BY <1>6 DEF Finalize, SetStateFailed
  <2>2. MainOK(main_store) /\ NoStaleControl
    BY SafeShapes DEF Shapes
  <2>3. ConnectOK(connect_store') /\ MainOK(main_store')
    BY <2>1, <2>2, CleanupShapes
  <2>4. main_store' = EmptyStore
    BY <2>1 DEF CleanupStores
  <2>5. Shapes'
    BY <2>3, <2>4, EmptyStoreKinds DEF Shapes, NoStaleControl
  <2> QED BY <2>1, <2>5, ClosedSafe
<1>7. CASE EncodePart
  <2>1. PhaseOK(CurrentStore, rx_value, tx_value) /\ ~connect_enabled
    BY <1>7, PhaseNow DEF EncodePart, Encoding
  <2>2. /\ CurrentOK(CurrentStore)
        /\ PhaseOK(CurrentStore, rx_value', tx_value')
    BY <1>7, <2>1, SafeShapes DEF EncodePart, PhaseOK
  <2>3. UpdateCurrent(CurrentStore) /\ current' = current
    BY <1>7 DEF EncodePart, UpdateCurrent, CurrentStore
  <2> QED BY <1>7, <2>1, <2>2, <2>3, StepSafe DEF EncodePart
<1>8. CASE Encode
  <2> DEFINE e == Current(CurrentStore)
             s == IF ExpectsResponse(e.kind) THEN MarkCurrent(CurrentStore)
                                             ELSE DropCurrent(CurrentStore)
  <2>1. /\ Running /\ HasCurrent(CurrentStore) /\ UpdateCurrent(s)
        /\ tx_value' = NoEntry /\ rx_value' = rx_value /\ current' = current
    BY <1>8 DEF Encode, Encoding
  <2>2. /\ WellFormed(CurrentStore, Entries) /\ CurrentOK(CurrentStore)
        /\ Count(CurrentStore) \in Nat /\ CurrentStore.pos \in Nat
    BY SafeShapes
  <2>3. PhaseOK(CurrentStore, rx_value, tx_value) /\ ~connect_enabled
    BY <2>1, PhaseNow
  <2>4. e.kind \in KindsIn(CurrentStore)
    BY <2>1, <2>2, MarkCurrentKinds
  <2>5. /\ CurrentOK(s)
        /\ current = "connect" => Count(s) = Count(CurrentStore)
    <3>1. CASE ExpectsResponse(e.kind)
      <4>1. /\ KindsIn(MarkCurrent(CurrentStore)) = KindsIn(CurrentStore)
            /\ MarkedKinds(MarkCurrent(CurrentStore))
                 \subseteq MarkedKinds(CurrentStore) \cup {e.kind}
            /\ Count(MarkCurrent(CurrentStore)) = Count(CurrentStore)
        BY <2>1, <2>2, MarkCurrentKinds DEF MarkCurrent, Count, WellFormed
      <4> QED BY <2>2, <3>1, <4>1 DEF CurrentOK, MainOK, ConnectOK
    <3>2. CASE ~ExpectsResponse(e.kind)
      <4>1. CurrentStore.pos + 1 \in 1 .. Count(CurrentStore)
        BY <2>1, <2>2 DEF HasCurrent
      <4>2. /\ KindsIn(s) \subseteq KindsIn(CurrentStore)
            /\ MarkedKinds(s) \subseteq MarkedKinds(CurrentStore)
        BY <2>2, <3>2, <4>1, PopAtKinds DEF DropCurrent
      <4>3. current # "connect"
        BY <2>2, <2>4, <3>2 DEF CurrentOK, ConnectOK, ExpectsResponse
      <4> QED BY <2>2, <3>2, <4>2, <4>3 DEF CurrentOK, MainOK, TypeOK
    <3> QED BY <3>1, <3>2
  <2>6. ~connect_enabled' /\ (requests_enabled' => requests_enabled)
    BY <1>8, <2>3 DEF Encode, SetStateFailed
  <2> HIDE DEF e, s
  <2>7. PhaseOK(s, rx_value', tx_value')
    BY <2>1, <2>3, <2>5 DEF PhaseOK
  <2> QED BY <2>1, <2>5, <2>6, <2>7, StepSafe
<1>9. CASE write_buf # <<>> /\ Write(Head(write_buf))
  BY <1>9 DEF Write, SafeInv, ConnectPhase, MarkedExpectResponse,
              NoStaleControl, EncoderMatchesCurrent, Running, CurrentStore,
              KindsIn, MarkedKinds, Count, HasCurrent, Current
<1>10. ASSUME NEW kind \in ResponseKinds, NEW id \in Ids, Respond(kind, id)
       PROVE  SafeInv'
  <2> DEFINE e == CurrentStore.entries[Found(CurrentStore, kind, id)]
             s == PopMarkedBy(CurrentStore, kind, id)
  <2>1. Running /\ Matching(CurrentStore, kind, id) # {} /\ Finish(e, s)
    BY <1>10 DEF Respond, Receiving
  <2>2. e \in Entries /\ e.kind = kind
    BY <2>1, CurrentType, PopMarkedByType
  <2>3. /\ CurrentOK(s) /\ WellFormed(s, Entries)
        /\ tx_value # NoEntry => HasCurrent(s) /\ Current(s) = tx_value
        /\ IF current = "connect" THEN kind = "CONNECT" /\ tx_value = NoEntry
                                  ELSE kind # "CONNECT"
    BY <2>1, PopMarkedByPhase
  <2> HIDE DEF e, s
  <2> QED BY <1>10, <2>1, <2>2, <2>3, FinishSafe DEF Respond
<1>11. ASSUME NEW kind \in ResponseKinds, NEW id \in Ids,
              BeginResponse(kind, id)
       PROVE  SafeInv'
  <2> DEFINE e == CurrentStore.entries[Found(CurrentStore, kind, id)]
             s == PopMarkedBy(CurrentStore, kind, id)
  <2>1. /\ Running /\ Matching(CurrentStore, kind, id) # {}
        /\ UpdateCurrent(s) /\ rx_value' = e
        /\ UNCHANGED <<state, txs, current>>
    BY <1>11 DEF BeginResponse, Receiving
  <2>2. e.kind = kind
    BY <2>1, CurrentType, PopMarkedByType
  <2>3. /\ CurrentOK(s)
        /\ tx_value # NoEntry => HasCurrent(s) /\ Current(s) = tx_value
        /\ IF current = "connect" THEN kind = "CONNECT" /\ Count(s) = 0
                                  ELSE kind # "CONNECT"
    BY <2>1, PopMarkedByPhase
  <2>4. ~connect_enabled
    BY <2>1, PhaseNow
  <2> HIDE DEF e, s
  <2>5. PhaseOK(s, rx_value', tx_value')
    BY <2>1, <2>2, <2>3 DEF PhaseOK
  <2> QED BY <2>1, <2>3, <2>4, <2>5, StepSafe
<1>12. ASSUME NEW kind \in ResponseKinds, NEW id \in Ids, Unexpected(kind, id)
       PROVE  SafeInv'
  BY <1>12, FailedSafe DEF Unexpected, Fail
<1>13. CASE FinishResponse
  <2>1. /\ Running /\ Finish(rx_value, CurrentStore) /\ tx_value' = tx_value
        /\ rx_value.kind \in {"CONNECT", "SUBSCRIBE"}
    BY <1>13 DEF FinishResponse
  <2>2. rx_value \in Entries
    BY <2>1 DEF TypeOK, NoEntry
  <2>3. CurrentOK(CurrentStore) /\ WellFormed(CurrentStore, Entries)
    BY SafeShapes
  <2>4. PhaseOK(CurrentStore, rx_value, tx_value)
    BY <2>1, PhaseNow
  <2>5. current = "connect" => /\ rx_value.kind = "CONNECT"
                               /\ tx_value = NoEntry
    <3>1. current = "connect" => /\ rx_value.kind = "CONNECT"
                                 /\ Count(CurrentStore) = 0
      BY <2>1, <2>4 DEF PhaseOK
    <3>2. CurrentStore.pos \in Nat
      BY SafeShapes
    <3> QED BY <2>4, <3>1, <3>2 DEF PhaseOK, HasCurrent
  <2>6. current = "main" => rx_value.kind # "CONNECT"
    BY <2>4 DEF PhaseOK
  <2>7. current = "main" \/ current = "connect"
    BY DEF TypeOK
  <2> QED BY <2>1, <2>2, <2>3, <2>4, <2>5, <2>6, <2>7, FinishSafe DEF PhaseOK
<1>14. ASSUME NEW s, UpdateCurrent(s), Receiving,
              UNCHANGED <<txs, current, rx_value>>,
              \/ s = CurrentStore
              \/ \E kind \in {"PUBACK", "PUBREC", "PUBCOMP"},
                   id \in InboundIds : s = Acknowledged(kind, id),
              \/ UNCHANGED state
              \/ SetStateFailed("FAILED")
       PROVE  SafeInv'
  <2>1. /\ CurrentOK(CurrentStore) /\ WellFormed(CurrentStore, Entries)
        /\ PhaseOK(CurrentStore, rx_value, tx_value) /\ ~connect_enabled
    BY <1>14, SafeShapes, PhaseNow DEF Receiving
  <2>2. CurrentOK(s) /\ PhaseOK(s, rx_value, tx_value)
    <3>1. CASE s = CurrentStore
      BY <2>1, <3>1
    <3>2. ASSUME NEW kind \in {"PUBACK", "PUBREC", "PUBCOMP"},
                 NEW id \in InboundIds, s = Acknowledged(kind, id),
                 current = "main"
          PROVE  CurrentOK(s) /\ PhaseOK(s, rx_value, tx_value)
      <4>1. Entry(kind, id, None) \in Entries
        BY EntryType DEF Kinds
      <4>2. Entry(kind, id, None).kind # "CONNECT"
        BY DEF Entry
      <4> QED BY <2>1, <3>2, <4>1, <4>2, AppendedPhase DEF Acknowledged
    <3>3. ASSUME NEW kind, NEW id, s = Acknowledged(kind, id),
                 current = "connect"
          PROVE  s = CurrentStore
      <4>1. Count(CurrentStore) = 1
        BY <1>14, <2>1, <3>3 DEF PhaseOK, Receiving, NoEntry
      <4> QED BY <3>3, <4>1
              DEF Acknowledged, IsQueueable, CurrentCapacity
    <3>4. current = "main" \/ current = "connect"
      BY DEF TypeOK
    <3> QED BY <1>14, <3>1, <3>2, <3>3, <3>4
  <2>3. ~connect_enabled' /\ (requests_enabled' => requests_enabled)
    BY <1>14, <2>1 DEF SetStateFailed
  <2> QED BY <1>14, <2>2, <2>3, StepSafe
<1>15. ASSUME NEW qos \in 0 .. 2, NEW id \in InboundIds, NEW ok \in Results,
              ReceivePublish(qos, id, ok)
       PROVE  SafeInv'
  <2>1. PICK s : /\ UpdateCurrent(s)
                 /\ \/ s = CurrentStore
                    \/ s = Acknowledged("PUBACK", id)
                    \/ s = Acknowledged("PUBREC", id)
    BY <1>15 DEF ReceivePublish, Answered
  <2>2. /\ Receiving /\ UNCHANGED <<txs, current, rx_value>>
        /\ UNCHANGED state \/ SetStateFailed("FAILED")
    BY <1>15 DEF ReceivePublish
  <2> QED BY <1>14, <2>1, <2>2
<1>16. ASSUME NEW id \in InboundIds, ReceivePubrel(id) PROVE SafeInv'
  BY <1>14, <1>16 DEF ReceivePubrel
<1>17. CASE Timeout
  BY <1>17, FailedSafe DEF Timeout
<1>18. CASE Pingreq
  <2>1. /\ Entry("PINGREQ", 0, None) \in Entries
        /\ Entry("PINGREQ", 0, None).kind # "CONNECT"
    BY SizeFacts, EntryType DEF Kinds, Entry
  <2>2. /\ WellFormed(main_store, Entries) /\ CurrentOK(main_store)
        /\ CurrentStore = main_store /\ ~connect_enabled
        /\ PhaseOK(main_store, rx_value, tx_value)
    BY <1>18, SafeShapes, PhaseNow DEF Pingreq, CurrentStore, CurrentOK
  <2> DEFINE s == Appended(main_store, Entry("PINGREQ", 0, None))
  <2>3. CurrentOK(s) /\ PhaseOK(s, rx_value, tx_value)
    BY <1>18, <2>1, <2>2, AppendedPhase DEF Pingreq
  <2>4. UpdateCurrent(s)
    BY <1>18 DEF Pingreq, UpdateCurrent
  <2> HIDE DEF s
  <2> QED BY <1>18, <2>2, <2>3, <2>4, StepSafe DEF Pingreq
<1>19. CASE Eof
  BY <1>19, InitialSafe DEF Eof
<1>20. CASE Fail
  BY <1>20, FailedSafe DEF Fail
<1> QED BY <1>0, <1>1, <1>3, <1>4, <1>5, <1>6, <1>7, <1>8, <1>9, <1>10, <1>11,
           <1>12, <1>13, <1>15, <1>16, <1>17, <1>18, <1>19, <1>20
        DEF Next, Application, Output, Input, KeepAlive

(* CONNECT is alone in the connect store, and only there, for every        *)
(* interleaving of the application's calls with encoding, decoding,        *)
(* keep-alive and failures.                                                *)
THEOREM ConnectPhaseHolds == Spec => []ConnectPhase
BY InitSafe, NextSafe, PTL DEF Spec, SafeInv

(* No packet that the peer never answers is left marked in a store.        *)
THEOREM MarkedAreAnswered == Spec => []MarkedExpectResponse
BY InitSafe, NextSafe, PTL DEF Spec, SafeInv

(* The encoder always resumes the entry it has begun.                      *)
THEOREM EncoderResumesItsEntry == Spec => []EncoderMatchesCurrent
BY InitSafe, NextSafe, PTL DEF Spec, SafeInv

(* No PINGREQ or DISCONNECT of one connection is left for the next.        *)
THEOREM ControlIsNotKept == Spec => []NoStaleControl
BY InitSafe, NextSafe, PTL DEF Spec, SafeInv
=============================================================================
