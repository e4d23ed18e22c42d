------------------------ MODULE LmqttRequestProofs ------------------------
(***************************************************************************)
(* Where the client keeps the requests it has accepted, and what each of   *)
(* its steps may do to them, for every size of the stores, every number of *)
(* requests and every choice of what the peer, the network and the         *)
(* callbacks may do.                                                       *)
(*                                                                         *)
(* The proofs have two levels.  Custody, about the entries of the stores,  *)
(* makes every step of the client one of the few things that RequestStep   *)
(* says of the requests as sets; Ledger and Sessions, from which the       *)
(* properties follow, are invariant because RequestStep preserves them.    *)
(* The last part maps RequestStep to the steps of RequestLifecycle.        *)
(***************************************************************************)
EXTENDS LmqttClientRefinement, LmqttClientProofs, FiniteSetTheorems

(* The kinds of the packets that stand for a request: its first packet, or *)
(* the PUBREL that takes the place of a message.                           *)
RequestCarriers == RequestKinds \cup {"PUBREL"}

(* The requests in the store, and the one in the decoder.                  *)
Held  == RequestsIn(main_store)
Taken == RequestOf(rx_value)

-----------------------------------------------------------------------------
(* What holds of every entry of a store, and of every two, when n requests *)
(* have been accepted and the PUBRECs of rcvd have arrived.                *)

GoodEntry(e, n, rcvd) ==
  /\ e.val # None => e.kind \in RequestCarriers
  /\ e.val <= n
  /\ e.kind = "PUBLISH_2" => e.val \notin rcvd

InOrder(a, b) ==
  /\ a.val # None => a.val # b.val
  /\ {a.kind, b.kind} \subseteq RequestKinds => a.val < b.val

GoodStore(s, n, rcvd) ==
  /\ \A i \in 1 .. Count(s) : GoodEntry(s.entries[i], n, rcvd)
  /\ \A i, j \in 1 .. Count(s) :
       i < j => InOrder(s.entries[i], s.entries[j])

LEMMA ValueType ==
  ASSUME NEW e \in Entries \cup {NoEntry}
  PROVE  /\ e.val \in Nat
         /\ RequestOf(e) \subseteq Requests
         /\ e.val # None => RequestOf(e) = {e.val} /\ e.val \in Requests
         /\ e.val = None => RequestOf(e) = {}
BY SizeFacts DEF Entries, NoEntry, Requests, None, RequestOf

LEMMA StoreEntries ==
  ASSUME NEW s, WellFormed(s, Entries)
  PROVE  /\ Count(s) \in Nat
         /\ \A i \in 1 .. Count(s) : s.entries[i] \in Entries
BY LenProperties, ElementOfSeq DEF WellFormed, Count

LEMMA RequestsInStore ==
  ASSUME NEW s, NEW r
  PROVE  r \in RequestsIn(s) <=>
           r # None /\ \E i \in 1 .. Count(s) : s.entries[i].val = r
BY DEF RequestsIn

LEMMA EmptyStoreGood ==
  ASSUME NEW n, NEW rcvd
  PROVE  GoodStore(EmptyStore, n, rcvd) /\ RequestsIn(EmptyStore) = {}
<1>1. Count(EmptyStore) = 0
  BY DEF EmptyStore, Count
<1> QED BY <1>1 DEF GoodStore, RequestsIn

(* Marking and unmarking.                                                  *)
LEMMA SameEntriesGood ==
  ASSUME NEW s, NEW t, t.entries = s.entries
  PROVE  /\ RequestsIn(t) = RequestsIn(s)
         /\ \A n, rcvd : GoodStore(s, n, rcvd) => GoodStore(t, n, rcvd)
BY DEF RequestsIn, GoodStore, Count

LEMMA EmbedsGood ==
  ASSUME NEW s, NEW t, Embeds(t, s), NEW n, NEW rcvd, GoodStore(s, n, rcvd)
  PROVE  GoodStore(t, n, rcvd) /\ RequestsIn(t) \subseteq RequestsIn(s)
<1>1. ASSUME NEW i \in 1 .. Count(t)
      PROVE  GoodEntry(t.entries[i], n, rcvd)
  BY DEF Embeds, GoodStore
<1>2. ASSUME NEW i \in 1 .. Count(t), NEW j \in 1 .. Count(t), i < j
      PROVE  InOrder(t.entries[i], t.entries[j])
  <2>1. PICK o \in 1 .. Count(s), p \in 1 .. Count(s) :
          o < p /\ t.entries[i] = s.entries[o] /\ t.entries[j] = s.entries[p]
    BY <1>2 DEF Embeds
  <2> QED BY <2>1 DEF GoodStore
<1>3. RequestsIn(t) \subseteq RequestsIn(s)
  BY DEF Embeds, RequestsIn
<1> QED BY <1>1, <1>2, <1>3 DEF GoodStore

(* The request of the entry that is popped leaves the store with it.       *)
LEMMA PopAtGood ==
  ASSUME NEW s, WellFormed(s, Entries), NEW i \in 1 .. Count(s),
         NEW n, NEW rcvd, GoodStore(s, n, rcvd)
  PROVE  /\ GoodStore(PopAt(s, i), n, rcvd)
         /\ RequestsIn(PopAt(s, i)) = RequestsIn(s) \ RequestOf(s.entries[i])
         /\ RequestOf(s.entries[i]) \subseteq RequestsIn(s)
<1> DEFINE t == PopAt(s, i)
           e == s.entries[i]
<1>1. /\ Embeds(t, s)
      /\ \A o \in 1 .. Count(s) :
           o # i => \E j \in 1 .. Count(t) : t.entries[j] = s.entries[o]
      /\ \A j \in 1 .. Count(t) :
           \E o \in 1 .. Count(s) : o # i /\ t.entries[j] = s.entries[o]
  BY PopAtEmbeds
<1>2. Count(s) \in Nat /\ \A o \in 1 .. Count(s) : s.entries[o] \in Entries
  BY StoreEntries
<1>3. ASSUME NEW o \in 1 .. Count(s), o # i, e.val # None
      PROVE  s.entries[o].val # e.val
  <2>1. o < i \/ i < o
    BY <1>2, <1>3
  <2>2. CASE o < i
    <3>1. InOrder(s.entries[o], e)
      BY <2>2 DEF GoodStore
    <3> QED BY <1>3, <3>1 DEF InOrder
  <2>3. CASE i < o
    <3>1. InOrder(e, s.entries[o])
      BY <2>3 DEF GoodStore
    <3> QED BY <1>3, <3>1 DEF InOrder
  <2> QED BY <2>1, <2>2, <2>3
<1> HIDE DEF t
<1>4. GoodStore(t, n, rcvd) /\ RequestsIn(t) \subseteq RequestsIn(s)
  BY <1>1, EmbedsGood
<1>5. RequestOf(e) \subseteq RequestsIn(s)
  BY DEF RequestOf, RequestsIn
<1>6. ASSUME NEW r \in RequestsIn(t) PROVE r \notin RequestOf(e)
  <2>1. PICK j \in 1 .. Count(t) : r # None /\ t.entries[j].val = r
    BY <1>6, RequestsInStore
  <2>2. PICK o \in 1 .. Count(s) : o # i /\ t.entries[j] = s.entries[o]
    BY <1>1
  <2> QED BY <1>3, <2>1, <2>2 DEF RequestOf
<1>7. ASSUME NEW r \in RequestsIn(s), r \notin RequestOf(e)
      PROVE  r \in RequestsIn(t)
  <2>1. PICK o \in 1 .. Count(s) : r # None /\ s.entries[o].val = r
    BY RequestsInStore
  <2>2. o # i
    BY <1>7, <2>1 DEF RequestOf
  <2>3. PICK j \in 1 .. Count(t) : t.entries[j] = s.entries[o]
    BY <1>1, <2>2
  <2> QED BY <2>1, <2>3, RequestsInStore
<1> QED BY <1>4, <1>5, <1>6, <1>7 DEF t

(* An entry that is appended must carry a request that is not there yet,   *)
(* and a later one than all the others unless it carries a PUBREL.         *)
LEMMA AppendedGood ==
  ASSUME NEW s, WellFormed(s, Entries), NEW e \in Entries,
         NEW n, NEW rcvd, GoodStore(s, n, rcvd), GoodEntry(e, n, rcvd),
         e.val \notin RequestsIn(s),
         e.kind \in RequestKinds =>
           \A i \in 1 .. Count(s) : s.entries[i].val < e.val
  PROVE  /\ GoodStore(Appended(s, e), n, rcvd)
         /\ RequestsIn(Appended(s, e)) = RequestsIn(s) \cup RequestOf(e)
<1> DEFINE t == Appended(s, e)
<1>1. /\ Count(s) \in Nat /\ Count(t) = Count(s) + 1
      /\ \A j \in 1 .. Count(s) : t.entries[j] = s.entries[j]
      /\ t.entries[Count(s) + 1] = e
  BY AppendedLemma, StoreEntries
<1> HIDE DEF t
<1>2. ASSUME NEW i \in 1 .. Count(t)
      PROVE  GoodEntry(t.entries[i], n, rcvd)
  <2>1. i \in 1 .. Count(s) \/ i = Count(s) + 1
    BY <1>1
  <2> QED BY <1>1, <2>1 DEF GoodStore
<1>3. ASSUME NEW i \in 1 .. Count(t), NEW j \in 1 .. Count(t), i < j
      PROVE  InOrder(t.entries[i], t.entries[j])
  <2>1. i \in 1 .. Count(s)
    BY <1>1, <1>3
  <2>2. CASE j = Count(s) + 1
    <3>1. s.entries[i].val # None => s.entries[i].val # e.val
      BY <2>1, RequestsInStore
    <3> QED BY <1>1, <2>1, <2>2, <3>1 DEF InOrder
  <2>3. CASE j # Count(s) + 1
    <3>1. j \in 1 .. Count(s)
      BY <1>1, <2>3
    <3> QED BY <1>1, <1>3, <2>1, <3>1 DEF GoodStore
  <2> QED BY <2>2, <2>3
<1>4. ASSUME NEW r PROVE r \in RequestsIn(t) <=>
                           r \in RequestsIn(s) \cup RequestOf(e)
  <2>1. r \in RequestsIn(t) <=>
          r # None /\ \E i \in 1 .. Count(t) : t.entries[i].val = r
    BY RequestsInStore
  <2>2. (\E i \in 1 .. Count(t) : t.entries[i].val = r) <=>
          (\E i \in 1 .. Count(s) : s.entries[i].val = r) \/ e.val = r
    BY <1>1
  <2> QED BY <2>1, <2>2, RequestsInStore DEF RequestOf
<1>5. RequestsIn(t) = RequestsIn(s) \cup RequestOf(e)
  BY <1>4
<1> QED BY <1>2, <1>3, <1>5 DEF GoodStore, t

(* Deleting PINGREQ and DISCONNECT touches no request.                     *)
LEMMA DeleteKindsGood ==
  ASSUME NEW s, WellFormed(s, Entries), NEW kinds,
         kinds \cap RequestCarriers = {},
         NEW n, NEW rcvd, GoodStore(s, n, rcvd)
  PROVE  /\ GoodStore(DeleteKinds(s, kinds), n, rcvd)
         /\ RequestsIn(DeleteKinds(s, kinds)) = RequestsIn(s)
<1> DEFINE t == DeleteKinds(s, kinds)
<1>1. /\ Embeds(t, s)
      /\ \A o \in 1 .. Count(s) :
           s.entries[o].kind \notin kinds =>
             \E j \in 1 .. Count(t) : t.entries[j] = s.entries[o]
  BY DeleteKindsEmbeds
<1> HIDE DEF t
<1>2. GoodStore(t, n, rcvd) /\ RequestsIn(t) \subseteq RequestsIn(s)
  BY <1>1, EmbedsGood
<1>3. ASSUME NEW r \in RequestsIn(s) PROVE r \in RequestsIn(t)
  <2>1. PICK o \in 1 .. Count(s) : r # None /\ s.entries[o].val = r
    BY RequestsInStore
  <2>2. s.entries[o].kind \in RequestCarriers
    BY <2>1 DEF GoodStore, GoodEntry
  <2>3. PICK j \in 1 .. Count(t) : t.entries[j] = s.entries[o]
    BY <1>1, <2>2
  <2> QED BY <2>1, <2>3, RequestsInStore
<1> QED BY <1>2, <1>3 DEF t

(* More requests are accepted, or the PUBRECs of others arrive.            *)
LEMMA LaterGood ==
  ASSUME NEW s, WellFormed(s, Entries), NEW n \in Nat, NEW rcvd,
         GoodStore(s, n, rcvd), NEW m \in Nat, n <= m,
         NEW more, None \notin more, more \cap RequestsIn(s) = {}
  PROVE  GoodStore(s, m, rcvd \cup more)
<1>1. ASSUME NEW i \in 1 .. Count(s)
      PROVE  GoodEntry(s.entries[i], m, rcvd \cup more)
  <2>1. s.entries[i].val \in Nat /\ GoodEntry(s.entries[i], n, rcvd)
    BY StoreEntries, ValueType DEF GoodStore
  <2>2. s.entries[i].val \notin more
    BY RequestsInStore
  <2> QED BY <2>1, <2>2 DEF GoodEntry
<1> QED BY <1>1 DEF GoodStore

(* The connect store, which holds at most a CONNECT.                       *)
LEMMA ConnectGood ==
  ASSUME NEW s, IsStore(s, 1), ConnectOK(s), RequestsIn(s) = {},
         NEW n \in Nat, NEW rcvd
  PROVE  GoodStore(s, n, rcvd)
<1>1. Count(s) \in Nat /\ Count(s) <= 1
  BY StoreEntries DEF IsStore
<1>2. ASSUME NEW i \in 1 .. Count(s)
      PROVE  GoodEntry(s.entries[i], n, rcvd)
  <2>1. s.entries[i].kind = "CONNECT"
    BY DEF ConnectOK, KindsIn
  <2>2. s.entries[i].val = None
    BY RequestsInStore
  <2> QED BY <2>1, <2>2 DEF GoodEntry, None
<1> QED BY <1>1, <1>2 DEF GoodStore

-----------------------------------------------------------------------------
(* The stores hold good entries; the decoder holds another request, if     *)
(* any; and after lmqtt_client_finalize nothing is enabled.                *)
Custody ==
  /\ GoodStore(main_store, accepted, received)
  /\ RequestsIn(connect_store) = {}
  /\ rx_value.val # None => rx_value.kind \in RequestCarriers
  /\ rx_value.val <= accepted
  /\ Held \cap Taken = {}
  /\ received \subseteq 1 .. accepted
  /\ error = "CLOSED" => closed /\ ~connect_enabled /\ ~requests_enabled

Flags == <<clean_session, connect_clean, current>>

(* What a step may do to the requests: nothing; accept the next one (the   *)
(* calls of the application); move one from the store into the decoder     *)
(* (half a response); report one as successful (the rest of a response, or *)
(* an encoded QoS 0 message), which then leaves its place unless its       *)
(* callback returned 0; ...                                                *)
KeepsRequests ==
  /\ Held' = Held /\ Taken' = Taken
  /\ UNCHANGED <<accepted, calls, acked, Flags>>
  /\ closed => closed'

AcceptsRequest ==
  /\ current = "main"
  /\ accepted < NumRequests /\ accepted' = accepted + 1
  /\ Held' = Held \cup {accepted'} /\ Taken' = Taken
  /\ UNCHANGED <<closed, calls, acked, Flags>>

TakesRequest(r) ==
  /\ ~closed /\ Taken = {} /\ SplitKinds \cap RequestCarriers # {}
  /\ r \in Held
  /\ Held' = Held \ {r} /\ Taken' = {r}
  /\ UNCHANGED <<closed, accepted, calls, acked, Flags>>

SucceedsRequest(r) ==
  /\ ~closed
  /\ r \in Held \cup Taken
  /\ calls' = Reported(calls, {r}, TRUE) /\ acked' = acked \cup {r}
  /\ Held' = Held \ {r}
  /\ \/ Taken' = Taken \ {r}
     \/ CallbacksMayFail /\ closed' /\ Taken \subseteq {r} /\ Taken' = {r}
  /\ UNCHANGED <<accepted, Flags>>

(* ... flush the store when the session ends (client_set_state_initial,    *)
(* CONNACK); forget what the decoder holds (client_set_state_connecting);  *)
(* or report everything (lmqtt_client_finalize).                           *)
FlushesIf(ends, succeeded) ==
  IF ends THEN Held' = {} /\ calls' = Reported(calls, Held, succeeded)
          ELSE Held' = Held /\ UNCHANGED calls

LosesConnection ==
  /\ closed' /\ current' = "connect"
  /\ FlushesIf(clean_session, FALSE)
  /\ Taken' = Taken
  /\ UNCHANGED <<accepted, acked, clean_session, connect_clean>>

Reconnects ==
  /\ \E clean \in CleanSessions : Connect(clean)
  /\ closed /\ ~closed' /\ Taken' = {} /\ Held' = Held
  /\ connect_clean' \in CleanSessions
  /\ current = "connect"
  /\ UNCHANGED <<accepted, calls, acked, clean_session, current>>

GetsConnack ==
  /\ ~closed /\ Taken = {} /\ Taken' = {}
  /\ current = "connect" /\ current' = "main"
  /\ clean_session' = connect_clean
  /\ FlushesIf(connect_clean, TRUE)
  /\ UNCHANGED <<accepted, acked, connect_clean>>

FinalizesAll ==
  /\ calls' = Reported(Reported(calls, Taken, FALSE), Held, FALSE)
  /\ Held' = {} /\ Taken' = Taken /\ closed' /\ error' = "CLOSED"
  /\ UNCHANGED <<accepted, acked, Flags>>

RequestStep ==
  /\ error # "CLOSED"
  /\ \/ /\ error' # "CLOSED"
        /\ \/ KeepsRequests
           \/ AcceptsRequest
           \/ \E r \in Requests : TakesRequest(r) \/ SucceedsRequest(r)
           \/ LosesConnection \/ Reconnects \/ GetsConnack
     \/ FinalizesAll

-----------------------------------------------------------------------------
(* How the actions change the stores.                                      *)

LEMMA CurrentGood ==
  ASSUME SafeInv, Custody
  PROVE  /\ GoodStore(CurrentStore, accepted, received)
         /\ WellFormed(CurrentStore, Entries)
         /\ RequestsIn(CurrentStore) = IF current = "main" THEN Held ELSE {}
         /\ RequestsIn(CurrentStore) \subseteq Held
         /\ accepted \in Nat
<1>1. /\ IsStore(connect_store, 1) /\ ConnectOK(connect_store)
      /\ WellFormed(CurrentStore, Entries) /\ accepted \in Nat
  BY SafeShapes, SizeFacts DEF TypeOK, Shapes
<1>2. GoodStore(connect_store, accepted, received)
  BY <1>1, ConnectGood DEF Custody
<1> QED BY <1>1, <1>2 DEF CurrentStore, Held, Custody

(* The current store is replaced by s.                                     *)
LEMMA UpdateGood ==
  ASSUME SafeInv, Custody, UNCHANGED <<accepted, received>>,
         NEW s, UpdateCurrent(s), GoodStore(s, accepted, received),
         RequestsIn(s) \subseteq RequestsIn(CurrentStore)
  PROVE  /\ GoodStore(main_store, accepted, received)'
         /\ RequestsIn(connect_store)' = {}
         /\ Held' = Held \ (RequestsIn(CurrentStore) \ RequestsIn(s))
<1>1. RequestsIn(CurrentStore) = IF current = "main" THEN Held ELSE {}
  BY CurrentGood
<1>2. current = "main" \/ current = "connect"
  BY DEF SafeInv, TypeOK
<1>3. CASE current = "main"
  BY <1>1, <1>3 DEF UpdateCurrent, Custody, Held
<1>4. CASE current = "connect"
  BY <1>1, <1>4 DEF UpdateCurrent, Custody, Held
<1> QED BY <1>2, <1>3, <1>4

(* Steps that add and take no request.                                     *)
LEMMA KeepsLemma ==
  ASSUME SafeInv, Custody, error # "CLOSED", error' # "CLOSED",
         closed => closed',
         UNCHANGED <<accepted, received, calls, acked, Flags>>,
         UNCHANGED rx_value \/ (Taken = {} /\ RequestOf(rx_value') = {}),
         rx_value' \in Entries \cup {NoEntry},
         NEW s, UpdateCurrent(s), GoodStore(s, accepted, received),
         RequestsIn(s) = RequestsIn(CurrentStore)
  PROVE  Custody' /\ RequestStep
<1>1. /\ GoodStore(main_store, accepted, received)'
      /\ RequestsIn(connect_store)' = {} /\ Held' = Held
  BY UpdateGood
<1>2. Taken' = Taken /\ rx_value'.val <= accepted'
      /\ (rx_value'.val # None => rx_value'.kind \in RequestCarriers)
  <2>1. CASE UNCHANGED rx_value
    BY <2>1 DEF Taken, Custody
  <2>2. CASE Taken = {} /\ RequestOf(rx_value') = {}
    <3>1. rx_value'.val = None /\ accepted \in Nat
      BY <2>2, ValueType, CurrentGood
    <3> QED BY <2>2, <3>1 DEF Taken, None
  <2> QED BY <2>1, <2>2
<1>3. Custody'
  BY <1>1, <1>2 DEF Custody
<1>4. KeepsRequests
  BY <1>1, <1>2 DEF KeepsRequests
<1> QED BY <1>3, <1>4 DEF RequestStep

(* Steps that leave the stores alone.                                      *)
LEMMA QuietLemma ==
  ASSUME SafeInv, Custody, error # "CLOSED", error' # "CLOSED",
         closed => closed',
         UNCHANGED <<accepted, received, calls, acked, Flags, rx_value,
                     main_store, connect_store>>
  PROVE  Custody' /\ RequestStep
<1>1. UpdateCurrent(CurrentStore)
  BY DEF UpdateCurrent, CurrentStore
<1>2. GoodStore(CurrentStore, accepted, received)
  BY CurrentGood
<1>3. rx_value' \in Entries \cup {NoEntry}
  BY DEF SafeInv, TypeOK
<1> QED BY <1>1, <1>2, <1>3, KeepsLemma

(* A packet that carries no request is appended to the current store.      *)
LEMMA AddedKeeps ==
  ASSUME SafeInv, Custody, error # "CLOSED", error' # "CLOSED",
         closed => closed',
         UNCHANGED <<accepted, received, calls, acked, Flags, rx_value>>,
         NEW e \in Entries, e.val = None,
         e.kind \notin RequestKinds,
         UpdateCurrent(Appended(CurrentStore, e))
  PROVE  Custody' /\ RequestStep
<1>1. /\ GoodStore(CurrentStore, accepted, received)
      /\ WellFormed(CurrentStore, Entries) /\ accepted \in Nat
  BY CurrentGood
<1>2. GoodEntry(e, accepted, received)
  BY <1>1 DEF GoodEntry, None, RequestKinds
<1>3. None \notin RequestsIn(CurrentStore) /\ RequestOf(e) = {}
  BY DEF RequestsIn, RequestOf
<1>4. /\ GoodStore(Appended(CurrentStore, e), accepted, received)
      /\ RequestsIn(Appended(CurrentStore, e)) = RequestsIn(CurrentStore)
  BY <1>1, <1>2, <1>3, AppendedGood
<1>5. rx_value' \in Entries \cup {NoEntry}
  BY DEF SafeInv, TypeOK
<1> QED BY <1>4, <1>5, KeepsLemma

LEMMA ReportedNone ==
  ASSUME TypeOK, NEW b
  PROVE  Reported(calls, {}, b) = calls
BY DEF TypeOK, Reported

(* The entry e, whose request is reported as successful, has left the      *)
(* current store, of which s is what remains.                              *)
LEMMA SucceedsLemma ==
  ASSUME SafeInv, Custody, ~closed, error' # "CLOSED",
         UNCHANGED <<accepted, received, Flags>>,
         NEW e \in Entries, GoodEntry(e, accepted, {}),
         calls' = Reported(calls, RequestOf(e), TRUE),
         acked' = acked \cup RequestOf(e),
         RequestOf(e) \subseteq Held \cup Taken,
         NEW s, UpdateCurrent(s), GoodStore(s, accepted, received),
         RequestsIn(s) = RequestsIn(CurrentStore) \ RequestOf(e),
         RequestOf(e) \cap Held \subseteq RequestsIn(CurrentStore),
         \/ UNCHANGED rx_value /\ RequestOf(e) \cap Taken = {}
         \/ rx_value' = NoEntry /\ Taken \subseteq RequestOf(e)
         \/ /\ rx_value' = e /\ Taken \subseteq RequestOf(e)
            /\ CallbacksMayFail /\ closed'
  PROVE  Custody' /\ RequestStep
<1>1. /\ GoodStore(main_store, accepted, received)'
      /\ RequestsIn(connect_store)' = {}
      /\ Held' = Held \ (RequestsIn(CurrentStore) \ RequestsIn(s))
  BY UpdateGood
<1>2. Held' = Held \ RequestOf(e)
  BY <1>1
<1>3. /\ error # "CLOSED" /\ accepted \in Nat /\ Held \cap Taken = {}
  BY CurrentGood DEF Custody
<1>4. NoEntry.val = None
  BY DEF NoEntry
<1>5. RequestOf(NoEntry) = {}
  BY <1>4 DEF RequestOf
<1>6. \/ Taken' = Taken /\ RequestOf(e) \cap Taken = {}
      \/ Taken' = {} /\ Taken \subseteq RequestOf(e)
      \/ /\ Taken' = RequestOf(e) /\ Taken \subseteq RequestOf(e)
         /\ CallbacksMayFail /\ closed'
  BY <1>5 DEF Taken
<1>7. /\ rx_value'.val # None => rx_value'.kind \in RequestCarriers
      /\ rx_value'.val <= accepted'
  BY <1>3, <1>4 DEF Custody, GoodEntry, None
<1>8. Custody'
  BY <1>1, <1>2, <1>3, <1>6, <1>7 DEF Custody
<1>9. CASE e.val = None
  <2>1. RequestOf(e) = {}
    BY <1>9, ValueType
  <2>2. calls' = calls /\ acked' = acked
    BY <2>1, ReportedNone DEF SafeInv
  <2>3. KeepsRequests
    BY <1>2, <1>6, <2>1, <2>2 DEF KeepsRequests
  <2> QED BY <1>3, <1>8, <2>3 DEF RequestStep
<1>10. CASE e.val # None
  <2>1. RequestOf(e) = {e.val} /\ e.val \in Requests
    BY <1>10, ValueType
  <2>2. SucceedsRequest(e.val)
    BY <1>2, <1>6, <2>1 DEF SucceedsRequest
  <2> QED BY <1>3, <1>8, <2>1, <2>2 DEF RequestStep
<1> QED BY <1>9, <1>10

-----------------------------------------------------------------------------
(* The changes of state of the client.                                     *)

LEMMA KeptGood ==
  ASSUME SafeInv, Custody
  PROVE  /\ GoodStore(KeptStore, accepted, received)
         /\ RequestsIn(KeptStore) = Held
         /\ GoodStore(UnmarkAll(KeptStore), accepted, received)
         /\ RequestsIn(UnmarkAll(KeptStore)) = Held
<1>1. /\ WellFormed(main_store, Entries)
      /\ GoodStore(main_store, accepted, received)
  BY SafeShapes DEF Custody
<1>2. {"PINGREQ", "DISCONNECT"} \cap RequestCarriers = {}
  BY DEF RequestCarriers, RequestKinds
<1>3. /\ GoodStore(KeptStore, accepted, received)
      /\ RequestsIn(KeptStore) = Held
  BY <1>1, <1>2, DeleteKindsGood DEF KeptStore, Held
<1>4. UnmarkAll(KeptStore).entries = KeptStore.entries
  BY DEF UnmarkAll, KeptStore, DeleteKinds
<1> QED BY <1>3, <1>4, SameEntriesGood

LEMMA CleanupGood ==
  ASSUME SafeInv, Custody, UNCHANGED <<accepted, received>>,
         NEW keep \in BOOLEAN, NEW b, NEW s, NEW c,
         CleanupStores(keep, b, s, c),
         GoodStore(s, accepted, received), RequestsIn(s) = Held
  PROVE  /\ GoodStore(main_store, accepted, received)'
         /\ RequestsIn(connect_store)' = {}
         /\ IF keep THEN Held' = Held /\ calls' = c
                    ELSE Held' = {} /\ calls' = Reported(c, Held, b)
<1>1. /\ GoodStore(EmptyStore, accepted, received)
      /\ RequestsIn(EmptyStore) = {}
  BY EmptyStoreGood
<1>2. connect_store' = EmptyStore
  BY DEF CleanupStores
<1>3. CASE keep
  BY <1>1, <1>2, <1>3 DEF CleanupStores, Held
<1>4. CASE ~keep
  BY <1>1, <1>2, <1>4 DEF CleanupStores, Held
<1> QED BY <1>3, <1>4

LEMMA InitialCustody ==
  ASSUME SafeInv, Custody, error # "CLOSED", SetStateInitial,
         UNCHANGED <<clean_session, connect_clean, rx_value, accepted,
                     acked, received>>
  PROVE  Custody' /\ RequestStep
<1>1. CleanupStores(~clean_session, FALSE, KeptStore, calls)
  BY DEF SetStateInitial
<1>2. (~clean_session) \in BOOLEAN
  BY DEF SafeInv, TypeOK
<1>3. /\ GoodStore(main_store, accepted, received)'
      /\ RequestsIn(connect_store)' = {}
      /\ IF ~clean_session
           THEN Held' = Held /\ calls' = calls
           ELSE Held' = {} /\ calls' = Reported(calls, Held, FALSE)
  BY <1>1, <1>2, KeptGood, CleanupGood
<1>4. Taken' = Taken
  BY DEF Taken
<1>5. error' = "NONE" /\ closed' /\ current' = "connect"
  BY DEF SetStateInitial
<1>6. Custody'
  BY <1>3, <1>4, <1>5 DEF Custody
<1>7. LosesConnection
  BY <1>3, <1>4, <1>5 DEF LosesConnection, FlushesIf
<1> QED BY <1>5, <1>6, <1>7 DEF RequestStep

LEMMA CallBackLemma ==
  ASSUME NEW e, CallBack(e)
  PROVE  /\ rx_value' = NoEntry \/ (rx_value' = e /\ closed'
                                      /\ CallbacksMayFail)
         /\ error' \in {error, "NONE", "FAILED"}
BY ChoicesAssumption DEF CallBack, SetStateFailed, state, Results

(* The packet that answers e is complete, and s is the current store       *)
(* without e, which came from there or from the decoder.                   *)
LEMMA FinishCustody ==
  ASSUME SafeInv, Custody, TypeOK', ~closed, NEW e \in Entries, NEW s,
         Finish(e, s), UNCHANGED <<connect_clean, accepted>>,
         GoodStore(s, accepted, received), WellFormed(s, Entries),
         GoodEntry(e, accepted, {}),
         RequestsIn(s) = RequestsIn(CurrentStore) \ RequestOf(e),
         RequestOf(e) \subseteq RequestsIn(CurrentStore) \cup Taken,
         RequestOf(e) \cap Held \subseteq RequestsIn(CurrentStore),
         Taken \subseteq RequestOf(e),
         e.kind = "PUBLISH_2" => Taken = {},
         current = "connect" <=> e.kind = "CONNECT"
  PROVE  Custody' /\ RequestStep
<1>1. /\ error # "CLOSED" /\ accepted \in Nat
      /\ Held \cap Taken = {} /\ received \subseteq 1 .. accepted
      /\ RequestsIn(CurrentStore) \subseteq Held
  BY CurrentGood DEF Custody
<1>2. /\ NoEntry.val = None /\ RequestOf(NoEntry) = {}
  BY DEF NoEntry, RequestOf
<1>3. current \in {"connect", "main"}
  BY DEF SafeInv, TypeOK
<1>4. CASE e.kind = "CONNECT"
  <2>1. e.val = None /\ RequestOf(e) = {} /\ Taken = {}
    BY <1>4, ValueType DEF GoodEntry, RequestCarriers, RequestKinds
  <2>2. /\ clean_session' = connect_clean /\ SetStateConnected(connect_clean)
        /\ CallBack(e) /\ acked' = acked /\ received' = received
    BY <1>4 DEF Finish
  <2>3. /\ CleanupStores(~connect_clean, TRUE, UnmarkAll(KeptStore), calls)
        /\ current' = "main"
    BY <2>2 DEF SetStateConnected
  <2>4. (~connect_clean) \in BOOLEAN
    BY DEF SafeInv, TypeOK
  <2>5. /\ GoodStore(main_store, accepted, received)'
        /\ RequestsIn(connect_store)' = {}
        /\ IF ~connect_clean
             THEN Held' = Held /\ calls' = calls
             ELSE Held' = {} /\ calls' = Reported(calls, Held, TRUE)
    BY <2>2, <2>3, <2>4, KeptGood, CleanupGood
  <2>6. rx_value'.val = None /\ Taken' = {} /\ error' # "CLOSED"
    BY <1>1, <1>2, <2>1, <2>2, CallBackLemma DEF Taken
  <2>7. Custody'
    BY <1>1, <2>2, <2>5, <2>6 DEF Custody, None
  <2>8. GetsConnack
    BY <1>4, <2>1, <2>2, <2>3, <2>5, <2>6 DEF GetsConnack, FlushesIf
  <2> QED BY <1>1, <2>6, <2>7, <2>8 DEF RequestStep
<1>5. CASE e.kind = "PUBLISH_2"
  <2> DEFINE p == PubrelFor(e)
             t == Appended(s, p)
  <2>1. current = "main" /\ CurrentStore = main_store /\ Taken = {}
    BY <1>3, <1>5 DEF CurrentStore
  <2>2. /\ UpdateCurrent(t) /\ rx_value' = NoEntry
        /\ received' = received \cup RequestOf(e)
        /\ UNCHANGED <<state, current, clean_session, id_set, calls, acked>>
    BY <1>5 DEF Finish
  <2>3. /\ p \in Entries /\ p.val = e.val /\ p.kind = "PUBREL"
        /\ RequestOf(p) = RequestOf(e)
    BY DEF PubrelFor, Entry, Entries, Kinds, RequestOf
  <2> HIDE DEF p
  <2>4. RequestOf(e) \subseteq 1 .. accepted /\ None \notin RequestOf(e)
    BY <1>1, ValueType DEF GoodEntry, RequestOf, Requests
  <2>5. received' \subseteq 1 .. accepted
    BY <1>1, <2>2, <2>4
  <2>6. GoodStore(s, accepted, received')
    BY <1>1, <2>2, <2>4, LaterGood
  <2>7. e.val \notin RequestsIn(s)
    BY DEF RequestOf, RequestsIn
  <2>8. GoodEntry(p, accepted, received')
    BY <2>3 DEF GoodEntry, RequestCarriers
  <2>9. /\ GoodStore(t, accepted, received')
        /\ RequestsIn(t) = RequestsIn(s) \cup RequestOf(e)
    BY <2>3, <2>6, <2>7, <2>8, AppendedGood DEF RequestKinds
  <2> HIDE DEF t
  <2>10. main_store' = t /\ connect_store' = connect_store
    BY <2>1, <2>2 DEF UpdateCurrent
  <2>11. Held' = Held /\ Taken' = {}
    BY <1>2, <2>1, <2>2, <2>9, <2>10 DEF Held, Taken
  <2>12. Custody'
    BY <1>1, <1>2, <2>2, <2>5, <2>9, <2>10, <2>11
       DEF Custody, None, state
  <2>13. KeepsRequests
    BY <2>1, <2>2, <2>11 DEF KeepsRequests, Flags, state
  <2> QED BY <1>1, <2>2, <2>12, <2>13 DEF RequestStep, state
<1>6. CASE e.kind \notin {"CONNECT", "PUBLISH_2"}
  <2>1. /\ UpdateCurrent(s) /\ CallBack(e)
        /\ calls' = Reported(calls, RequestOf(e), TRUE)
        /\ acked' = acked \cup RequestOf(e)
        /\ UNCHANGED <<accepted, received, Flags>>
    BY <1>6 DEF Finish, Flags
  <2>2. error' # "CLOSED"
    BY <1>1, <2>1, CallBackLemma
  <2>3. \/ rx_value' = NoEntry
        \/ rx_value' = e /\ CallbacksMayFail /\ closed'
    BY <2>1, CallBackLemma
  <2>4. RequestOf(e) \subseteq Held \cup Taken
    BY <1>1
  <2> QED BY <2>1, <2>2, <2>3, <2>4, SucceedsLemma
<1> QED BY <1>4, <1>5, <1>6

LEMMA InitCustody == Init => Custody
<1> SUFFICES ASSUME Init PROVE Custody
  OBVIOUS
<1>1. /\ GoodStore(main_store, accepted, received) /\ Held = {}
      /\ RequestsIn(connect_store) = {}
  BY EmptyStoreGood DEF Init, Held
<1> QED BY <1>1 DEF Init, Custody, NoEntry, None

(* The entry that a response answers and what it leaves in the store.      *)
LEMMA AnsweredGood ==
  ASSUME SafeInv, Custody, NEW kind, NEW id,
         Matching(CurrentStore, kind, id) # {}
  PROVE  LET e == CurrentStore.entries[Found(CurrentStore, kind, id)]
             s == PopMarkedBy(CurrentStore, kind, id) IN
         /\ e \in Entries /\ e.kind = kind
         /\ GoodEntry(e, accepted, received) /\ GoodEntry(e, accepted, {})
         /\ GoodStore(s, accepted, received) /\ WellFormed(s, Entries)
         /\ RequestsIn(s) = RequestsIn(CurrentStore) \ RequestOf(e)
         /\ RequestOf(e) \subseteq RequestsIn(CurrentStore)
<1> DEFINE i == Found(CurrentStore, kind, id)
<1>1. /\ GoodStore(CurrentStore, accepted, received)
      /\ WellFormed(CurrentStore, Entries)
  BY CurrentGood
<1>2. /\ i \in 1 .. Count(CurrentStore)
      /\ CurrentStore.entries[i] \in Entries
      /\ CurrentStore.entries[i].kind = kind
  BY <1>1, FoundLemma
<1>3. GoodEntry(CurrentStore.entries[i], accepted, received)
  BY <1>1, <1>2 DEF GoodStore
<1>4. GoodEntry(CurrentStore.entries[i], accepted, {})
  BY <1>3 DEF GoodEntry
<1>5. WellFormed(PopAt(CurrentStore, i), Entries)
  BY <1>1, <1>2, PopAtLemma
<1>6. /\ GoodStore(PopAt(CurrentStore, i), accepted, received)
      /\ RequestsIn(PopAt(CurrentStore, i)) =
           RequestsIn(CurrentStore) \ RequestOf(CurrentStore.entries[i])
      /\ RequestOf(CurrentStore.entries[i]) \subseteq RequestsIn(CurrentStore)
  BY <1>1, <1>2, PopAtGood
<1> HIDE DEF i
<1> QED BY <1>2, <1>3, <1>4, <1>5, <1>6 DEF PopMarkedBy, i

(* Every step keeps Custody, and is a RequestStep.                         *)
LEMMA NextCustody ==
  ASSUME SafeInv, Custody, [Next]_vars
  PROVE  Custody' /\ (RequestStep \/ UNCHANGED vars)
<1> USE DEF state, stores, session, txs, history
<1>a. /\ TypeOK /\ TypeOK' /\ SafeInv'
      /\ accepted \in Nat /\ current \in {"connect", "main"}
      /\ rx_value \in Entries \cup {NoEntry}
      /\ rx_value' \in Entries \cup {NoEntry}
  BY NextType, NextSafe, CurrentGood DEF SafeInv, TypeOK
<1>b. /\ ~closed => error # "CLOSED"
      /\ connect_enabled \/ requests_enabled => error # "CLOSED"
  BY DEF Custody
<1>c. RequestOf(NoEntry) = {} /\ NoEntry.val = None
  BY DEF RequestOf, NoEntry
<1>0. CASE UNCHANGED vars
  <2>1. Custody'
    BY <1>0 DEF vars, Custody, Held, Taken, GoodStore, Count, RequestsIn
  <2> QED BY <1>0, <2>1
<1>1. ASSUME NEW clean \in CleanSessions, Connect(clean)
      PROVE  Custody' /\ RequestStep
  <2>1. /\ connect_store' = Appended(connect_store, Entry("CONNECT", 0, None))
        /\ connect_clean' = clean /\ rx_value' = NoEntry
        /\ closed' = FALSE /\ error' = "NONE" /\ connect_enabled
        /\ UNCHANGED <<clean_session, current, main_store, accepted, calls,
                       acked, received>>
    BY <1>1 DEF Connect, SetStateConnecting
  <2>2. closed /\ current = "connect"
    BY <2>1 DEF SafeInv, ConnectPhase
  <2> DEFINE e == Entry("CONNECT", 0, None)
  <2>3. e \in Entries /\ e.val = None /\ RequestOf(e) = {}
    BY SizeFacts, EntryType DEF Kinds, Entry, RequestOf
  <2>4. WellFormed(connect_store, Entries)
    BY <1>a DEF TypeOK, IsStore
  <2> HIDE DEF e
  <2>5. RequestsIn(Appended(connect_store, e)) = {}
    <3>1. /\ Count(Appended(connect_store, e)) = Count(connect_store) + 1
          /\ \A j \in 1 .. Count(connect_store) :
               Appended(connect_store, e).entries[j] =
                 connect_store.entries[j]
          /\ Appended(connect_store, e).entries[Count(connect_store) + 1] = e
          /\ Count(connect_store) \in Nat
      BY <2>3, <2>4, AppendedLemma, StoreEntries
    <3>2. \A j \in 1 .. Count(connect_store) :
            connect_store.entries[j].val = None
      BY RequestsInStore DEF Custody
    <3>3. \A j \in 1 .. Count(Appended(connect_store, e)) :
            Appended(connect_store, e).entries[j].val = None
      BY <2>3, <3>1, <3>2
    <3> QED BY <3>3 DEF RequestsIn
  <2>6. Held' = Held /\ Taken' = {}
    BY <1>c, <2>1 DEF Held, Taken
  <2>7. Custody'
    BY <1>a, <1>c, <2>1, <2>5, <2>6 DEF Custody, e, None
  <2>8. Reconnects
    BY <1>1, <2>1, <2>2, <2>6 DEF Reconnects
  <2> QED BY <1>b, <2>1, <2>7, <2>8 DEF RequestStep
<1>2. ASSUME NEW kind \in RequestKinds, Request(kind)
      PROVE  Custody' /\ RequestStep
  <2>1. /\ requests_enabled /\ current = "main" /\ error # "CLOSED"
        /\ accepted < NumRequests
        /\ UNCHANGED <<state, Flags, rx_value, connect_store, calls, acked,
                       received>>
    BY <1>2, <1>b DEF Request, SafeInv, ConnectPhase, Flags
  <2>2. CASE ~IsQueueable(main_store, Capacity)
    BY <1>2, <2>1, <2>2, QuietLemma DEF Request
  <2>3. CASE IsQueueable(main_store, Capacity)
    <3> DEFINE n == accepted + 1
               e == Entry(kind, IF TakesId(kind) THEN next_packet_id ELSE 0, n)
    <3>1. main_store' = Appended(main_store, e) /\ accepted' = n
      BY <1>2, <2>3 DEF Request
    <3>2. n \in Requests /\ n \in Nat /\ accepted <= n /\ n # None
      BY <1>a, <2>1, SizeFacts DEF Requests, None
    <3>3. /\ e \in Entries /\ e.val = n /\ e.kind = kind
          /\ RequestOf(e) = {n}
      BY <1>a, <3>2, SizeFacts, EntryType
         DEF TypeOK, RequestKinds, Kinds, Entry, RequestOf
    <3> HIDE DEF e
    <3>4. WellFormed(main_store, Entries)
      BY SafeShapes
    <3>5. GoodStore(main_store, accepted, received)
      BY DEF Custody
    <3>6. \A i \in 1 .. Count(main_store) : main_store.entries[i].val < n
      BY <1>a, <3>4, <3>5, StoreEntries, ValueType DEF GoodStore, GoodEntry
    <3>7. GoodStore(main_store, n, received)
      <4>1. None \notin {} /\ {} \cap RequestsIn(main_store) = {}
        OBVIOUS
      <4>2. received \cup {} = received
        OBVIOUS
      <4> HIDE DEF n
      <4>3. GoodStore(main_store, n, received \cup {})
        BY <1>a, <3>2, <3>4, <3>5, <4>1, LaterGood
      <4> QED BY <4>2, <4>3
    <3>8. GoodEntry(e, n, received) /\ n \notin RequestsIn(main_store)
      <4>1. n \notin received
        BY <1>a DEF Custody
      <4>2. n \notin RequestsIn(main_store)
        BY <1>a, <3>6, <3>4, StoreEntries, ValueType, RequestsInStore
      <4> QED BY <3>2, <3>3, <4>1, <4>2 DEF GoodEntry, RequestCarriers
    <3>9. /\ GoodStore(main_store', n, received)
          /\ RequestsIn(main_store') = Held \cup {n}
      BY <3>1, <3>3, <3>4, <3>6, <3>7, <3>8, AppendedGood DEF Held
    <3>10. rx_value.val <= n /\ n \notin Taken
      BY <1>a, ValueType DEF Custody, Taken
    <3>11. Held' = Held \cup {n} /\ Taken' = Taken
      BY <2>1, <3>9 DEF Held, Taken
    <3>12. received \subseteq 1 .. n
      BY <1>a DEF Custody
    <3> HIDE DEF n
    <3>13. Custody'
      BY <2>1, <3>1, <3>9, <3>10, <3>11, <3>12 DEF Custody
    <3>14. AcceptsRequest
      BY <2>1, <3>1, <3>11 DEF AcceptsRequest, n
    <3> QED BY <2>1, <3>13, <3>14 DEF RequestStep
  <2> QED BY <2>2, <2>3
<1>3. CASE Disconnect
  <2>1. /\ current = "main" /\ CurrentStore = main_store /\ error # "CLOSED"
    BY <1>3, <1>b DEF Disconnect, SafeInv, ConnectPhase, CurrentStore
  <2>2. /\ Entry("DISCONNECT", 0, None) \in Entries
        /\ Entry("DISCONNECT", 0, None).val = None
        /\ Entry("DISCONNECT", 0, None).kind \notin RequestKinds
    BY SizeFacts, EntryType DEF Kinds, Entry, RequestKinds
  <2>3. UpdateCurrent(Appended(CurrentStore, Entry("DISCONNECT", 0, None)))
    BY <1>3, <2>1 DEF Disconnect, UpdateCurrent
  <2> QED BY <1>3, <2>1, <2>2, <2>3, AddedKeeps DEF Disconnect, Flags
<1>4. CASE Reset
  BY <1>4, InitialCustody DEF Reset
<1>5. CASE Finalize
  <2>1. /\ error # "CLOSED" /\ error' = "CLOSED" /\ closed' = TRUE
        /\ ~connect_enabled' /\ ~requests_enabled'
        /\ UNCHANGED <<Flags, rx_value, accepted, acked, received>>
        /\ CleanupStores(FALSE, FALSE, main_store,
                         Reported(calls, RequestOf(rx_value), FALSE))
    BY <1>5 DEF Finalize, SetStateFailed, Flags
  <2>2. GoodStore(main_store, accepted, received)
    BY DEF Custody
  <2>3. /\ GoodStore(main_store, accepted, received)'
        /\ RequestsIn(connect_store)' = {} /\ Held' = {}
        /\ calls' = Reported(Reported(calls, Taken, FALSE), Held, FALSE)
    BY <2>1, <2>2, CleanupGood DEF Held, Taken
  <2>4. Taken' = Taken
    BY <2>1 DEF Taken
  <2>5. Custody'
    BY <2>1, <2>3, <2>4 DEF Custody
  <2>6. FinalizesAll
    BY <2>1, <2>3, <2>4 DEF FinalizesAll
  <2> QED BY <2>1, <2>5, <2>6 DEF RequestStep
<1>6. CASE EncodePart
  BY <1>6, <1>b, QuietLemma DEF EncodePart, Encoding, Running, Flags
<1>7. CASE Encode
  <2> DEFINE e == Current(CurrentStore)
             s == IF ExpectsResponse(e.kind) THEN MarkCurrent(CurrentStore)
                                             ELSE DropCurrent(CurrentStore)
  <2>1. /\ ~closed /\ error # "CLOSED" /\ HasCurrent(CurrentStore)
        /\ UpdateCurrent(s)
        /\ UNCHANGED <<Flags, rx_value, accepted, received>>
    BY <1>7, <1>b DEF Encode, Encoding, Running, Flags
  <2>2. /\ GoodStore(CurrentStore, accepted, received)
        /\ WellFormed(CurrentStore, Entries)
        /\ CurrentStore.pos + 1 \in 1 .. Count(CurrentStore)
        /\ e \in Entries /\ RequestsIn(CurrentStore) \subseteq Held
    BY <2>1, CurrentGood, SafeShapes, MarkCurrentLemma DEF HasCurrent
  <2>3. GoodEntry(e, accepted, received)
    BY <2>2 DEF GoodStore, Current
  <2>4. /\ error' # "CLOSED"
        /\ IF e.kind = "PUBLISH_0"
             THEN /\ calls' = Reported(calls, RequestOf(e), TRUE)
                  /\ acked' = acked \cup RequestOf(e)
             ELSE UNCHANGED <<calls, acked>>
    BY <1>7, <2>1 DEF Encode, SetStateFailed
  <2>5. CASE ExpectsResponse(e.kind)
    <3>1. /\ GoodStore(s, accepted, received)
          /\ RequestsIn(s) = RequestsIn(CurrentStore)
      BY <2>1, <2>2, <2>5, MarkCurrentLemma, SameEntriesGood
    <3>2. UNCHANGED <<calls, acked>>
      BY <2>4, <2>5 DEF ExpectsResponse
    <3> HIDE DEF e, s
    <3> QED BY <1>a, <2>1, <2>4, <3>1, <3>2, KeepsLemma
  <2>6. CASE ~ExpectsResponse(e.kind)
    <3>1. s = PopAt(CurrentStore, CurrentStore.pos + 1)
      BY <2>6 DEF DropCurrent
    <3>2. /\ GoodStore(s, accepted, received)
          /\ RequestsIn(s) = RequestsIn(CurrentStore) \ RequestOf(e)
          /\ RequestOf(e) \subseteq RequestsIn(CurrentStore)
      BY <2>2, <3>1, PopAtGood DEF Current
    <3>3. CASE e.kind = "PUBLISH_0"
      <4>1. GoodEntry(e, accepted, {})
        BY <2>3 DEF GoodEntry
      <4>2. RequestOf(e) \cap Taken = {}
        BY <2>2, <3>2 DEF Custody
      <4>3. RequestOf(e) \subseteq Held \cup Taken
        BY <2>2, <3>2
      <4>4. /\ calls' = Reported(calls, RequestOf(e), TRUE)
            /\ acked' = acked \cup RequestOf(e)
        BY <2>4, <3>3
      <4> HIDE DEF e, s
      <4> QED BY <2>1, <2>2, <2>4, <3>2, <4>1, <4>2, <4>3, <4>4,
                 SucceedsLemma
    <3>4. CASE e.kind # "PUBLISH_0"
      <4>1. e.kind \notin RequestCarriers
        BY <2>6, <3>4 DEF ExpectsResponse, RequestCarriers, RequestKinds
      <4>2. RequestOf(e) = {}
        BY <2>3, <4>1 DEF GoodEntry, RequestOf
      <4>3. UNCHANGED <<calls, acked>>
        BY <2>4, <3>4
      <4>4. RequestsIn(s) = RequestsIn(CurrentStore)
        BY <3>2, <4>2
      <4> HIDE DEF e, s
      <4> QED BY <1>a, <2>1, <2>4, <3>2, <4>3, <4>4, KeepsLemma
    <3> QED BY <3>3, <3>4
  <2> QED BY <2>5, <2>6
<1>8. CASE write_buf # <<>> /\ Write(Head(write_buf))
  BY <1>8, <1>b, QuietLemma DEF Write, Flags
<1>9. ASSUME NEW kind \in ResponseKinds, NEW id \in Ids, Respond(kind, id)
      PROVE  Custody' /\ RequestStep
  <2> DEFINE e == CurrentStore.entries[Found(CurrentStore, kind, id)]
             s == PopMarkedBy(CurrentStore, kind, id)
  <2>1. /\ Running /\ ~closed /\ rx_value = NoEntry
        /\ Matching(CurrentStore, kind, id) # {} /\ Finish(e, s)
        /\ UNCHANGED <<connect_clean, accepted>>
    BY <1>9 DEF Respond, Receiving, Running
  <2>2. /\ e \in Entries /\ e.kind = kind
        /\ GoodEntry(e, accepted, {})
        /\ GoodStore(s, accepted, received) /\ WellFormed(s, Entries)
        /\ RequestsIn(s) = RequestsIn(CurrentStore) \ RequestOf(e)
        /\ RequestOf(e) \subseteq RequestsIn(CurrentStore)
    BY <2>1, AnsweredGood
  <2>3. current = "connect" <=> kind = "CONNECT"
    BY <1>a, <2>1, PopMarkedByPhase
  <2>4. Taken = {}
    BY <1>c, <2>1 DEF Taken
  <2> HIDE DEF e, s
  <2> QED BY <1>a, <2>1, <2>2, <2>3, <2>4, FinishCustody
<1>10. ASSUME NEW kind \in ResponseKinds, NEW id \in Ids,
              BeginResponse(kind, id)
       PROVE  Custody' /\ RequestStep
  <2> DEFINE e == CurrentStore.entries[Found(CurrentStore, kind, id)]
             s == PopMarkedBy(CurrentStore, kind, id)
  <2>1. /\ kind \in SplitKinds /\ ~closed /\ rx_value = NoEntry
        /\ Matching(CurrentStore, kind, id) # {}
        /\ rx_value' = e /\ UpdateCurrent(s)
        /\ UNCHANGED <<state, Flags, accepted, calls, acked, received>>
    BY <1>10 DEF BeginResponse, Receiving, Running, Flags
  <2>2. /\ e \in Entries /\ e.kind = kind
        /\ GoodEntry(e, accepted, received)
        /\ GoodStore(s, accepted, received)
        /\ RequestsIn(s) = RequestsIn(CurrentStore) \ RequestOf(e)
        /\ RequestOf(e) \subseteq RequestsIn(CurrentStore)
    BY <2>1, AnsweredGood
  <2> HIDE DEF e, s
  <2>3. /\ Taken = {} /\ error # "CLOSED" /\ error' # "CLOSED"
    BY <1>b, <1>c, <2>1 DEF Taken
  <2>4. CASE e.val = None
    <3>1. RequestOf(e) = {}
      BY <2>4 DEF RequestOf
    <3> QED BY <1>a, <2>1, <2>2, <2>3, <3>1, KeepsLemma
  <2>5. CASE e.val # None
    <3>1. RequestOf(e) = {e.val} /\ e.val \in Requests
      BY <2>2, <2>5, ValueType
    <3>2. e.val \in Held
      BY <2>2, <3>1, CurrentGood
    <3>3. /\ GoodStore(main_store, accepted, received)'
          /\ RequestsIn(connect_store)' = {}
          /\ Held' = Held \ (RequestsIn(CurrentStore) \ RequestsIn(s))
      BY <2>1, <2>2, UpdateGood
    <3>4. Held' = Held \ {e.val} /\ Taken' = {e.val}
      BY <2>1, <2>2, <3>1, <3>3 DEF Taken
    <3>5. kind \in RequestCarriers /\ e.val <= accepted
      BY <2>2, <2>5 DEF GoodEntry
    <3>6. Custody'
      BY <2>1, <2>2, <3>3, <3>4, <3>5 DEF Custody
    <3>7. TakesRequest(e.val)
      BY <2>1, <2>3, <3>2, <3>4, <3>5 DEF TakesRequest
    <3> QED BY <2>3, <3>1, <3>6, <3>7 DEF RequestStep
  <2> QED BY <2>4, <2>5
<1>11. ASSUME SetStateFailed("FAILED") \/ SetStateFailed("TIMEOUT"), ~closed,
              UNCHANGED <<stores, session, txs, history, current, rx_value>>
       PROVE  Custody' /\ RequestStep
  BY <1>11, <1>b, QuietLemma DEF SetStateFailed, Flags
<1>12. ASSUME NEW kind \in ResponseKinds, NEW id \in Ids, Unexpected(kind, id)
       PROVE  Custody' /\ RequestStep
  BY <1>11, <1>12 DEF Unexpected, Fail
<1>13. CASE FinishResponse
  <2>1. /\ Running /\ ~closed /\ Finish(rx_value, CurrentStore)
        /\ rx_value.kind \in {"CONNECT", "SUBSCRIBE"}
        /\ UNCHANGED <<connect_clean, accepted>>
    BY <1>13 DEF FinishResponse, Running
  <2>2. rx_value \in Entries
    BY <1>a, <2>1 DEF NoEntry
  <2>3. PhaseOK(CurrentStore, rx_value, tx_value)
    BY <2>1, PhaseNow
  <2>4. current = "connect" <=> rx_value.kind = "CONNECT"
    BY <1>a, <2>1, <2>3 DEF PhaseOK
  <2>5. /\ GoodStore(CurrentStore, accepted, received)
        /\ WellFormed(CurrentStore, Entries)
        /\ RequestsIn(CurrentStore) \subseteq Held
    BY CurrentGood
  <2>6. RequestOf(rx_value) = Taken /\ Held \cap Taken = {}
    BY DEF Taken, Custody
  <2>7. GoodEntry(rx_value, accepted, {})
    BY DEF Custody, GoodEntry
  <2> QED BY <1>a, <2>1, <2>2, <2>4, <2>5, <2>6, <2>7, FinishCustody
<1>14. ASSUME NEW id \in InboundIds,
              NEW kind \in {"PUBACK", "PUBREC", "PUBCOMP"},
              ~closed,
              \/ UpdateCurrent(CurrentStore)
              \/ UpdateCurrent(Acknowledged(kind, id)),
              UNCHANGED <<Flags, history, rx_value>>,
              UNCHANGED state \/ SetStateFailed("FAILED")
       PROVE  Custody' /\ RequestStep
  <2>1. error # "CLOSED" /\ error' # "CLOSED"
    BY <1>14, <1>b DEF SetStateFailed
  <2>2. CASE UpdateCurrent(CurrentStore)
    <3>1. GoodStore(CurrentStore, accepted, received)
      BY CurrentGood
    <3> QED BY <1>a, <1>14, <2>1, <2>2, <3>1, KeepsLemma
  <2>3. CASE UpdateCurrent(Appended(CurrentStore, Entry(kind, id, None)))
    <3>1. /\ Entry(kind, id, None) \in Entries
          /\ Entry(kind, id, None).val = None
          /\ Entry(kind, id, None).kind \notin RequestKinds
      BY EntryType DEF Kinds, Entry, RequestKinds
    <3> QED BY <1>14, <2>1, <2>3, <3>1, AddedKeeps
  <2> QED BY <1>14, <2>2, <2>3 DEF Acknowledged
<1>15. ASSUME NEW qos \in 0 .. 2, NEW id \in InboundIds, NEW ok \in Results,
              ReceivePublish(qos, id, ok)
       PROVE  Custody' /\ RequestStep
  <2>1. \/ UpdateCurrent(CurrentStore)
        \/ UpdateCurrent(Acknowledged("PUBACK", id))
        \/ UpdateCurrent(Acknowledged("PUBREC", id))
    BY <1>15 DEF ReceivePublish, Answered
  <2>2. /\ ~closed /\ UNCHANGED <<Flags, history, rx_value>>
        /\ UNCHANGED state \/ SetStateFailed("FAILED")
    BY <1>15 DEF ReceivePublish, Receiving, Running, Flags
  <2> QED BY <1>14, <2>1, <2>2
<1>16. ASSUME NEW id \in InboundIds, ReceivePubrel(id)
       PROVE  Custody' /\ RequestStep
  <2>1. /\ ~closed /\ UNCHANGED <<Flags, history, rx_value>>
        /\ UNCHANGED state \/ SetStateFailed("FAILED")
        /\ UpdateCurrent(Acknowledged("PUBCOMP", id))
    BY <1>16 DEF ReceivePubrel, Receiving, Running, Flags
  <2> QED BY <1>14, <2>1
<1>17. CASE Timeout
  BY <1>11, <1>17 DEF Timeout, Running
<1>18. CASE Pingreq
  <2>1. /\ Entry("PINGREQ", 0, None) \in Entries
        /\ Entry("PINGREQ", 0, None).val = None
        /\ Entry("PINGREQ", 0, None).kind \notin RequestKinds
    BY SizeFacts, EntryType DEF Kinds, Entry, RequestKinds
  <2>2. /\ UpdateCurrent(Appended(CurrentStore, Entry("PINGREQ", 0, None)))
        /\ ~closed
    BY <1>18 DEF Pingreq, UpdateCurrent, CurrentStore, Running
  <2> QED BY <1>18, <1>b, <2>1, <2>2, AddedKeeps DEF Pingreq, Flags
<1>19. CASE Eof
  BY <1>19, <1>b, InitialCustody DEF Eof
<1>20. CASE Fail
  BY <1>11, <1>20 DEF Fail
<1> QED BY <1>0, <1>1, <1>2, <1>3, <1>4, <1>5, <1>6, <1>7, <1>8, <1>9, <1>10,
           <1>12, <1>13, <1>15, <1>16, <1>17, <1>18, <1>19, <1>20
        DEF Next, Application, Output, Input, KeepAlive

-----------------------------------------------------------------------------
(* No request is held whose callback has been called; what the decoder     *)
(* holds may have been reported only by a callback that returned 0, which  *)
(* closes the client.  While no response to a request arrives in parts,    *)
(* nothing but the store holds a request that is still pending.            *)
NoSplit == SplitKinds \cap RequestCarriers = {}

HeldUnreported == \A r \in Held : calls[r] = <<>>
NewUnreported == \A r \in Requests : r > accepted => calls[r] = <<>>
TakenUnreported == \A r \in Taken : calls[r] = <<>>
ReportedAtMostOnce ==
  /\ CalledOnce
  /\ error # "CLOSED" => TakenUnreported
PendingIsHeld ==
  /\ \A r \in Taken : calls[r] # <<>>
  /\ \A r \in Requests : Pending(r) => r \in Held

Ledger ==
  /\ HeldUnreported /\ NewUnreported
  /\ ~closed => TakenUnreported
  /\ error = "CLOSED" => Held = {}
  /\ ~CallbacksMayFail => ReportedAtMostOnce
  /\ NoSplit => PendingIsHeld

(* The steps that report requests, whatever they say of them.              *)
Reports(c, d, rs) ==
  \A r \in Requests :
    IF r \in rs THEN d[r] # <<>> /\ Len(d[r]) = Len(c[r]) + 1
                ELSE d[r] = c[r]

LEMMA ReportedAt ==
  ASSUME NEW c \in [Requests -> Seq(BOOLEAN)], NEW rs, NEW b \in BOOLEAN,
         NEW r \in Requests
  PROVE  /\ Reported(c, rs, b)[r] = IF r \in rs THEN Append(c[r], b) ELSE c[r]
         /\ Len(c[r]) \in Nat
         /\ Len(Append(c[r], b)) = Len(c[r]) + 1
         /\ Append(c[r], b) # <<>>
         /\ Append(c[r], b)[Len(c[r]) + 1] = b
         /\ \A k \in 1 .. Len(c[r]) : Append(c[r], b)[k] = c[r][k]
<1>1. c[r] \in Seq(BOOLEAN)
  OBVIOUS
<1>2. Reported(c, rs, b)[r] = IF r \in rs THEN Append(c[r], b) ELSE c[r]
  BY DEF Reported
<1> HIDE DEF Reported
<1>3. /\ Len(c[r]) \in Nat
      /\ Len(Append(c[r], b)) = Len(c[r]) + 1
      /\ Append(c[r], b)[Len(c[r]) + 1] = b
      /\ \A k \in 1 .. Len(c[r]) : Append(c[r], b)[k] = c[r][k]
  BY <1>1, AppendProperties, LenProperties
<1>4. Append(c[r], b) # <<>>
  BY <1>3
<1> QED BY <1>2, <1>3, <1>4

LEMMA ReportedReports ==
  ASSUME NEW c \in [Requests -> Seq(BOOLEAN)], NEW rs, NEW b \in BOOLEAN
  PROVE  Reports(c, Reported(c, rs, b), rs)
<1> SUFFICES ASSUME NEW r \in Requests
             PROVE  IF r \in rs
                      THEN /\ Reported(c, rs, b)[r] # <<>>
                           /\ Len(Reported(c, rs, b)[r]) = Len(c[r]) + 1
                      ELSE Reported(c, rs, b)[r] = c[r]
  BY Zenon DEF Reports
<1>1. /\ Reported(c, rs, b)[r] = IF r \in rs THEN Append(c[r], b) ELSE c[r]
      /\ Len(Append(c[r], b)) = Len(c[r]) + 1
      /\ Append(c[r], b) # <<>>
  BY ReportedAt
<1> QED BY <1>1, Zenon

(* finalize reports what the decoder holds, then what the store holds.     *)
LEMMA ReportedTwice ==
  ASSUME NEW c \in [Requests -> Seq(BOOLEAN)], NEW rs, NEW qs,
         NEW b \in BOOLEAN,
         rs \cap qs = {}
  PROVE  Reports(c, Reported(Reported(c, rs, b), qs, b), rs \cup qs)
<1> DEFINE d == Reported(c, rs, b)
<1>1. d \in [Requests -> Seq(BOOLEAN)]
  BY ReportedType
<1>2. Reports(c, d, rs)
  BY ReportedReports
<1> HIDE DEF d
<1>3. Reports(d, Reported(d, qs, b), qs)
  BY <1>1, ReportedReports
<1>4. Reports(c, Reported(d, qs, b), rs \cup qs)
  BY <1>2, <1>3 DEF Reports
<1> QED BY <1>4 DEF d

LEMMA RequestSets ==
  ASSUME SafeInv, Custody
  PROVE  /\ Held \subseteq 1 .. accepted /\ Taken \subseteq 1 .. accepted
         /\ Held \subseteq Requests /\ Taken \subseteq Requests
         /\ Held \cap Taken = {} /\ accepted \in Nat
         /\ Taken \subseteq {rx_value.val}
         /\ calls \in [Requests -> Seq(BOOLEAN)]
<1>1. /\ WellFormed(main_store, Entries) /\ accepted \in 0 .. NumRequests
      /\ rx_value \in Entries \cup {NoEntry}
      /\ calls \in [Requests -> Seq(BOOLEAN)]
  BY SafeShapes DEF TypeOK
<1>2. accepted \in Nat /\ 1 .. accepted \subseteq Requests
  BY <1>1, SizeFacts DEF Requests
<1>3. ASSUME NEW r \in Held PROVE r \in 1 .. accepted
  <2>1. PICK i \in 1 .. Count(main_store) :
          r # None /\ main_store.entries[i].val = r
    BY RequestsInStore DEF Held
  <2>2. r \in Nat /\ r <= accepted
    BY <1>1, <2>1, StoreEntries, ValueType DEF Custody, GoodStore, GoodEntry
  <2> QED BY <1>2, <2>1, <2>2 DEF None
<1>4. Taken \subseteq 1 .. accepted /\ Taken \subseteq {rx_value.val}
  BY <1>1, <1>2, ValueType DEF Custody, Taken, RequestOf, None
<1> QED BY <1>1, <1>2, <1>3, <1>4 DEF Custody

(* Requests that are reported leave the store, and the decoder unless      *)
(* their callback failed.                                                  *)
LEMMA NextLedger ==
  ASSUME SafeInv, Custody, SafeInv', Custody', Ledger, RequestStep
  PROVE  Ledger'
<1>1. /\ Held \subseteq 1 .. accepted /\ Taken \subseteq 1 .. accepted
      /\ Held \subseteq Requests /\ Taken \subseteq Requests
      /\ Held \cap Taken = {} /\ accepted \in Nat
      /\ calls \in [Requests -> Seq(BOOLEAN)]
  BY RequestSets
<1>2. /\ calls' \in [Requests -> Seq(BOOLEAN)]
      /\ Len(<<>>) = 0 /\ \A r \in Requests : Len(calls[r]) \in Nat
  BY <1>1, LenProperties DEF SafeInv, TypeOK
<1>3. error # "CLOSED" /\ (error' = "CLOSED" => FinalizesAll)
  BY DEF RequestStep
<1> USE DEF Pending, CalledOnce, HeldUnreported, NewUnreported,
            TakenUnreported, ReportedAtMostOnce, PendingIsHeld
<1>4. CASE error' # "CLOSED" /\ KeepsRequests
  BY <1>1, <1>3, <1>4 DEF KeepsRequests, Ledger
<1>5. CASE error' # "CLOSED" /\ AcceptsRequest
  <2>1. accepted' = accepted + 1 /\ Held' = Held \cup {accepted + 1}
        /\ Taken' = Taken /\ calls' = calls /\ closed' = closed
    BY <1>5 DEF AcceptsRequest
  <2>2. accepted + 1 \in Requests /\ calls[accepted + 1] = <<>>
    BY <1>1, <1>5, SizeFacts DEF AcceptsRequest, Ledger, Requests
  <2> QED BY <1>1, <1>3, <1>5, <2>1, <2>2 DEF Ledger
<1>6. ASSUME error' # "CLOSED", NEW r \in Requests, TakesRequest(r)
      PROVE  Ledger'
  <2>1. ~NoSplit
    BY <1>6 DEF TakesRequest, NoSplit
  <2> QED BY <1>1, <1>3, <1>6, <2>1 DEF TakesRequest, Ledger
<1>7. ASSUME error' # "CLOSED", NEW r \in Requests, SucceedsRequest(r)
      PROVE  Ledger'
  <2>1. /\ ~closed /\ r \in Held \cup Taken /\ Held' = Held \ {r}
        /\ \/ Taken' = Taken \ {r}
           \/ CallbacksMayFail /\ closed' /\ Taken' = {r}
        /\ accepted' = accepted
    BY <1>7 DEF SucceedsRequest
  <2>a. r \in Held \cup Taken /\ Held' = Held \ {r} /\ accepted' = accepted
    BY <2>1
  <2>2. Reports(calls, calls', {r})
    BY <1>1, <1>7, ReportedReports DEF SucceedsRequest
  <2>3. calls[r] = <<>>
    BY <2>1 DEF Ledger
  <2>4. /\ calls'[r] # <<>> /\ Len(calls'[r]) = 1
        /\ \A q \in Requests : q # r => calls'[q] = calls[q]
    <3>1. r \in {r} /\ \A q \in Requests : q # r => q \notin {r}
      OBVIOUS
    <3>2. /\ calls'[r] # <<>> /\ Len(calls'[r]) = Len(calls[r]) + 1
      BY <2>2, <3>1, Zenon DEF Reports
    <3>3. \A q \in Requests : q # r => calls'[q] = calls[q]
      BY <2>2, <3>1, Zenon DEF Reports
    <3>4. Len(calls[r]) + 1 = 1
      BY <1>2, <2>3
    <3> QED BY <3>2, <3>3, <3>4
  <2>5. HeldUnreported' /\ NewUnreported' /\ (~closed' => TakenUnreported')
    <3>1. HeldUnreported' /\ NewUnreported'
      BY <1>1, <2>a, <2>4 DEF Ledger
    <3>2. ASSUME ~closed' PROVE Taken' = Taken \ {r}
      BY <2>1, <3>2, Zenon
    <3>3. TakenUnreported
      BY <2>1 DEF Ledger
    <3>4. Taken' = Taken \ {r} => TakenUnreported'
      BY <1>1, <2>4, <3>3
    <3> QED BY <3>1, <3>2, <3>4
  <2>6. ~CallbacksMayFail => ReportedAtMostOnce'
    <3> SUFFICES ASSUME ~CallbacksMayFail PROVE ReportedAtMostOnce'
      OBVIOUS
    <3>1. Taken' = Taken \ {r}
      BY <2>1, Zenon
    <3>2. ReportedAtMostOnce
      BY Zenon DEF Ledger
    <3>3. ASSUME NEW q \in Requests PROVE Len(calls'[q]) <= 1
      <4>1. CASE q = r
        <5>1. Len(calls'[q]) = 1
          BY <2>4, <4>1, Zenon
        <5> QED BY <5>1
      <4>2. CASE q # r
        <5>1. calls'[q] = calls[q] /\ Len(calls[q]) <= 1
          BY <2>4, <3>2, <4>2
        <5> QED BY <5>1
      <4> QED BY <4>1, <4>2
    <3>4. TakenUnreported'
      BY <1>1, <1>3, <2>4, <3>1, <3>2
    <3> QED BY <3>3, <3>4
  <2>7. NoSplit => PendingIsHeld'
    BY <1>1, <2>1, <2>4 DEF Ledger
  <2> QED BY <1>7, <2>5, <2>6, <2>7 DEF Ledger
<1>8. ASSUME error' # "CLOSED", NEW ends, NEW b \in BOOLEAN,
             FlushesIf(ends, b), Taken' = Taken, accepted' = accepted,
             closed' \/ Taken = {}
      PROVE  Ledger'
  <2>1. CASE ~ends
    BY <1>1, <1>3, <1>8, <2>1 DEF FlushesIf, Ledger
  <2>2. CASE ends
    <3>1. Held' = {} /\ Reports(calls, calls', Held)
      BY <1>1, <1>8, <2>2, ReportedReports DEF FlushesIf
    <3> QED BY <1>1, <1>2, <1>3, <1>8, <3>1 DEF Ledger, Reports
  <2> QED BY <2>1, <2>2
<1>9. CASE error' # "CLOSED" /\ LosesConnection
  BY <1>8, <1>9 DEF LosesConnection
<1>10. CASE error' # "CLOSED" /\ Reconnects
  BY <1>1, <1>3, <1>10 DEF Reconnects, Ledger
<1>11. CASE error' # "CLOSED" /\ GetsConnack
  BY <1>8, <1>11 DEF GetsConnack
<1>12. CASE FinalizesAll
  <2>1. Held' = {} /\ Taken' = Taken /\ closed' /\ error' = "CLOSED"
        /\ accepted' = accepted
    BY <1>12 DEF FinalizesAll
  <2>2. Reports(calls, calls', Taken \cup Held)
    BY <1>1, <1>12, ReportedTwice DEF FinalizesAll
  <2> QED BY <1>1, <1>2, <1>3, <2>1, <2>2 DEF Ledger, Reports
<1> QED BY <1>4, <1>5, <1>6, <1>7, <1>9, <1>10, <1>11, <1>12 DEF RequestStep

-----------------------------------------------------------------------------
(* What the sessions that the application asks for do to the requests.  If *)
(* none is clean nothing but finalize says that a request has failed.  If  *)
(* all are, nothing is left in the store when a CONNACK arrives; in        *)
(* neither case does the flush at CONNACK report a request as successful.  *)
AllKept == TRUE \notin CleanSessions
AllClean == FALSE \notin CleanSessions

Sessions ==
  /\ AllKept => ~clean_session /\ ~connect_clean /\ KeptSessionNeverFails
  /\ AllClean => /\ current = "connect" => Held = {}
                 /\ current = "main" => clean_session
                 /\ ~closed => connect_clean
  /\ AllKept \/ AllClean => SuccessOnlyIfAcked

(* A callback that says "failed" adds no success, and one that says        *)
(* "succeeded" adds no failure.                                            *)
LEMMA ReportedSame ==
  ASSUME NEW c \in [Requests -> Seq(BOOLEAN)], NEW rs, NEW b \in BOOLEAN,
         NEW r \in Requests, NEW k \in 1 .. Len(Reported(c, rs, b)[r]),
         Reported(c, rs, b)[r][k] # b
  PROVE  \E j \in 1 .. Len(c[r]) : c[r][j] = Reported(c, rs, b)[r][k]
<1>1. /\ Reported(c, rs, b)[r] = IF r \in rs THEN Append(c[r], b) ELSE c[r]
      /\ Len(c[r]) \in Nat
      /\ Len(Append(c[r], b)) = Len(c[r]) + 1
      /\ Append(c[r], b)[Len(c[r]) + 1] = b
      /\ \A j \in 1 .. Len(c[r]) : Append(c[r], b)[j] = c[r][j]
  BY ReportedAt
<1> DEFINE d == Reported(c, rs, b)[r]
<1> HIDE DEF d
<1>2. CASE r \in rs
  <2>1. d = Append(c[r], b)
    BY <1>1, <1>2 DEF d
  <2>2. k \in 1 .. Len(c[r]) + 1 /\ d[k] # b
    BY <1>1, <2>1 DEF d
  <2>3. k \in 1 .. Len(c[r])
    BY <1>1, <2>1, <2>2
  <2>4. c[r][k] = d[k]
    BY <1>1, <2>1, <2>3
  <2> QED BY <2>3, <2>4 DEF d
<1>3. CASE r \notin rs
  BY <1>1, <1>3
<1> QED BY <1>2, <1>3

Succeeded(c, r) == \E k \in 1 .. Len(c[r]) : c[r][k]
Failed(c, r) == \E k \in 1 .. Len(c[r]) : ~c[r][k]

LEMMA ReportedOutcome ==
  ASSUME NEW c \in [Requests -> Seq(BOOLEAN)], NEW rs, NEW r \in Requests
  PROVE  /\ Succeeded(Reported(c, rs, FALSE), r) => Succeeded(c, r)
         /\ Failed(Reported(c, rs, TRUE), r) => Failed(c, r)
         /\ r \notin rs => Reported(c, rs, TRUE)[r] = c[r]
<1> DEFINE no == FALSE
           yes == TRUE
<1>0. no \in BOOLEAN /\ yes \in BOOLEAN
  OBVIOUS
<1> HIDE DEF no, yes
<1>1. ASSUME Succeeded(Reported(c, rs, no), r) PROVE Succeeded(c, r)
  <2>1. PICK k \in 1 .. Len(Reported(c, rs, no)[r]) :
          Reported(c, rs, no)[r][k]
    BY <1>1, Zenon DEF Succeeded
  <2>2. Reported(c, rs, no)[r][k] # no
    BY <2>1, Zenon DEF no
  <2>3. PICK j \in 1 .. Len(c[r]) : c[r][j] = Reported(c, rs, no)[r][k]
    BY <1>0, <2>2, ReportedSame
  <2> QED BY <2>1, <2>3, Zenon DEF Succeeded
<1>2. ASSUME Failed(Reported(c, rs, yes), r) PROVE Failed(c, r)
  <2>1. PICK k \in 1 .. Len(Reported(c, rs, yes)[r]) :
          ~Reported(c, rs, yes)[r][k]
    BY <1>2, Zenon DEF Failed
  <2>2. Reported(c, rs, yes)[r][k] # yes
    BY <2>1, Zenon DEF yes
  <2>3. PICK j \in 1 .. Len(c[r]) : c[r][j] = Reported(c, rs, yes)[r][k]
    BY <1>0, <2>2, ReportedSame
  <2> QED BY <2>1, <2>3, Zenon DEF Failed
<1>3. r \notin rs => Reported(c, rs, TRUE)[r] = c[r]
  BY DEF Reported
<1> QED BY <1>1, <1>2, <1>3 DEF no, yes

LEMMA NextSessions ==
  ASSUME SafeInv, Custody, SafeInv', Sessions, RequestStep
  PROVE  Sessions'
<1>1. /\ calls \in [Requests -> Seq(BOOLEAN)]
      /\ current \in {"connect", "main"} /\ CleanSessions \subseteq BOOLEAN
  BY RequestSets, ChoicesAssumption DEF SafeInv, TypeOK
<1>2. error # "CLOSED"
  BY DEF RequestStep
<1>a. KeptSessionNeverFails <=> \A r \in Requests : ~Failed(calls, r)
  BY <1>2, Zenon DEF KeptSessionNeverFails, Failed
<1>b. SuccessOnlyIfAcked <=>
        \A r \in Requests : Succeeded(calls, r) => r \in acked
  BY Zenon DEF SuccessOnlyIfAcked, Succeeded
<1>c. (\A r \in Requests : ~Failed(calls', r)) \/ error' = "CLOSED"
        => KeptSessionNeverFails'
  BY Zenon DEF KeptSessionNeverFails, Failed
<1>d. (\A r \in Requests : Succeeded(calls', r) => r \in acked')
        => SuccessOnlyIfAcked'
  BY Zenon DEF SuccessOnlyIfAcked, Succeeded
<1>3. ASSUME calls' = calls, acked' = acked
      PROVE  /\ KeptSessionNeverFails => KeptSessionNeverFails'
             /\ SuccessOnlyIfAcked => SuccessOnlyIfAcked'
  BY <1>a, <1>b, <1>c, <1>d, <1>3, Zenon
<1>4. ASSUME UNCHANGED Flags, Held' \subseteq Held \/ current = "main",
             ~closed' => ~closed
      PROVE  /\ AllKept => (~clean_session /\ ~connect_clean)'
             /\ AllClean => (/\ current = "connect" => Held = {}
                             /\ current = "main" => clean_session
                             /\ ~closed => connect_clean)'
  <2>1. /\ clean_session' = clean_session /\ connect_clean' = connect_clean
        /\ current' = current
    BY <1>4 DEF Flags
  <2>2. current = "connect" /\ Held = {} => Held' = {}
    BY <1>4
  <2> QED BY <1>4, <2>1, <2>2, Zenon DEF Sessions
<1>5. CASE KeepsRequests
  BY <1>3, <1>4, <1>5, Zenon DEF KeepsRequests, Sessions
<1>6. CASE AcceptsRequest
  BY <1>3, <1>4, <1>6, Zenon DEF AcceptsRequest, Sessions
<1>7. ASSUME NEW r \in Requests, TakesRequest(r) PROVE Sessions'
  <2>1. Held' \subseteq Held
    BY <1>7 DEF TakesRequest
  <2> QED BY <1>3, <1>4, <1>7, <2>1, Zenon DEF TakesRequest, Sessions
<1>8. ASSUME NEW r \in Requests, SucceedsRequest(r) PROVE Sessions'
  <2>1. /\ ~closed /\ UNCHANGED Flags /\ Held' \subseteq Held
        /\ calls' = Reported(calls, {r}, TRUE) /\ acked' = acked \cup {r}
    BY <1>8 DEF SucceedsRequest
  <2>2. ASSUME NEW q \in Requests
        PROVE  /\ Failed(calls', q) => Failed(calls, q)
               /\ q # r => calls'[q] = calls[q]
               /\ q = r => q \in acked'
    <3>1. q # r => q \notin {r}
      OBVIOUS
    <3>2. q = r => q \in acked'
      BY <2>1
    <3> QED BY <1>1, <2>1, <3>1, <3>2, ReportedOutcome, Zenon
  <2>3. KeptSessionNeverFails => KeptSessionNeverFails'
    BY <1>a, <1>c, <2>2, Zenon
  <2>4. SuccessOnlyIfAcked => SuccessOnlyIfAcked'
    <3>1. acked \subseteq acked'
      BY <2>1
    <3>2. ASSUME NEW q \in Requests, q # r, Succeeded(calls', q)
          PROVE  Succeeded(calls, q)
      BY <2>2, <3>2, Zenon DEF Succeeded
    <3>3. ASSUME SuccessOnlyIfAcked, NEW q \in Requests, Succeeded(calls', q)
          PROVE  q \in acked'
      <4>1. CASE q = r
        BY <2>2, <4>1
      <4>2. CASE q # r
        BY <1>b, <3>1, <3>2, <3>3, <4>2
      <4> QED BY <4>1, <4>2
    <3> QED BY <1>d, <3>3, Zenon
  <2> QED BY <1>4, <2>1, <2>3, <2>4, Zenon DEF Sessions
<1>9. CASE LosesConnection
  <2>1. /\ closed' /\ current' = "connect" /\ acked' = acked
        /\ clean_session' = clean_session /\ connect_clean' = connect_clean
        /\ IF clean_session
             THEN Held' = {} /\ calls' = Reported(calls, Held, FALSE)
             ELSE Held' = Held /\ calls' = calls
    BY <1>9 DEF LosesConnection, FlushesIf
  <2>2. AllKept => (~clean_session /\ ~connect_clean)'
    BY <2>1, Zenon DEF Sessions
  <2>3. AllKept => KeptSessionNeverFails'
    BY <1>3, <2>1, Zenon DEF Sessions
  <2>4. AllClean => Held' = {}
    <3>1. CASE clean_session
      BY <2>1, <3>1, Zenon
    <3>2. CASE ~clean_session
      <4>1. Held' = Held
        BY <2>1, <3>2, Zenon
      <4>2. AllClean => Held = {}
        BY <1>1, <3>2, Zenon DEF Sessions
      <4> QED BY <4>1, <4>2, Zenon
    <3> QED BY <3>1, <3>2
  <2>5. AllKept \/ AllClean => SuccessOnlyIfAcked'
    <3>1. CASE clean_session
      <4>1. calls' = Reported(calls, Held, FALSE)
        BY <2>1, <3>1, Zenon
      <4>2. \A q \in Requests : Succeeded(calls', q) => Succeeded(calls, q)
        BY <1>1, <4>1, ReportedOutcome, Zenon
      <4> QED BY <1>b, <1>d, <2>1, <4>2, Zenon DEF Sessions
    <3>2. CASE ~clean_session
      BY <1>3, <2>1, <3>2, Zenon DEF Sessions
    <3> QED BY <3>1, <3>2
  <2>6. current' # "main"
    BY <2>1
  <2> QED BY <2>1, <2>2, <2>3, <2>4, <2>5, <2>6, Zenon DEF Sessions
<1>10. CASE Reconnects
  <2>1. /\ connect_clean' \in CleanSessions /\ current = "connect"
        /\ Held' = Held /\ calls' = calls /\ acked' = acked
        /\ clean_session' = clean_session /\ current' = current
    BY <1>10 DEF Reconnects
  <2>2. AllKept => connect_clean' = FALSE
    BY <1>1, <2>1 DEF AllKept
  <2>3. AllClean => connect_clean' = TRUE
    BY <1>1, <2>1 DEF AllClean
  <2>4. current' # "main"
    BY <2>1
  <2> QED BY <1>3, <2>1, <2>2, <2>3, <2>4, Zenon DEF Sessions
<1>11. CASE GetsConnack
  <2>1. /\ ~closed /\ current = "connect" /\ current' = "main"
        /\ clean_session' = connect_clean /\ connect_clean' = connect_clean
        /\ acked' = acked
        /\ IF connect_clean
             THEN Held' = {} /\ calls' = Reported(calls, Held, TRUE)
             ELSE Held' = Held /\ calls' = calls
    BY <1>11 DEF GetsConnack, FlushesIf
  <2>2. AllKept => ~connect_clean
    BY Zenon DEF Sessions
  <2>3. AllClean => Held = {} /\ connect_clean
    BY <2>1, Zenon DEF Sessions
  <2>4. Reported(calls, {}, TRUE) = calls
    BY ReportedNone DEF SafeInv
  <2>5. AllKept \/ AllClean => calls' = calls
    BY <2>1, <2>2, <2>3, <2>4, Zenon
  <2>6. current' # "connect"
    BY <2>1
  <2> QED BY <1>3, <2>1, <2>2, <2>3, <2>5, <2>6, Zenon DEF Sessions
<1>12. CASE FinalizesAll
  <2>1. /\ calls' = Reported(Reported(calls, Taken, FALSE), Held, FALSE)
        /\ Held' = {} /\ closed' /\ error' = "CLOSED" /\ acked' = acked
        /\ UNCHANGED Flags
    BY <1>12 DEF FinalizesAll
  <2>2. Reported(calls, Taken, FALSE) \in [Requests -> Seq(BOOLEAN)]
    BY <1>1, ReportedType
  <2>3. \A q \in Requests : Succeeded(calls', q) => Succeeded(calls, q)
    BY <1>1, <2>1, <2>2, ReportedOutcome, Zenon
  <2>4. SuccessOnlyIfAcked => SuccessOnlyIfAcked'
    BY <1>b, <1>d, <2>1, <2>3, Zenon
  <2>5. Held' \subseteq Held
    BY <2>1
  <2> QED BY <1>4, <1>c, <2>1, <2>4, <2>5, Zenon DEF Sessions
<1> QED BY <1>5, <1>6, <1>7, <1>8, <1>9, <1>10, <1>11, <1>12 DEF RequestStep

-----------------------------------------------------------------------------
(* The inductive invariant.                                                *)
RequestInv == SafeInv /\ Custody /\ Ledger /\ Sessions

LEMMA InitRequests == Init => RequestInv
<1> SUFFICES ASSUME Init PROVE RequestInv
  OBVIOUS
<1>1. SafeInv /\ Custody
  BY InitSafe, InitCustody
<1>2. Held = {} /\ Taken = {}
  BY EmptyStoreGood DEF Init, Held, Taken, RequestOf, NoEntry
<1>3. /\ \A r \in Requests : calls[r] = <<>>
      /\ accepted = 0 /\ closed /\ error = "NONE" /\ current = "connect"
      /\ ~clean_session /\ ~connect_clean /\ Len(<<>>) = 0
  BY DEF Init
<1>4. \A r \in Requests : ~(r <= accepted)
  BY <1>3, SizeFacts DEF Requests
<1>5. Ledger
  BY <1>2, <1>3, <1>4
     DEF Ledger, HeldUnreported, NewUnreported, TakenUnreported, CalledOnce,
         ReportedAtMostOnce, PendingIsHeld, Pending
<1>6. \A r \in Requests : 1 .. Len(calls[r]) = {}
  BY <1>3
<1>7. KeptSessionNeverFails /\ SuccessOnlyIfAcked
  BY <1>6, Zenon DEF KeptSessionNeverFails, SuccessOnlyIfAcked
<1>8. current # "main"
  BY <1>3
<1>9. Sessions
  BY <1>2, <1>3, <1>7, <1>8, Zenon DEF Sessions
<1> QED BY <1>1, <1>5, <1>9 DEF RequestInv

LEMMA NextRequests ==
  ASSUME RequestInv, [Next]_vars
  PROVE  RequestInv' /\ (RequestStep \/ UNCHANGED vars)
<1>1. SafeInv' /\ Custody' /\ (RequestStep \/ UNCHANGED vars)
  BY NextSafe, NextCustody DEF RequestInv
<1>2. CASE RequestStep
  BY <1>1, <1>2, NextLedger, NextSessions DEF RequestInv
<1>3. CASE UNCHANGED vars
  <2>1. UNCHANGED <<calls, acked, error, closed, accepted, clean_session,
                    connect_clean, current, main_store, rx_value>>
    BY <1>3 DEF vars, state, session, stores, history
  <2>2. Held' = Held /\ Taken' = Taken
    BY <2>1 DEF Held, Taken
  <2>3. Ledger'
    BY <2>1, <2>2
       DEF RequestInv, Ledger, HeldUnreported, NewUnreported,
           TakenUnreported, ReportedAtMostOnce, CalledOnce, PendingIsHeld,
           Pending
  <2>4. Sessions'
    BY <2>1, <2>2
       DEF RequestInv, Sessions, KeptSessionNeverFails, SuccessOnlyIfAcked
  <2> QED BY <1>1, <2>3, <2>4 DEF RequestInv
<1> QED BY <1>1, <1>2, <1>3

(* RequestInv holds in every reachable state.                              *)
LEMMA RequestsInvariant == Spec => []RequestInv
BY InitRequests, NextRequests, PTL DEF Spec

(* In how many places main_store holds a request.                          *)
LEMMA PlacesInStore ==
  ASSUME NEW s, WellFormed(s, Entries), NEW n, NEW rcvd,
         GoodStore(s, n, rcvd), NEW r, r # None
  PROVE  Cardinality({i \in 1 .. Count(s) : s.entries[i].val = r}) =
           IF r \in RequestsIn(s) THEN 1 ELSE 0
<1> DEFINE S == {i \in 1 .. Count(s) : s.entries[i].val = r}
<1>1. Count(s) \in Nat
  BY StoreEntries
<1>2. CASE r \notin RequestsIn(s)
  <2>1. S = {}
    BY <1>2, RequestsInStore
  <2> QED BY <1>2, <2>1, FS_EmptySet
<1>3. CASE r \in RequestsIn(s)
  <2>1. PICK i \in 1 .. Count(s) : s.entries[i].val = r
    BY <1>3, RequestsInStore
  <2>2. ASSUME NEW j \in S PROVE j = i
    <3>1. j < i \/ i < j \/ j = i
      BY <1>1
    <3>2. i < j => InOrder(s.entries[i], s.entries[j])
      BY DEF GoodStore
    <3>3. j < i => InOrder(s.entries[j], s.entries[i])
      BY DEF GoodStore
    <3> QED BY <2>1, <3>1, <3>2, <3>3 DEF InOrder
  <2>3. S = {i}
    BY <2>1, <2>2
  <2>4. Cardinality({i}) = 1
    BY FS_Singleton
  <2> QED BY <1>3, <2>3, <2>4
<1> QED BY <1>2, <1>3

LEMMA PlacesNow ==
  ASSUME SafeInv, Custody, NEW r \in Requests
  PROVE  Places(r) = (IF r \in Held THEN 1 ELSE 0)
                     + (IF r \in Taken THEN 1 ELSE 0)
<1>1. r # None /\ WellFormed(main_store, Entries)
  BY SafeShapes DEF Requests, None
<1>2. Cardinality({i \in 1 .. Count(main_store) :
                     main_store.entries[i].val = r}) =
        IF r \in Held THEN 1 ELSE 0
  BY <1>1, PlacesInStore DEF Custody, Held
<1>3. r \in Taken <=> rx_value.val = r
  BY <1>1 DEF Taken, RequestOf
<1> QED BY <1>2, <1>3 DEF Places

LEMMA PlacesNext ==
  ASSUME SafeInv', Custody', NEW r \in Requests
  PROVE  Places(r)' = (IF r \in Held' THEN 1 ELSE 0)
                      + (IF r \in Taken' THEN 1 ELSE 0)
<1>1. r # None /\ WellFormed(main_store', Entries)
  BY DEF Requests, None, SafeInv, TypeOK, IsStore
<1>2. Cardinality({i \in 1 .. Count(main_store') :
                     main_store'.entries[i].val = r}) =
        IF r \in Held' THEN 1 ELSE 0
  BY <1>1, PlacesInStore DEF Custody, Held
<1>3. r \in Taken' <=> rx_value'.val = r
  BY <1>1 DEF Taken, RequestOf
<1> QED BY <1>2, <1>3 DEF Places

-----------------------------------------------------------------------------
(* After a request's callback has been called the store holds no pointer   *)
(* to it: the application may release it (client_on_publish and the        *)
(* like, lmqtt_store_value_t).                                             *)
THEOREM NothingDangles == Spec => []NoDanglingRequest
<1>1. RequestInv => NoDanglingRequest
  BY DEF RequestInv, Ledger, HeldUnreported, Held, NoDanglingRequest
<1> QED BY <1>1, RequestsInvariant, PTL

(* Requests wait, and are sent again, in the order of the calls, whatever  *)
(* is taken out of the store and whenever its position is reset.           *)
THEOREM OrderIsKept == Spec => []ResentInOrder
<1>1. RequestInv => ResentInOrder
  BY DEF RequestInv, Custody, GoodStore, InOrder, ResentInOrder
<1> QED BY <1>1, RequestsInvariant, PTL

(* After its PUBREC a QoS 2 message is not stored again, in this           *)
(* connection or in a later one of the session.                            *)
THEOREM PubrecIsFinal == Spec => []NoRepublishAfterPubrec
<1>1. RequestInv => NoRepublishAfterPubrec
  BY DEF RequestInv, Custody, GoodStore, GoodEntry, NoRepublishAfterPubrec
<1> QED BY <1>1, RequestsInvariant, PTL

(* Only client_set_state_connecting loses a request, and only the one that *)
(* the decoder holds.                                                      *)
THEOREM OnlyReconnectLoses == Spec => OnlyReconnectLosesRequest
<1>1. RequestInv /\ [Next]_vars => [LostOnlyByConnect]_vars
  <2>0. SUFFICES ASSUME RequestInv, [Next]_vars
                 PROVE  [LostOnlyByConnect]_vars
    OBVIOUS
  <2>1. RequestInv' /\ (RequestStep \/ UNCHANGED vars)
    BY <2>0, NextRequests
  <2>2. SUFFICES ASSUME RequestStep, NEW r \in Requests, Pending(r),
                        Places(r) = 1, Pending(r)', Places(r)' # 1
                 PROVE  /\ rx_value.val = r
                        /\ \E clean \in CleanSessions : Connect(clean)
    BY <2>1, Zenon DEF LostOnlyByConnect
  <2>3. /\ r \in Held \cup Taken /\ Held \cap Taken = {}
        /\ Taken \subseteq {rx_value.val}
    BY <2>0, <2>2, PlacesNow, RequestSets DEF RequestInv
  <2>4. Held' \cap Taken' = {}
    BY <2>1 DEF RequestInv, Custody
  <2>5. r \notin Held' \cup Taken'
    BY <2>1, <2>2, <2>4, PlacesNext DEF RequestInv
  <2>6. /\ calls[r] = <<>> /\ calls'[r] = <<>>
        /\ calls \in [Requests -> Seq(BOOLEAN)]
    BY <2>0, <2>2, RequestSets DEF Pending, RequestInv
  <2>7. ASSUME NEW d \in [Requests -> Seq(BOOLEAN)], NEW rs,
               NEW b \in BOOLEAN, r \in rs
        PROVE  Reported(d, rs, b)[r] # <<>>
    BY <2>7, ReportedReports DEF Reports
  <2>8. ~KeepsRequests /\ ~AcceptsRequest
    BY <2>3, <2>5 DEF KeepsRequests, AcceptsRequest
  <2>9. \A q \in Requests : ~TakesRequest(q)
    BY <2>3, <2>5 DEF TakesRequest
  <2>10. ASSUME NEW q \in Requests, SucceedsRequest(q) PROVE FALSE
    <3>1. q # r
      <4>1. q = r => r \in {q}
        OBVIOUS
      <4> QED BY <2>6, <2>7, <2>10, <4>1 DEF SucceedsRequest
    <3> QED BY <2>3, <2>5, <2>10, <3>1 DEF SucceedsRequest
  <2>11. ASSUME NEW ends, NEW b \in BOOLEAN, FlushesIf(ends, b)
         PROVE  r \notin Held
    BY <2>5, <2>6, <2>7, <2>11 DEF FlushesIf
  <2>12. ~LosesConnection
    BY <2>3, <2>5, <2>11 DEF LosesConnection
  <2>13. ~GetsConnack
    BY <2>3, <2>5, <2>11 DEF GetsConnack
  <2>14. ~FinalizesAll
    <3>1. Held' = {} /\ Taken' = Taken => r \in Held
      BY <2>3, <2>5
    <3>2. Reported(calls, Taken, FALSE) \in [Requests -> Seq(BOOLEAN)]
      BY <2>6, ReportedType
    <3> QED BY <2>6, <2>7, <3>1, <3>2 DEF FinalizesAll
  <2>15. Reconnects
    BY <2>2, <2>8, <2>9, <2>10, <2>12, <2>13, <2>14, Zenon DEF RequestStep
  <2>16. r \notin Held
    BY <2>5, <2>15 DEF Reconnects
  <2> QED BY <2>3, <2>15, <2>16 DEF Reconnects
<1> QED BY <1>1, RequestsInvariant, PTL DEF Spec, OnlyReconnectLosesRequest

(* A reported request is reported again only by lmqtt_client_finalize, and *)
(* only the one whose callback returned 0: no flush of the store, no       *)
(* response and no reconnection calls a callback twice.                    *)
THEOREM OnlyFinalizeRepeats == Spec => OnlyFinalizeCallsAgain
<1>1. RequestInv /\ [Next]_vars => [CalledAgainOnlyByFinalize]_vars
  <2>0. SUFFICES ASSUME RequestInv, [Next]_vars
                 PROVE  [CalledAgainOnlyByFinalize]_vars
    OBVIOUS
  <2>1. RequestStep \/ UNCHANGED vars
    BY <2>0, NextRequests
  <2>2. SUFFICES ASSUME RequestStep, NEW r \in Requests, calls[r] # <<>>,
                        calls'[r] # calls[r]
                 PROVE  rx_value.val = r /\ error' = "CLOSED"
    BY <2>1, Zenon DEF CalledAgainOnlyByFinalize
  <2>3. /\ calls \in [Requests -> Seq(BOOLEAN)]
        /\ Held \cap Taken = {} /\ Taken \subseteq {rx_value.val}
    BY <2>0, RequestSets DEF RequestInv
  <2>4. r \notin Held /\ (~closed => r \notin Taken)
    BY <2>0, <2>2
       DEF RequestInv, Ledger, HeldUnreported, TakenUnreported
  <2>5. ASSUME NEW d \in [Requests -> Seq(BOOLEAN)], NEW rs,
               NEW b \in BOOLEAN, r \notin rs
        PROVE  Reported(d, rs, b)[r] = d[r]
    BY <2>5, ReportedReports DEF Reports
  <2>6. calls' # calls
    BY <2>2
  <2>7. \A q \in Requests : ~SucceedsRequest(q)
    <3> SUFFICES ASSUME NEW q \in Requests, SucceedsRequest(q) PROVE FALSE
      OBVIOUS
    <3>1. q # r
      BY <2>4 DEF SucceedsRequest
    <3>2. calls'[r] = calls[r]
      BY <2>3, <2>5, <3>1 DEF SucceedsRequest
    <3> QED BY <2>2, <3>2
  <2>8. ASSUME NEW ends, NEW b \in BOOLEAN PROVE ~FlushesIf(ends, b)
    BY <2>2, <2>3, <2>4, <2>5 DEF FlushesIf
  <2>9. ~LosesConnection /\ ~GetsConnack
    BY <2>8 DEF LosesConnection, GetsConnack
  <2>10. ~KeepsRequests /\ ~AcceptsRequest /\ ~Reconnects
    BY <2>6 DEF KeepsRequests, AcceptsRequest, Reconnects
  <2>11. \A q \in Requests : ~TakesRequest(q)
    BY <2>6 DEF TakesRequest
  <2>12. FinalizesAll
    BY <2>2, <2>7, <2>9, <2>10, <2>11, Zenon DEF RequestStep
  <2>13. r \in Taken
    <3>1. Reported(calls, Taken, FALSE) \in [Requests -> Seq(BOOLEAN)]
      BY <2>3, ReportedType
    <3>2. ASSUME r \notin Taken PROVE calls'[r] = calls[r]
      BY <2>3, <2>4, <2>5, <2>12, <3>1, <3>2 DEF FinalizesAll
    <3> QED BY <2>2, <3>2
  <2> QED BY <2>3, <2>12, <2>13 DEF FinalizesAll
<1> QED BY <1>1, RequestsInvariant, PTL DEF Spec, OnlyFinalizeCallsAgain

-----------------------------------------------------------------------------
(* The next theorems are about some applications and some brokers only:    *)
(* the others violate the property.                                        *)

(* When no callback returns 0 a request is reported at most once: a        *)
(* callback that returns 0 is called again by lmqtt_client_finalize.       *)
THEOREM ReportedOnce ==
  ASSUME ~CallbacksMayFail
  PROVE  Spec => []CalledOnce
<1>1. RequestInv => CalledOnce
  BY Zenon DEF RequestInv, Ledger, ReportedAtMostOnce
<1> QED BY <1>1, RequestsInvariant, PTL

(* When every response to a request arrives in one piece no request is     *)
(* lost or held twice, whatever else goes wrong: a reconnection forgets    *)
(* the request whose response was half decoded.                            *)
THEOREM PendingIsKept ==
  ASSUME NoSplit
  PROVE  Spec => []PendingIsTracked
<1>1. RequestInv => PendingIsTracked
  <2> SUFFICES ASSUME RequestInv, NEW r \in Requests, Pending(r)
               PROVE  Places(r) = 1
    BY DEF PendingIsTracked
  <2>1. r \in Held /\ r \notin Taken
    BY DEF RequestInv, Ledger, PendingIsHeld, Pending
  <2> QED BY <2>1, PlacesNow DEF RequestInv
<1> QED BY <1>1, RequestsInvariant, PTL

(* ... and lmqtt_client_finalize has then called every callback.           *)
THEOREM FinalizeResolves ==
  ASSUME NoSplit
  PROVE  Spec => []FinalizeResolvesAll
<1>1. RequestInv => FinalizeResolvesAll
  <2> SUFFICES ASSUME RequestInv, error = "CLOSED",
                      NEW r \in 1 .. accepted, calls[r] = <<>>
               PROVE  FALSE
    BY DEF FinalizeResolvesAll
  <2>1. r \in Requests /\ r <= accepted
    BY SafeShapes, SizeFacts DEF RequestInv, TypeOK, Requests
  <2>2. Held = {}
    BY DEF RequestInv, Ledger
  <2> QED BY <2>1, <2>2 DEF RequestInv, Ledger, PendingIsHeld, Pending
<1> QED BY <1>1, RequestsInvariant, PTL

(* An application that never asks for a clean session sees a request fail  *)
(* only when it finalizes the client itself.                               *)
THEOREM KeptRequestsSurvive ==
  ASSUME AllKept
  PROVE  Spec => []KeptSessionNeverFails
<1>1. RequestInv => KeptSessionNeverFails
  BY Zenon DEF RequestInv, Sessions
<1> QED BY <1>1, RequestsInvariant, PTL

(* An application that always asks for the same kind of session is told    *)
(* only of successes that the peer has confirmed: the flush that a CONNACK *)
(* makes when the kind changes says "succeeded" to requests without a      *)
(* response.                                                               *)
THEOREM SuccessIsAcked ==
  ASSUME AllKept \/ AllClean
  PROVE  Spec => []SuccessOnlyIfAcked
<1>1. RequestInv => SuccessOnlyIfAcked
  BY Zenon DEF RequestInv, Sessions
<1> QED BY <1>1, RequestsInvariant, PTL

-----------------------------------------------------------------------------
(* The client implements RequestLifecycle.  The proof maps RequestStep,    *)
(* which every action of the client has been shown to be, and not the      *)
(* actions themselves.                                                     *)

(* What the abstract specification and the client agree on: responses in   *)
(* one piece, callbacks that do not return 0, sessions of one kind.        *)
Uniform == NoSplit /\ ~CallbacksMayFail /\ (AllKept \/ AllClean)

(* The status of a request, when nothing is lost and nothing reported      *)
(* twice, is read off the history alone.                                   *)
StatusOf(n, c, r) ==
  IF r > n THEN "new"
  ELSE IF c[r] = <<>> THEN "pending"
  ELSE IF c[r][1] THEN "succeeded" ELSE "failed"

Tracked(n, c, held, taken) ==
  /\ taken = {} /\ held \subseteq 1 .. n /\ n \in Nat
  /\ c \in [Requests -> Seq(BOOLEAN)]
  /\ \A r \in Requests : /\ Len(c[r]) <= 1
                         /\ (r <= n /\ c[r] = <<>>) <=> r \in held
                         /\ r > n => c[r] = <<>>

LEMMA TrackedNow ==
  ASSUME Uniform, RequestInv, error # "CLOSED"
  PROVE  Tracked(accepted, calls, Held, Taken)
<1>1. /\ Held \subseteq 1 .. accepted /\ Taken \subseteq Requests
      /\ accepted \in Nat /\ calls \in [Requests -> Seq(BOOLEAN)]
  BY RequestSets DEF RequestInv
<1>2. ReportedAtMostOnce /\ PendingIsHeld
  BY Zenon DEF RequestInv, Ledger, Uniform
<1>3. Taken = {}
  BY <1>2 DEF ReportedAtMostOnce, TakenUnreported, PendingIsHeld
<1>4. HeldUnreported /\ NewUnreported
  BY DEF RequestInv, Ledger
<1>5. ASSUME NEW r \in Requests
      PROVE  /\ Len(calls[r]) <= 1
             /\ (r <= accepted /\ calls[r] = <<>>) <=> r \in Held
             /\ r > accepted => calls[r] = <<>>
  <2>1. Len(calls[r]) <= 1
    BY <1>2 DEF ReportedAtMostOnce, CalledOnce
  <2>2. r \in Held => r <= accepted
    BY <1>1
  <2> QED
    BY <1>2, <1>4, <2>1, <2>2
       DEF PendingIsHeld, Pending, HeldUnreported, NewUnreported
<1> QED BY <1>1, <1>3, <1>5 DEF Tracked

LEMMA StatusNow ==
  ASSUME Uniform, RequestInv, NEW r \in Requests
  PROVE  Status(r) = StatusOf(accepted, calls, r)
<1>1. CalledOnce /\ PendingIsHeld
  BY Zenon DEF RequestInv, Ledger, Uniform, ReportedAtMostOnce
<1>2. ~(Len(calls[r]) > 1)
  BY <1>1, RequestSets, LenProperties DEF CalledOnce, RequestInv
<1>3. r <= accepted /\ calls[r] = <<>> => Places(r) = 1
  BY <1>1, PlacesNow DEF PendingIsHeld, Pending, RequestInv
<1>4. r > accepted \/ r <= accepted
  BY RequestSets DEF RequestInv, Requests
<1> QED BY <1>2, <1>3, <1>4, Zenon DEF Status, StatusOf

LEMMA StatusNext ==
  ASSUME Uniform, RequestInv', NEW r \in Requests
  PROVE  Status(r)' = StatusOf(accepted', calls', r)
<1>1. CalledOnce' /\ PendingIsHeld'
  BY Zenon DEF RequestInv, Ledger, Uniform, ReportedAtMostOnce
<1>2. /\ calls' \in [Requests -> Seq(BOOLEAN)]
      /\ accepted' \in 0 .. NumRequests
  BY DEF RequestInv, SafeInv, TypeOK
<1>3. ~(Len(calls'[r]) > 1)
  BY <1>1, <1>2, LenProperties DEF CalledOnce
<1>4. r <= accepted' /\ calls'[r] = <<>> => Places(r)' = 1
  BY <1>1, PlacesNext DEF PendingIsHeld, Pending, RequestInv
<1>5. r > accepted' \/ r <= accepted'
  BY <1>2, SizeFacts DEF Requests
<1> QED BY <1>3, <1>4, <1>5, Zenon DEF Status, StatusOf

(* Requests whose callbacks are called change their status accordingly.    *)
LEMMA ReportedStatus ==
  ASSUME NEW n \in Nat, NEW c \in [Requests -> Seq(BOOLEAN)], NEW rs,
         NEW b \in BOOLEAN, NEW r \in Requests, r \in rs => c[r] = <<>>,
         r \in rs => r <= n
  PROVE  StatusOf(n, Reported(c, rs, b), r) =
           IF r \in rs THEN IF b THEN "succeeded" ELSE "failed"
                       ELSE StatusOf(n, c, r)
<1>1. /\ Reported(c, rs, b)[r] = IF r \in rs THEN Append(c[r], b) ELSE c[r]
      /\ Append(c[r], b) # <<>>
      /\ Append(c[r], b)[Len(c[r]) + 1] = b
  BY ReportedAt
<1>2. CASE r \in rs
  <2>1. ~(r > n)
    BY <1>2 DEF Requests
  <2>2. Len(c[r]) = 0
    BY <1>2
  <2>3. Reported(c, rs, b)[r] = Append(c[r], b)
    BY <1>1, <1>2
  <2>4. Append(c[r], b)[1] = b
    BY <1>1, <2>2
  <2> QED BY <1>1, <1>2, <2>1, <2>3, <2>4, Zenon DEF StatusOf
<1>3. CASE r \notin rs
  BY <1>1, <1>3, Zenon DEF StatusOf
<1> QED BY <1>2, <1>3

-----------------------------------------------------------------------------

LEMMA InitLifecycle ==
  ASSUME Init
  PROVE  Lifecycle!Init
<1>1. accepted = 0
  BY DEF Init
<1>2. ASSUME NEW r \in Requests PROVE Status(r) = "new"
  BY <1>1, SizeFacts DEF Status, Requests
<1> QED BY <1>2 DEF Lifecycle!Init

(* Every step changes the status of no request, or of one that the         *)
(* abstract specification accepts or lets succeed, or of all that are      *)
(* pending.                                                                *)
LEMMA StepLifecycle ==
  ASSUME Uniform, RequestInv, RequestInv', RequestStep
  PROVE  Lifecycle!Next \/ UNCHANGED [r \in Requests |-> Status(r)]
<1> DEFINE now == [r \in Requests |-> StatusOf(accepted, calls, r)]
           next == [r \in Requests |-> StatusOf(accepted', calls', r)]
<1>1. /\ [r \in Requests |-> Status(r)] = now
      /\ [r \in Requests |-> Status(r)]' = next
  BY StatusNow, StatusNext
<1>2. Tracked(accepted, calls, Held, Taken)
  BY TrackedNow DEF RequestStep
<1>3. /\ Taken = {} /\ Held \subseteq 1 .. accepted /\ accepted \in Nat
      /\ calls \in [Requests -> Seq(BOOLEAN)] /\ Held \subseteq Requests
      /\ \A r \in Held : calls[r] = <<>> /\ r <= accepted
  BY <1>2, RequestSets DEF Tracked, RequestInv
<1>4. ASSUME NEW r \in Requests
      PROVE  /\ now[r] = "pending" <=> r \in Held
             /\ now[r] = "new" <=> r > accepted
  BY <1>2, <1>3 DEF Tracked, StatusOf, Requests
<1>5. UNCHANGED <<accepted, calls>> => next = now
  OBVIOUS
<1>6. ASSUME NEW rs, rs \subseteq Held, NEW b \in BOOLEAN,
             calls' = Reported(calls, rs, b), accepted' = accepted
      PROVE  next = [r \in Requests |->
                       IF r \in rs THEN IF b THEN "succeeded" ELSE "failed"
                                   ELSE now[r]]
  BY <1>3, <1>6, ReportedStatus
<1>7. next = [r \in Requests |->
                IF now[r] = "pending" THEN "failed" ELSE now[r]]
        => Lifecycle!Next
  BY <1>1, Zenon DEF Lifecycle!Next, Lifecycle!EndSession
<1> HIDE DEF now, next
<1>8. CASE next = now
  BY <1>1, <1>8
<1>9. CASE KeepsRequests \/ Reconnects
  BY <1>5, <1>8, <1>9 DEF KeepsRequests, Reconnects
<1>10. CASE AcceptsRequest
  <2>1. /\ accepted' = accepted + 1 /\ accepted + 1 \in Requests
        /\ calls' = calls
    BY <1>3, <1>10, SizeFacts DEF AcceptsRequest, Requests
  <2>2. /\ now[accepted + 1] = "new"
        /\ \A q \in Requests : q < accepted + 1 => now[q] # "new"
    BY <1>3, <1>4, <2>1 DEF Requests
  <2>3. next[accepted + 1] = "pending"
    BY <1>2, <1>3, <2>1 DEF Tracked, StatusOf, next
  <2>4. \A q \in Requests : q # accepted + 1 => next[q] = now[q]
    BY <1>3, <2>1 DEF StatusOf, now, next, Requests
  <2>5. next = [now EXCEPT ![accepted + 1] = "pending"]
    BY <2>3, <2>4 DEF now, next
  <2>6. Lifecycle!Accept(accepted + 1)
    BY <1>1, <2>2, <2>5 DEF Lifecycle!Accept
  <2> QED BY <2>1, <2>6 DEF Lifecycle!Next
<1>11. ASSUME NEW r \in Requests, TakesRequest(r) PROVE FALSE
  BY <1>11 DEF TakesRequest, Uniform, NoSplit
<1>12. ASSUME NEW r \in Requests, SucceedsRequest(r) PROVE Lifecycle!Next
  <2>1. /\ r \in Held /\ calls' = Reported(calls, {r}, TRUE)
        /\ accepted' = accepted /\ {r} \subseteq Held
    BY <1>3, <1>12 DEF SucceedsRequest
  <2>2. next = [q \in Requests |->
                  IF q \in {r} THEN IF TRUE THEN "succeeded" ELSE "failed"
                               ELSE now[q]]
    BY <1>6, <2>1
  <2>3. next = [now EXCEPT ![r] = "succeeded"] /\ now[r] = "pending"
    BY <1>4, <2>1, <2>2 DEF now
  <2>4. Lifecycle!Succeed(r)
    BY <1>1, <2>3 DEF Lifecycle!Succeed
  <2> QED BY <2>4 DEF Lifecycle!Next
<1>13. ASSUME calls' = Reported(calls, Held, FALSE), accepted' = accepted
       PROVE  Lifecycle!Next
  <2>1. next = [r \in Requests |->
                  IF r \in Held THEN IF FALSE THEN "succeeded" ELSE "failed"
                                ELSE now[r]]
    BY <1>6, <1>13
  <2> QED BY <1>4, <1>7, <2>1
<1>14. CASE LosesConnection
  <2>1. accepted' = accepted /\ FlushesIf(clean_session, FALSE)
    BY <1>14 DEF LosesConnection
  <2>2. calls' = calls \/ calls' = Reported(calls, Held, FALSE)
    BY <2>1, Zenon DEF FlushesIf
  <2> QED BY <1>5, <1>8, <1>13, <2>1, <2>2
<1>15. CASE GetsConnack
  <2>1. /\ accepted' = accepted /\ ~closed /\ current = "connect"
        /\ IF connect_clean THEN calls' = Reported(calls, Held, TRUE)
                            ELSE calls' = calls
    BY <1>15 DEF GetsConnack, FlushesIf
  <2>2. AllKept => ~connect_clean
    BY Zenon DEF RequestInv, Sessions
  <2>3. AllClean => Held = {}
    BY <2>1, Zenon DEF RequestInv, Sessions
  <2>4. Reported(calls, {}, TRUE) = calls
    BY ReportedNone DEF RequestInv, SafeInv
  <2>5. calls' = calls
    BY <2>1, <2>2, <2>3, <2>4, Zenon DEF Uniform
  <2> QED BY <1>5, <1>8, <2>1, <2>5
<1>16. CASE FinalizesAll
  <2>1. Reported(calls, Taken, FALSE) = calls
    BY <1>3, ReportedNone DEF RequestInv, SafeInv
  <2>2. calls' = Reported(calls, Held, FALSE) /\ accepted' = accepted
    BY <1>16, <2>1 DEF FinalizesAll
  <2> QED BY <1>13, <2>2
<1> QED
  BY <1>9, <1>10, <1>11, <1>12, <1>14, <1>15, <1>16, Zenon DEF RequestStep

(* An application whose callbacks return 1 and whose sessions are of one   *)
(* kind, with a peer whose responses arrive in one piece, sees what        *)
(* RequestLifecycle promises: every request pending until its one          *)
(* callback, and the requests of a session failing all together.           *)
THEOREM ClientImplementsLifecycle ==
  ASSUME Uniform
  PROVE  Spec => ImplementsLifecycle
<1>1. Init => Lifecycle!Init
  BY InitLifecycle
<1>2. RequestInv /\ RequestInv' /\ [Next]_vars
        => [Lifecycle!Next]_[r \in Requests |-> Status(r)]
  <2>1. SUFFICES ASSUME RequestInv, RequestInv', [Next]_vars
        PROVE  Lifecycle!Next \/ UNCHANGED [r \in Requests |-> Status(r)]
    OBVIOUS
  <2>2. RequestStep \/ UNCHANGED vars
    BY <2>1, NextRequests
  <2>3. CASE UNCHANGED vars
    <3>1. \A r \in Requests : Status(r)' = StatusOf(accepted', calls', r)
      BY <2>1, StatusNext
    <3>2. \A r \in Requests : Status(r) = StatusOf(accepted, calls, r)
      BY <2>1, StatusNow
    <3>3. accepted' = accepted /\ calls' = calls
      BY <2>3 DEF vars, history
    <3>4. \A r \in Requests : Status(r)' = Status(r)
      BY <3>1, <3>2, <3>3
    <3> QED BY <3>4
  <2> QED BY <2>1, <2>2, <2>3, StepLifecycle
<1> QED
  BY <1>1, <1>2, RequestsInvariant, PTL
     DEF Spec, ImplementsLifecycle, Lifecycle!Spec
=============================================================================
