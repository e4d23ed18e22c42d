----------------------------- MODULE LmqttStore -----------------------------
(***************************************************************************)
(* The packet store of lmqtt_store.c: a bounded array of requests and      *)
(* replies, in the order they were appended, and a position in it.  The    *)
(* entries before the position are marked: they have been encoded and wait *)
(* for the peer's response.  The entry at the position, the current one,   *)
(* is the next that the encoder takes.                                     *)
(*                                                                         *)
(* A store is a record [entries, pos]; the operators below are the store's *)
(* functions, and the client keeps two stores.  TLA+ sequences start at 1, *)
(* so the C index i is the position i + 1 here.                            *)
(*                                                                         *)
(* Here and in the other modules a definition X_Y, placed before X, is a   *)
(* plausible slip in writing X; no other definition uses it.  Substituting *)
(* it for X shows that the properties would notice.                        *)
(***************************************************************************)
EXTENDS Naturals, Sequences, SequencesExt

(* The kinds of packet a store may hold (the kinds of lmqtt_kind_t).       *)
Kinds == {"CONNECT", "PUBLISH_0", "PUBLISH_1", "PUBLISH_2", "PUBACK",
          "PUBREC", "PUBREL", "PUBCOMP", "SUBSCRIBE", "UNSUBSCRIBE",
          "PINGREQ", "DISCONNECT"}

(* The kinds that the peer answers; a packet of any other kind leaves the  *)
(* store as soon as it is encoded.                                         *)
ExpectsResponse_NotPubrel(kind) ==
  kind \in {"CONNECT", "PUBLISH_1", "PUBLISH_2", "SUBSCRIBE", "UNSUBSCRIBE",
            "PINGREQ"}
ExpectsResponse(kind) ==
  kind \notin {"PUBLISH_0", "PUBACK", "PUBREC", "PUBCOMP", "DISCONNECT"}

EmptyStore == [entries |-> <<>>, pos |-> 0]

Count(s) == Len(s.entries)

IsQueueable_OneMore(s, capacity) == Count(s) <= capacity
IsQueueable(s, capacity) == Count(s) < capacity

HasCurrent(s) == s.pos < Count(s)

Current(s) == s.entries[s.pos + 1]

(* The type of a store with entries from E.                                *)
WellFormed(s, E) ==
  /\ s \in [entries: Seq(E), pos: Nat]
  /\ s.pos <= Count(s)

(* Callers check IsQueueable first: a full store refuses the entry.        *)
Appended(s, e) == [s EXCEPT !.entries = Append(@, e)]

(* Taking an entry out shifts the ones behind it, and the position with    *)
(* them when the entry was marked.                                         *)
PopAt_PosClamped(s, i) ==
  [entries |-> RemoveAt(s.entries, i),
   pos     |-> IF s.pos = Count(s) THEN s.pos - 1 ELSE s.pos]
PopAt_LastFillsHole(s, i) ==
  [entries |-> SubSeq([s.entries EXCEPT ![i] = s.entries[Count(s)]],
                      1, Count(s) - 1),
   pos     |-> IF s.pos >= i THEN s.pos - 1 ELSE s.pos]
PopAt(s, i) ==
  [entries |-> RemoveAt(s.entries, i),
   pos     |-> IF s.pos >= i THEN s.pos - 1 ELSE s.pos]

MarkCurrent(s) == [s EXCEPT !.pos = @ + 1]

DropCurrent_Marks(s) == MarkCurrent(s)
DropCurrent(s) == PopAt(s, s.pos + 1)

UnmarkAll(s) == [s EXCEPT !.pos = 0]

(* The marked entries that a response of that kind and packet id answers.  *)
Matching(s, kind, id) ==
  {i \in 1 .. s.pos : s.entries[i].kind = kind /\ s.entries[i].id = id}

(* The first of them is the one the response is taken to answer.           *)
Found(s, kind, id) ==
  CHOOSE i \in Matching(s, kind, id) :
    \A j \in Matching(s, kind, id) : i <= j

PopMarkedBy_Stays(s, kind, id) == s
PopMarkedBy(s, kind, id) == PopAt(s, Found(s, kind, id))

(* The kinds of the entries, and of the marked ones.                       *)
KindsIn(s) == {s.entries[i].kind : i \in 1 .. Count(s)}
MarkedKinds(s) == {s.entries[i].kind : i \in 1 .. s.pos}

(* The loop that walks the store and deletes the entries of some kinds:    *)
(* Kept(s, kinds)[i] is what is left of the first i entries.               *)
Kept(s, kinds) ==
  LET left[i \in 0 .. Count(s)] ==
        IF i = 0 THEN <<>>
        ELSE IF s.entries[i].kind \in kinds THEN left[i - 1]
        ELSE Append(left[i - 1], s.entries[i])
  IN left

DeleteKinds(s, kinds) ==
  [entries |-> Kept(s, kinds)[Count(s)], pos |-> Len(Kept(s, kinds)[s.pos])]
=============================================================================
