------------------------ MODULE BrokerQueuesCommands ------------------------
(***************************************************************************)
(* Facts about the operators of BrokerQueues: what trimming, rewriting,    *)
(* appending and reclaiming do to streams, deliveries, payloads and        *)
(* segments.  Then QueuesInv is kept by the commands that change           *)
(* declarations, or rewrite references in place: settlement, purging,      *)
(* delivery and leases.                                                    *)
(***************************************************************************)
EXTENDS BrokerQueues, FiniteSetTheorems, WellFoundedInduction, TLAPS

(* A nonempty set of naturals has a least element, and Min is it.          *)
LEMMA LeastNatural ==
  ASSUME NEW S \in SUBSET Nat, S # {}
  PROVE  Min(S) \in S /\ \A y \in S : Min(S) <= y
<1>1. PICK x \in S : \A y \in S : ~(<<y, x>> \in OpToRel(<, Nat))
  BY Zenon, WFMin, NatLessThanWellFounded
<1>2. ASSUME NEW y \in S PROVE x <= y
  <2>1. y \in Nat /\ x \in Nat
    BY Zenon
  <2>2. ~(y < x)
    BY Zenon, <1>1, <2>1 DEF OpToRel
  <2> QED BY <2>1, <2>2
<1> QED BY Zenon, <1>2 DEF Min

(* Rewriting the references of a stream keeps its shape.                   *)
LEMMA StreamRewrite ==
  ASSUME NEW st, IsStream(st), NEW f \in [Offsets(st) -> Reference],
         NEW new, new = [st EXCEPT !.records = f]
  PROVE  /\ IsStream(new) /\ Offsets(new) = Offsets(st)
         /\ new.base_offset = st.base_offset /\ new.next_offset = st.next_offset
         /\ new.bytes = st.bytes /\ new.records = f
<1>1. new = [base_offset |-> st.base_offset, next_offset |-> st.next_offset,
             bytes |-> st.bytes, records |-> f]
  BY Zenon DEF IsStream
<1> QED BY Zenon, <1>1 DEF IsStream, Offsets

\* A reference nobody was handed.
Fresh(ref) == ref.delivery = "Ready" /\ ref.redelivered = FALSE /\ ref.handouts = 0

(* A reference that was just appended.                                     *)
LEMMA FreshIsReference ==
  ASSUME NEW m \in 1 .. MaxMessages
  PROVE  /\ FreshReference(m) \in Reference /\ FreshReference(m).message = m
         /\ Fresh(FreshReference(m))
<1>1. 0 \in Nat
  BY SMT
<1> QED BY Zenon, <1>1 DEF FreshReference, Reference, Fresh

(* A reference that is handed out once more.                               *)
LEMMA HandoutFact ==
  ASSUME NEW ref \in Reference
  PROVE  ref.handouts + 1 \in Nat /\ ref.handouts + 1 # 0
<1>1. ref.handouts \in Nat
  BY Zenon DEF Reference
<1> QED BY SMT, <1>1

(* The stream new is st and n fresh references, to the messages of msg.    *)
AppendsTo(st, new, n, msg) ==
    /\ IsStream(new) /\ new.bytes = new.next_offset - new.base_offset
    /\ new.base_offset = st.base_offset /\ new.next_offset = st.next_offset + n
    /\ \A o \in Offsets(st) : o \in Offsets(new) /\ new.records[o] = st.records[o]
    /\ \A o \in Offsets(new) \ Offsets(st) :
          \E i \in 1 .. n : o = st.next_offset + i - 1 /\ new.records[o] = FreshReference(msg[i])
    /\ \A i \in 1 .. n : /\ st.next_offset + i - 1 \in Offsets(new) \ Offsets(st)
                         /\ new.records[st.next_offset + i - 1] = FreshReference(msg[i])

(* Appending n references keeps the ones that are there and adds n fresh   *)
(* ones at the end.                                                        *)
LEMMA StreamAppend ==
  ASSUME NEW st, IsStream(st), st.bytes = st.next_offset - st.base_offset,
         NEW n \in Nat, NEW msg, \A i \in 1 .. n : msg[i] \in 1 .. MaxMessages,
         NEW new, new = Appended(st, n, msg)
  PROVE  AppendsTo(st, new, n, msg)
<1> DEFINE recs == [o \in st.base_offset .. st.next_offset + n - 1 |->
                     IF o < st.next_offset THEN st.records[o]
                                           ELSE FreshReference(msg[o - st.next_offset + 1])]
<1>1. new = [base_offset |-> st.base_offset, next_offset |-> st.next_offset + n,
             bytes |-> st.bytes + n, records |-> recs]
  BY Zenon DEF Appended
<1>2. /\ st.base_offset \in Nat /\ st.next_offset \in Nat /\ st.bytes \in Nat
      /\ st.base_offset <= st.next_offset /\ st.records \in [Offsets(st) -> Reference]
  BY Zenon DEF IsStream
<1>3. ASSUME NEW o \in st.base_offset .. st.next_offset + n - 1
      PROVE  /\ o < st.next_offset => recs[o] = st.records[o] /\ st.records[o] \in Reference
             /\ ~(o < st.next_offset) =>
                   /\ o - st.next_offset + 1 \in 1 .. n
                   /\ recs[o] = FreshReference(msg[o - st.next_offset + 1])
                   /\ recs[o] \in Reference
  <2>1. CASE o < st.next_offset
    <3>1. recs[o] = st.records[o]
      BY Zenon, <2>1
    <3> HIDE DEF recs
    <3>2. o \in Offsets(st)
      BY <1>2, <2>1 DEF Offsets
    <3>3. st.records[o] \in Reference
      BY Zenon, <1>2, <3>2
    <3> QED BY Zenon, <2>1, <3>1, <3>3
  <2>2. CASE ~(o < st.next_offset)
    <3>1. o - st.next_offset + 1 \in 1 .. n
      BY <1>2, <2>2
    <3> QED BY Zenon, <2>2, <3>1, FreshIsReference
  <2> QED BY Zenon, <2>1, <2>2
<1>0. /\ new.base_offset = st.base_offset /\ new.next_offset = st.next_offset + n
      /\ new.bytes = st.bytes + n /\ new.records = recs
  BY <1>1
<1>10. new = [base_offset |-> new.base_offset, next_offset |-> new.next_offset,
              bytes |-> new.bytes, records |-> new.records]
  BY Zenon, <1>1
<1>5. recs \in [st.base_offset .. st.next_offset + n - 1 -> Reference]
  BY Zenon, <1>3
<1> HIDE DEF recs
<1>4. Offsets(new) = st.base_offset .. st.next_offset + n - 1
  <2>1. Offsets(new) = new.base_offset .. (new.next_offset - 1)
    BY Zenon DEF Offsets
  <2>2. new.next_offset - 1 = st.next_offset + n - 1 /\ new.base_offset = st.base_offset
    BY <1>0, <1>2
  <2> QED BY Zenon, <2>1, <2>2
<1>6. IsStream(new) /\ new.bytes = new.next_offset - new.base_offset
  BY <1>0, <1>2, <1>4, <1>5, <1>10 DEF IsStream
<1>7. ASSUME NEW o \in Offsets(st)
      PROVE  o \in Offsets(new) /\ new.records[o] = st.records[o]
  <2>1. o \in st.base_offset .. st.next_offset + n - 1 /\ o < st.next_offset
    BY <1>2 DEF Offsets
  <2> QED BY Zenon, <1>0, <1>3, <1>4, <2>1
<1>8. ASSUME NEW o \in Offsets(new) \ Offsets(st)
      PROVE  \E i \in 1 .. n : o = st.next_offset + i - 1 /\ new.records[o] = FreshReference(msg[i])
  <2>1. o \in st.base_offset .. st.next_offset + n - 1
    BY Zenon, <1>4
  <2>0. ~(o < st.next_offset)
    BY <1>2, <2>1 DEF Offsets
  <2>2. o - st.next_offset + 1 \in 1 .. n /\ o = st.next_offset + (o - st.next_offset + 1) - 1
    BY <1>2, <1>3, <2>0, <2>1
  <2> QED BY Zenon, <1>0, <1>3, <2>0, <2>1, <2>2
<1>9. ASSUME NEW i \in 1 .. n
      PROVE  /\ st.next_offset + i - 1 \in Offsets(new) \ Offsets(st)
             /\ new.records[st.next_offset + i - 1] = FreshReference(msg[i])
  <2>1. /\ st.next_offset + i - 1 \in st.base_offset .. st.next_offset + n - 1
        /\ ~(st.next_offset + i - 1 < st.next_offset)
        /\ (st.next_offset + i - 1) - st.next_offset + 1 = i
        /\ st.next_offset + i - 1 \notin Offsets(st)
    BY <1>2 DEF Offsets
  <2> QED BY Zenon, <1>0, <1>3, <1>4, <2>1
<1> QED BY Zenon, <1>0, <1>6, <1>7, <1>8, <1>9 DEF AppendsTo

(* Trimming drops a prefix and its weight.                                 *)
LEMMA StreamTrim ==
  ASSUME NEW st, IsStream(st), st.bytes = st.next_offset - st.base_offset,
         NEW b \in st.base_offset .. st.next_offset, NEW new, new = Trimmed(st, b)
  PROVE  /\ IsStream(new) /\ new.bytes = new.next_offset - new.base_offset
         /\ new.base_offset = b /\ new.next_offset = st.next_offset
         /\ Offsets(new) \subseteq Offsets(st)
         /\ Offsets(st) \ Offsets(new) = st.base_offset .. b - 1
         /\ \A o \in Offsets(new) : new.records[o] = st.records[o]
<1> DEFINE recs == [o \in b .. st.next_offset - 1 |-> st.records[o]]
<1>1. /\ st.base_offset \in Nat /\ st.next_offset \in Nat /\ st.bytes \in Nat
      /\ st.base_offset <= st.next_offset /\ st.records \in [Offsets(st) -> Reference]
  BY Zenon DEF IsStream
<1>2. new = [base_offset |-> b, next_offset |-> st.next_offset,
             bytes |-> st.bytes - (b - st.base_offset), records |-> recs]
  BY Zenon DEF Trimmed, IsStream
<1>3. recs \in [b .. st.next_offset - 1 -> Reference]
  BY <1>1 DEF Offsets
<1>4. /\ new.base_offset = b /\ new.next_offset = st.next_offset
      /\ new.bytes = st.bytes - (b - st.base_offset) /\ new.records = recs
      /\ new = [base_offset |-> new.base_offset, next_offset |-> new.next_offset,
                bytes |-> new.bytes, records |-> new.records]
  BY <1>2
<1>5. \A o \in b .. st.next_offset - 1 : recs[o] = st.records[o]
  BY Zenon
<1> HIDE DEF recs
<1>6. Offsets(new) = b .. st.next_offset - 1
  BY Zenon, <1>4 DEF Offsets
<1>7. /\ Offsets(new) \subseteq Offsets(st)
      /\ Offsets(st) \ Offsets(new) = st.base_offset .. b - 1
  <2>1. b \in Nat /\ Offsets(st) = st.base_offset .. st.next_offset - 1
    BY <1>1 DEF Offsets
  <2> QED BY <1>1, <1>6, <2>1
<1>8. /\ b \in Nat /\ st.bytes - (b - st.base_offset) \in Nat /\ b <= st.next_offset
      /\ st.bytes - (b - st.base_offset) = st.next_offset - b
  BY <1>1
<1>9. IsStream(new) /\ new.bytes = new.next_offset - new.base_offset
  BY Zenon, <1>1, <1>3, <1>4, <1>6, <1>8 DEF IsStream
<1> QED BY Zenon, <1>4, <1>5, <1>6, <1>7, <1>9

(* retain stops at the first delivery that is out.                         *)
LEMMA FirstKeptFact ==
  ASSUME NEW st, IsStream(st), NEW policy
  PROVE  /\ FirstKept(st, policy) \in st.base_offset .. st.next_offset
         /\ \A o \in st.base_offset .. FirstKept(st, policy) - 1 : st.records[o].delivery # "Unacked"
<1> DEFINE removable(o) ==
            /\ st.records[o].delivery # "Unacked"
            /\ \/ policy.max_age # NIL /\ clock - payloads[st.records[o].message].time >= policy.max_age
               \/ policy.max_bytes # NIL /\ st.bytes - (o - st.base_offset) > policy.max_bytes
               \/ st.records[o].delivery \in {"Acknowledged", "DeadLettered"}
           S == {o \in st.base_offset .. st.next_offset : o = st.next_offset \/ ~removable(o)}
<1>1. st.base_offset \in Nat /\ st.next_offset \in Nat /\ st.base_offset <= st.next_offset
  BY Zenon DEF IsStream
<1>2. FirstKept(st, policy) = Min(S)
  BY Zenon DEF FirstKept
<1>3. \A o \in st.base_offset .. st.next_offset :
         o \notin S => st.records[o].delivery # "Unacked"
  BY Zenon
<1>4. S \subseteq st.base_offset .. st.next_offset /\ st.next_offset \in S
  BY <1>1
<1> HIDE DEF S
<1>5. Min(S) \in S /\ \A y \in S : Min(S) <= y
  BY <1>1, <1>4, LeastNatural
<1>6. /\ Min(S) \in st.base_offset .. st.next_offset
      /\ \A o \in st.base_offset .. Min(S) - 1 :
            o \in st.base_offset .. st.next_offset /\ o \notin S
  <2>1. Min(S) \in st.base_offset .. st.next_offset
    BY Zenon, <1>4, <1>5
  <2>2. ASSUME NEW o \in st.base_offset .. Min(S) - 1
        PROVE  o \in st.base_offset .. st.next_offset /\ o \notin S
    <3>1. Min(S) \in Nat /\ o \in Nat /\ o < Min(S) /\ o <= st.next_offset
      BY <1>1, <2>1
    <3>2. ~(Min(S) <= o)
      BY <3>1
    <3> QED BY <1>1, <1>5, <3>1, <3>2
  <2> QED BY Zenon, <2>1, <2>2
<1> QED BY Zenon, <1>2, <1>3, <1>6

(* remove_payload: the messages no stream refers to any more go, each one  *)
(* out of its segment, and a segment goes with its last message.           *)
LEMMA ReclaimFact ==
  ASSUME CursorsOK, PayloadsOK, PayloadsExact, SegmentsExact, UNCHANGED cursors,
         NEW candidates, NEW ss, Messages(ss) \subseteq Messages(streams),
         Messages(streams) \ Messages(ss) \subseteq candidates,
         Reclaim(candidates, ss)
  PROVE  /\ DOMAIN payloads' = Messages(ss) /\ PayloadsOK' /\ SegmentsExact'
<1> DEFINE P == DOMAIN payloads
           dead == Dead(candidates, ss)
           all(g) == InSegment(P, g)
           gone(g) == InSegment(dead, g)
           left(g) == segments[g] - Cardinality(gone(g))
<1>1. dead \subseteq P /\ P \ dead = Messages(ss)
  BY Zenon DEF Dead, PayloadsExact
<1>2. /\ DOMAIN payloads' = P \ dead
      /\ \A m \in P \ dead : payloads'[m] = payloads[m]
  BY Zenon DEF Reclaim, Drop
<1>3. /\ DOMAIN segments' = {h \in DOMAIN segments : left(h) # 0}
      /\ \A g \in DOMAIN segments' : segments'[g] = left(g)
  BY Zenon DEF Reclaim
<1>4. IsFiniteSet(P)
  <2>1. IsFiniteSet(1 .. next_message_id)
    BY FS_Interval DEF CursorsOK
  <2> QED BY Zenon, <2>1, FS_Subset DEF PayloadsOK
<1>5. ASSUME NEW g
      PROVE  /\ IsFiniteSet(all(g)) /\ IsFiniteSet(gone(g)) /\ IsFiniteSet(all(g) \ gone(g))
             /\ Cardinality(gone(g)) \in Nat
             /\ Cardinality(all(g) \ gone(g)) = Cardinality(all(g)) - Cardinality(gone(g))
             /\ Cardinality(all(g) \ gone(g)) \in Nat
             /\ all(g) \ gone(g) = {m \in P \ dead : payloads[m].segment = g}
             /\ Cardinality(all(g) \ gone(g)) = 0 <=> all(g) \ gone(g) = {}
  <2>1. all(g) \in SUBSET P /\ gone(g) \in SUBSET P /\ all(g) \cap gone(g) = gone(g)
    BY Zenon, <1>1 DEF InSegment
  <2>2. IsFiniteSet(all(g)) /\ IsFiniteSet(gone(g))
    BY Zenon, <1>4, <2>1, FS_Subset
  <2>3. /\ IsFiniteSet(all(g) \ gone(g))
        /\ Cardinality(all(g) \ gone(g)) = Cardinality(all(g)) - Cardinality(all(g) \cap gone(g))
    BY Zenon, <2>2, FS_Difference
  <2>4. all(g) \ gone(g) = {m \in P \ dead : payloads[m].segment = g}
    BY Zenon, <1>1 DEF InSegment
  <2> QED BY Zenon, <2>1, <2>2, <2>3, <2>4, FS_CardinalityType, FS_EmptySet
<1>6. ASSUME NEW g \in DOMAIN segments
      PROVE  left(g) = Cardinality(all(g) \ gone(g)) /\ left(g) \in Nat
  <2>1. segments[g] = Cardinality(all(g))
    BY Zenon, <1>6 DEF SegmentsExact
  <2>2. /\ Cardinality(all(g) \ gone(g)) = Cardinality(all(g)) - Cardinality(gone(g))
        /\ Cardinality(all(g) \ gone(g)) \in Nat
    BY Zenon, <1>5
  <2> HIDE DEF P, dead, all, gone
  <2> QED BY Zenon, <2>1, <2>2
<1>7. ASSUME NEW g
      PROVE  InSegment(DOMAIN payloads, g)' = all(g) \ gone(g)
  BY Zenon, <1>2, <1>5 DEF InSegment
<1> HIDE DEF P, dead, all, gone
<1>8. DOMAIN segments' = {payloads'[m].segment : m \in DOMAIN payloads'}
  <2>1. ASSUME NEW g \in DOMAIN segments' PROVE \E m \in DOMAIN payloads' : g = payloads'[m].segment
    <3>1. g \in DOMAIN segments /\ all(g) \ gone(g) # {}
      BY Zenon, <1>3, <1>5, <1>6
    <3> QED BY Zenon, <1>2, <1>5, <3>1
  <2>2. ASSUME NEW m \in DOMAIN payloads' PROVE payloads'[m].segment \in DOMAIN segments'
    <3>1. m \in P \ dead /\ payloads'[m] = payloads[m]
      BY Zenon, <1>2
    <3>2. payloads[m].segment \in DOMAIN segments
      BY Zenon, <3>1 DEF SegmentsExact, P
    <3>3. m \in all(payloads[m].segment) \ gone(payloads[m].segment)
      BY Zenon, <1>5, <3>1
    <3>4. left(payloads[m].segment) # 0
      BY Zenon, <1>5, <1>6, <3>2, <3>3
    <3> QED BY Zenon, <1>3, <3>1, <3>2, <3>4
  <2> QED BY Zenon, <2>1, <2>2
<1>9. SegmentsExact'
  BY Zenon, <1>3, <1>6, <1>7, <1>8 DEF SegmentsExact
<1>10. PayloadsOK'
  <2>1. DOMAIN payloads' \subseteq 1 .. next_message_id'
    BY Zenon, <1>1, <1>2 DEF PayloadsOK, cursors, P
  <2>2. \A m \in DOMAIN payloads' : payloads'[m] \in [segment : 1 .. next_payload_segment_id', time : Nat]
    BY Zenon, <1>1, <1>2 DEF PayloadsOK, cursors, P
  <2>3. /\ DOMAIN segments' \subseteq 1 .. next_payload_segment_id'
        /\ \A g \in DOMAIN segments' : segments'[g] \in Nat \ {0}
    BY Zenon, <1>3, <1>6 DEF PayloadsOK, cursors
  <2> QED BY Zenon, <2>1, <2>2, <2>3 DEF PayloadsOK
<1> QED BY Zenon, <1>1, <1>2, <1>9, <1>10

(* A batch of n messages takes n fresh identifiers and one fresh segment.  *)
LEMMA AllocateFact ==
  ASSUME CursorsOK, PayloadsOK, SegmentsExact, NEW n \in Nat \ {0}, Allocate(n),
         UNCHANGED <<next_stream_id, clock>>, BrokerQueuesAssumption
  PROVE  /\ CursorsOK' /\ PayloadsOK' /\ SegmentsExact'
         /\ DOMAIN payloads' = DOMAIN payloads \cup (next_message_id + 1 .. next_message_id + n)
<1> DEFINE P == DOMAIN payloads
           fresh == next_message_id + 1 .. next_message_id + n
           h == next_payload_segment_id + 1
<1>1. /\ next_message_id \in Nat /\ next_payload_segment_id \in Nat /\ MaxMessages \in Nat
      /\ next_message_id' = next_message_id + n /\ next_payload_segment_id' = h
      /\ next_message_id + n <= MaxMessages /\ clock \in Nat
  BY DEF CursorsOK, Allocate, BrokerQueuesAssumption
<1>2. CursorsOK'
  BY <1>1 DEF CursorsOK
<1>3. P \cap fresh = {} /\ fresh \subseteq 1 .. next_message_id' /\ P \subseteq 1 .. next_message_id'
  BY <1>1 DEF PayloadsOK
<1>4. /\ DOMAIN payloads' = P \cup fresh
      /\ \A m \in P : payloads'[m] = payloads[m]
      /\ \A m \in fresh : payloads'[m] = [segment |-> h, time |-> clock]
  BY Zenon, <1>1, <1>3 DEF Allocate
<1>5. /\ DOMAIN segments' = DOMAIN segments \cup {h}
      /\ \A g \in DOMAIN segments : g # h => segments'[g] = segments[g]
      /\ segments'[h] = n
  BY Zenon, <1>1 DEF Allocate, Put
<1>6. h \notin DOMAIN segments /\ \A m \in P : payloads[m].segment # h
  BY <1>1 DEF PayloadsOK
<1>7. Cardinality(fresh) = n /\ n # 0 /\ fresh # {}
  <2>1. Cardinality(fresh) = IF next_message_id + 1 > next_message_id + n THEN 0
                             ELSE (next_message_id + n) - (next_message_id + 1) + 1
    BY <1>1, FS_Interval
  <2>2. next_message_id + 1 \in fresh
    BY <1>1
  <2> QED BY <1>1, <2>1, <2>2
<1>0. \A m \in fresh : payloads'[m].segment = h
  BY <1>4
<1> HIDE DEF P, fresh, h
<1>8. ASSUME NEW g, g = h PROVE InSegment(DOMAIN payloads, g)' = fresh
  <2>1. \A m \in P \cup fresh : payloads'[m].segment = g <=> m \in fresh
    BY Zenon, <1>0, <1>3, <1>4, <1>6, <1>8
  <2>2. InSegment(DOMAIN payloads, g)' = {m \in P \cup fresh : payloads'[m].segment = g}
    BY Zenon, <1>4 DEF InSegment
  <2> QED BY Zenon, <2>1, <2>2
<1>9. ASSUME NEW g, g # h
      PROVE  InSegment(DOMAIN payloads, g)' = InSegment(DOMAIN payloads, g)
  <2>1. \A m \in fresh : payloads'[m].segment # g
    BY Zenon, <1>0, <1>9
  <2>2. \A m \in P : payloads'[m] = payloads[m]
    BY Zenon, <1>4
  <2>3. /\ InSegment(DOMAIN payloads, g)' = {m \in P \cup fresh : payloads'[m].segment = g}
        /\ InSegment(DOMAIN payloads, g) = {m \in P : payloads[m].segment = g}
    BY Zenon, <1>4 DEF InSegment, P
  <2> QED BY Zenon, <2>1, <2>2, <2>3
<1>10. DOMAIN segments' = {payloads'[m].segment : m \in DOMAIN payloads'}
  <2>1. DOMAIN segments = {payloads[m].segment : m \in P}
    BY Zenon DEF SegmentsExact, P
  <2>2. ASSUME NEW g \in DOMAIN segments'
        PROVE  \E m \in P \cup fresh : payloads'[m].segment = g
    BY <1>0, <1>4, <1>5, <1>7, <2>1
  <2>3. ASSUME NEW m \in P \cup fresh
        PROVE  payloads'[m].segment \in DOMAIN segments'
    BY <1>0, <1>4, <1>5, <2>1
  <2> QED BY <1>4, <2>2, <2>3
<1>11. SegmentsExact'
  <2>1. ASSUME NEW g \in DOMAIN segments'
        PROVE  segments'[g] = Cardinality(InSegment(DOMAIN payloads, g)')
    <3>1. CASE g = h
      BY Zenon, <1>5, <1>7, <1>8, <3>1
    <3>2. CASE g # h
      BY Zenon, <1>5, <1>9, <3>2 DEF SegmentsExact
    <3> QED BY Zenon, <3>1, <3>2
  <2> QED BY Zenon, <1>10, <2>1 DEF SegmentsExact
<1> USE DEF h
<1>12. PayloadsOK'
  <2>1. \A m \in fresh : payloads'[m] \in [segment : 1 .. h, time : Nat]
    BY <1>1, <1>4
  <2>2. \A m \in P : payloads'[m] \in [segment : 1 .. h, time : Nat]
    BY <1>1, <1>4 DEF PayloadsOK, P
  <2>3. DOMAIN segments' \subseteq 1 .. h /\ \A g \in DOMAIN segments' : segments'[g] \in Nat \ {0}
    BY <1>1, <1>5, <1>6 DEF PayloadsOK
  <2> QED BY Zenon, <1>1, <1>3, <1>4, <2>1, <2>2, <2>3 DEF PayloadsOK
<1> QED BY Zenon, <1>2, <1>4, <1>11, <1>12 DEF P, fresh

(* owner_has_unacked misses nothing when every stream belongs to a queue   *)
(* and only classic queues have deliveries out.                            *)
LEMMA OwnerUnacked ==
  ASSUME NEW qs, NEW ss, DOMAIN ss = {qs[q].stream : q \in DOMAIN qs},
         \A s \in DOMAIN ss : \A o \in Offsets(ss[s]) : ss[s].records[o].delivery = "Unacked" =>
            \E q \in DOMAIN qs : qs[q].kind = "Classic" /\ qs[q].stream = s,
         NEW w
  PROVE  OwnerHasUnacked(qs, ss, w) <=> \E s \in DOMAIN ss : UnackedIn(ss[s], w) # {}
<1>1. ASSUME NEW s \in DOMAIN ss, UnackedIn(ss[s], w) # {}
      PROVE  \E q \in DOMAIN qs : qs[q].kind = "Classic" /\ qs[q].stream = s
  BY Zenon, <1>1 DEF UnackedIn
<1> QED BY Zenon, <1>1 DEF OwnerHasUnacked

(* A reference that is settled or requeued is out to nobody.               *)
LEMMA SettledFact ==
  ASSUME NEW ref \in Reference, NEW outcome \in {"Ready", "Acknowledged", "DeadLettered"}
  PROVE  /\ Settled(ref, outcome) \in Reference /\ Requeued(ref) \in Reference
         /\ Settled(ref, outcome).message = ref.message /\ Requeued(ref).message = ref.message
         /\ Settled(ref, outcome).delivery = outcome /\ Requeued(ref).delivery = "Ready"
         /\ AfterSettling(ref, outcome) \in Reference /\ AfterSettling(ref, outcome).message = ref.message
         /\ AfterSettling(ref, outcome).delivery = outcome
<1>1. /\ Settled(ref, outcome) \in Reference /\ Requeued(ref) \in Reference
      /\ Settled(ref, outcome).message = ref.message /\ Requeued(ref).message = ref.message
      /\ Settled(ref, outcome).delivery = outcome /\ Requeued(ref).delivery = "Ready"
  BY Zenon DEF Settled, Requeued, Reference
<1> QED BY Zenon, <1>1 DEF AfterSettling

\* The stream has the same offsets and messages.
SameShape(old, new) ==
    /\ IsStream(new) /\ Offsets(new) = Offsets(old)
    /\ new.base_offset = old.base_offset /\ new.next_offset = old.next_offset /\ new.bytes = old.bytes
    /\ \A o \in Offsets(old) : new.records[o].message = old.records[o].message

(* Streams of the same shape refer to the same messages.                   *)
LEMMA ShapeMessages ==
  ASSUME NEW ss, NEW new, DOMAIN new = DOMAIN ss, \A s \in DOMAIN ss : SameShape(ss[s], new[s])
  PROVE  Messages(new) = Messages(ss)
<1>1. ASSUME NEW s \in DOMAIN ss PROVE MessagesIn(new[s]) = MessagesIn(ss[s])
  <2>1. SameShape(ss[s], new[s])
    BY Zenon
  <2> QED BY <2>1 DEF SameShape, MessagesIn
<1> QED BY Zenon, <1>1 DEF Messages

(* Rewriting one stream's references, message by message.                  *)
LEMMA RewriteFact ==
  ASSUME NEW ss, \A t \in DOMAIN ss : IsStream(ss[t]), NEW s \in DOMAIN ss,
         NEW f, f \in [Offsets(ss[s]) -> Reference],
         \A o \in Offsets(ss[s]) : f[o].message = ss[s].records[o].message,
         NEW new, new = RewriteRecords(ss, s, f)
  PROVE  /\ DOMAIN new = DOMAIN ss /\ \A t \in DOMAIN ss : SameShape(ss[t], new[t])
         /\ \A t \in DOMAIN ss : t # s => new[t] = ss[t]
         /\ new[s].records = f
<1>1. /\ DOMAIN new = DOMAIN ss /\ \A t \in DOMAIN ss : t # s => new[t] = ss[t]
      /\ new[s] = [ss[s] EXCEPT !.records = f]
  BY Zenon DEF RewriteRecords
<1>2. SameShape(ss[s], new[s]) /\ new[s].records = f
  <2>1. IsStream(ss[s])
    BY Zenon
  <2>2. /\ IsStream(new[s]) /\ Offsets(new[s]) = Offsets(ss[s])
        /\ new[s].base_offset = ss[s].base_offset /\ new[s].next_offset = ss[s].next_offset
        /\ new[s].bytes = ss[s].bytes /\ new[s].records = f
    BY <1>1, <2>1, StreamRewrite
  <2> QED BY Zenon, <2>2 DEF SameShape
<1>3. ASSUME NEW t \in DOMAIN ss, t # s PROVE SameShape(ss[t], new[t])
  BY Zenon, <1>1, <1>3 DEF SameShape
<1> QED BY Zenon, <1>1, <1>2, <1>3

\* Streams whose weight is that of their references.
Sound(ss) == \A s \in DOMAIN ss : IsStream(ss[s]) /\ ss[s].bytes = ss[s].next_offset - ss[s].base_offset

\* The streams `new` are `ss` with ready references appended.
Longer(ss, new) ==
    /\ DOMAIN new = DOMAIN ss
    /\ \A s \in DOMAIN ss :
          /\ IsStream(new[s]) /\ new[s].bytes = new[s].next_offset - new[s].base_offset
          /\ new[s].base_offset = ss[s].base_offset /\ new[s].next_offset >= ss[s].next_offset
          /\ \A o \in Offsets(ss[s]) : o \in Offsets(new[s]) /\ new[s].records[o] = ss[s].records[o]
          /\ \A o \in Offsets(new[s]) \ Offsets(ss[s]) : Fresh(new[s].records[o])

\* The messages msg[1], ..., msg[n].
Listed(n, msg) == {msg[i] : i \in 1 .. n}

(* Appending to some streams keeps the references that are there.          *)
LEMMA AppendToFact ==
  ASSUME NEW ss, Sound(ss), NEW targets \in SUBSET DOMAIN ss, NEW n \in Nat, NEW msg,
         \A i \in 1 .. n : msg[i] \in 1 .. MaxMessages,
         NEW new, new = AppendTo(ss, targets, n, msg)
  PROVE  /\ Longer(ss, new)
         /\ Messages(new) = Messages(ss) \cup (IF targets = {} THEN {} ELSE Listed(n, msg))
<1>1. /\ DOMAIN new = DOMAIN ss /\ \A s \in targets : new[s] = Appended(ss[s], n, msg)
      /\ \A s \in DOMAIN ss \ targets : new[s] = ss[s]
  BY Zenon DEF AppendTo
<1>2. \A i \in 1 .. n : FreshReference(msg[i]).message = msg[i] /\ Fresh(FreshReference(msg[i]))
  BY Zenon, FreshIsReference
<1>3. ASSUME NEW s \in targets
      PROVE  /\ IsStream(new[s]) /\ new[s].bytes = new[s].next_offset - new[s].base_offset
             /\ new[s].base_offset = ss[s].base_offset /\ new[s].next_offset = ss[s].next_offset + n
             /\ \A o \in Offsets(ss[s]) : o \in Offsets(new[s]) /\ new[s].records[o] = ss[s].records[o]
             /\ \A o \in Offsets(new[s]) \ Offsets(ss[s]) :
                   \E i \in 1 .. n : o = ss[s].next_offset + i - 1 /\ new[s].records[o] = FreshReference(msg[i])
             /\ \A i \in 1 .. n : /\ ss[s].next_offset + i - 1 \in Offsets(new[s]) \ Offsets(ss[s])
                                  /\ new[s].records[ss[s].next_offset + i - 1] = FreshReference(msg[i])
  <2>1. IsStream(ss[s]) /\ ss[s].bytes = ss[s].next_offset - ss[s].base_offset /\ new[s] = Appended(ss[s], n, msg)
    BY Zenon, <1>1 DEF Sound
  <2>2. AppendsTo(ss[s], new[s], n, msg)
    BY Zenon, <2>1, StreamAppend
  <2> QED BY Zenon, <2>2 DEF AppendsTo
<1>4. ASSUME NEW s \in targets
      PROVE  MessagesIn(new[s]) = MessagesIn(ss[s]) \cup {msg[i] : i \in 1 .. n}
  <2>1. ASSUME NEW o \in Offsets(new[s])
        PROVE  new[s].records[o].message \in MessagesIn(ss[s]) \cup {msg[i] : i \in 1 .. n}
    <3>1. CASE o \in Offsets(ss[s])
      <4>1. new[s].records[o] = ss[s].records[o]
        BY Zenon, <1>3, <3>1
      <4> QED BY Zenon, <3>1, <4>1 DEF MessagesIn
    <3>2. CASE o \notin Offsets(ss[s])
      <4>1. PICK i \in 1 .. n : new[s].records[o] = FreshReference(msg[i])
        BY <1>3, <3>2
      <4> QED BY Zenon, <1>2, <4>1
    <3> QED BY Zenon, <3>1, <3>2
  <2>2. ASSUME NEW o \in Offsets(ss[s]) PROVE ss[s].records[o].message \in MessagesIn(new[s])
    BY Zenon, <1>3 DEF MessagesIn
  <2>3. ASSUME NEW i \in 1 .. n PROVE msg[i] \in MessagesIn(new[s])
    BY <1>2, <1>3 DEF MessagesIn
  <2>4. MessagesIn(new[s]) \subseteq MessagesIn(ss[s]) \cup {msg[i] : i \in 1 .. n}
    BY Zenon, <2>1 DEF MessagesIn
  <2>5. MessagesIn(ss[s]) \subseteq MessagesIn(new[s])
    BY Zenon, <2>2 DEF MessagesIn
  <2> QED BY Zenon, <2>3, <2>4, <2>5
<1>5. ASSUME NEW s \in DOMAIN ss
      PROVE  /\ IsStream(new[s]) /\ new[s].bytes = new[s].next_offset - new[s].base_offset
             /\ new[s].base_offset = ss[s].base_offset /\ new[s].next_offset >= ss[s].next_offset
             /\ \A o \in Offsets(ss[s]) : o \in Offsets(new[s]) /\ new[s].records[o] = ss[s].records[o]
             /\ \A o \in Offsets(new[s]) \ Offsets(ss[s]) : Fresh(new[s].records[o])
  <2>1. IsStream(ss[s]) /\ ss[s].bytes = ss[s].next_offset - ss[s].base_offset /\ ss[s].next_offset \in Nat
    BY Zenon DEF IsStream, Sound
  <2>2. CASE s \in targets
    <3>1. \A o \in Offsets(new[s]) \ Offsets(ss[s]) : Fresh(new[s].records[o])
      <4>1. ASSUME NEW o \in Offsets(new[s]) \ Offsets(ss[s]) PROVE Fresh(new[s].records[o])
        <5>1. PICK i \in 1 .. n : new[s].records[o] = FreshReference(msg[i])
          BY <1>3, <2>2
        <5> QED BY Zenon, <1>2, <5>1
      <4> QED BY Zenon, <4>1
    <3>2. new[s].next_offset >= ss[s].next_offset
      BY <1>3, <2>1, <2>2
    <3> QED BY Zenon, <1>3, <2>2, <3>1, <3>2
  <2>3. CASE s \notin targets
    BY <1>1, <2>1, <2>3
  <2> QED BY Zenon, <2>2, <2>3
<1>6. Messages(new) = Messages(ss) \cup (IF targets = {} THEN {} ELSE Listed(n, msg))
  <2> DEFINE added == {msg[i] : i \in 1 .. n}
  <2>1. \A s \in DOMAIN ss : MessagesIn(new[s]) = MessagesIn(ss[s]) \cup (IF s \in targets THEN added ELSE {})
    BY Zenon, <1>1, <1>4
  <2> HIDE DEF added
  <2>2. Messages(new) = Messages(ss) \cup (IF targets = {} THEN {} ELSE added)
    BY <1>1, <2>1 DEF Messages
  <2> QED BY Zenon, <2>2 DEF added, Listed
<1> QED BY Zenon, <1>1, <1>5, <1>6 DEF Longer

-----------------------------------------------------------------------------
(* The commands.                                                           *)

(* The deliveries that are out are what LeasesExact and DeliveriesOwned    *)
(* look at; a command that rewrites references in place keeps the rest.    *)
LEMMA Kept ==
  ASSUME QueuesInv, UNCHANGED <<declared, payloads, segments, cursors, clock>>,
         DOMAIN streams' = DOMAIN streams,
         \A s \in DOMAIN streams : SameShape(streams[s], streams'[s])
  PROVE  /\ TablesOK' /\ StreamsOK' /\ PayloadsOK' /\ CursorsOK' /\ StreamsOwned'
         /\ PayloadsExact' /\ SegmentsExact' /\ BytesExact' /\ DeclarationsClosed'
         /\ ClassicStreams' = ClassicStreams
<1>1. UNCHANGED <<exchanges, bindings, queues, consumers, payloads, segments, next_message_id,
                  next_stream_id, next_payload_segment_id, clock>>
  BY Zenon DEF declared, cursors
<1>2. TablesOK' /\ PayloadsOK' /\ CursorsOK' /\ DeclarationsClosed' /\ ClassicStreams' = ClassicStreams
  BY Zenon, <1>1 DEF QueuesInv, TypeOK, TablesOK, PayloadsOK, CursorsOK, DeclarationsClosed, ClassicStreams
<1>3. StreamsOK' /\ StreamsOwned' /\ BytesExact'
  BY <1>1 DEF QueuesInv, TypeOK, StreamsOK, StreamsOwned, BytesExact, SameShape
<1>4. PayloadsExact'
  <2>1. Messages(streams') = Messages(streams)
    BY Zenon, ShapeMessages
  <2>2. PayloadsExact' <=> DOMAIN payloads' = Messages(streams')
    BY Zenon DEF PayloadsExact
  <2> QED BY Zenon, <1>1, <2>1, <2>2 DEF QueuesInv, PayloadsExact
<1>5. SegmentsExact'
  BY <1>1 DEF QueuesInv, SegmentsExact, InSegment
<1> QED BY Zenon, <1>2, <1>3, <1>4, <1>5

(* Commands on declarations leave the stored tables alone.                 *)
LEMMA DeclaredOnly ==
  ASSUME QueuesInv, UNCHANGED <<stored, cursors>>, clock' \in Nat, TablesOK', StreamsOwned',
         DeclarationsClosed', ClassicStreams' = ClassicStreams
  PROVE  QueuesInv'
<1>1. UNCHANGED <<streams, payloads, segments, leases, next_message_id, next_stream_id,
                  next_payload_segment_id>>
  BY Zenon DEF stored, cursors
<1>2. TypeOK'
  BY Zenon, <1>1 DEF QueuesInv, TypeOK, StreamsOK, PayloadsOK, LeasesOK, CursorsOK
<1>3. PayloadsExact' /\ BytesExact' /\ SegmentsExact'
  BY Zenon, <1>1 DEF QueuesInv, PayloadsExact, BytesExact, SegmentsExact, InSegment, Messages
<1>4. DeliveriesOwned' /\ LeasesExact'
  BY Zenon, <1>1 DEF QueuesInv, DeliveriesOwned, LeasesExact
<1> QED BY Zenon, <1>2, <1>3, <1>4 DEF QueuesInv

(* owner_has_unacked, asked of the tables as they are.                     *)
LEMMA UnackedSomewhere ==
  ASSUME QueuesInv, NEW ss, DOMAIN ss = DOMAIN streams, NEW w,
         \A s \in DOMAIN streams : \A o \in Offsets(ss[s]) :
            ss[s].records[o].delivery = "Unacked" => s \in ClassicStreams
  PROVE  OwnerHasUnacked(queues, ss, w) <=> \E s \in DOMAIN ss : UnackedIn(ss[s], w) # {}
<1>1. DOMAIN ss = {queues[q].stream : q \in DOMAIN queues}
  BY Zenon DEF QueuesInv, StreamsOwned
<1>2. \A s \in DOMAIN ss : \A o \in Offsets(ss[s]) : ss[s].records[o].delivery = "Unacked" =>
         \E q \in DOMAIN queues : queues[q].kind = "Classic" /\ queues[q].stream = s
  BY Zenon DEF ClassicStreams
<1> QED BY Zenon, <1>1, <1>2, OwnerUnacked

\* The references f of stream s, some of those out to w or to nobody changed.
Rewrites(s, w, f) ==
    /\ s \in DOMAIN streams /\ f \in [Offsets(streams[s]) -> Reference]
    /\ \A o \in Offsets(streams[s]) :
          /\ f[o].message = streams[s].records[o].message
          /\ \/ f[o] = streams[s].records[o]
             \/ /\ o \in UnackedIn(streams[s], w) \/ streams[s].records[o].delivery # "Unacked"
                /\ f[o].delivery # "Unacked"

\* In the streams ss no reference has gone or is new.
SameShapes(ss) == DOMAIN ss = DOMAIN streams /\ \A t \in DOMAIN streams : SameShape(streams[t], ss[t])

\* In the streams ss what is out was out, and to others than w still is.
StillOut(ss, w) ==
    /\ DOMAIN ss = DOMAIN streams
    /\ \A t \in DOMAIN streams : \A o \in Offsets(ss[t]) : ss[t].records[o].delivery = "Unacked" =>
          o \in Offsets(streams[t]) /\ ss[t].records[o] = streams[t].records[o]
    /\ \A t \in DOMAIN streams : \A v : v # w => UnackedIn(streams[t], v) \subseteq UnackedIn(ss[t], v)

(* What is still out has an owner, and its stream a classic queue.         *)
LEMMA StillOwned ==
  ASSUME DeliveriesOwned, NEW ss, NEW w, StillOut(ss, w)
  PROVE  \A s \in DOMAIN ss : \A o \in Offsets(ss[s]) : ss[s].records[o].delivery = "Unacked" =>
            s \in ClassicStreams /\ ss[s].records[o].owner \in Owners
<1> SUFFICES ASSUME NEW s \in DOMAIN ss, NEW o \in Offsets(ss[s]), ss[s].records[o].delivery = "Unacked"
             PROVE  s \in ClassicStreams /\ ss[s].records[o].owner \in Owners
  BY Zenon
<1>1. /\ s \in DOMAIN streams /\ o \in Offsets(streams[s])
      /\ ss[s].records[o] = streams[s].records[o]
  BY Zenon DEF StillOut
<1> QED BY Zenon, <1>1 DEF DeliveriesOwned

(* Settling references that are out to w: the deliveries that stay out are *)
(* as they were, and those of everybody else stay out.                     *)
LEMMA Settlement ==
  ASSUME QueuesInv, NEW w, NEW s, NEW f, Rewrites(s, w, f), NEW ss, ss = RewriteRecords(streams, s, f)
  PROVE  SameShapes(ss) /\ StillOut(ss, w)
<1>0. /\ s \in DOMAIN streams /\ f \in [Offsets(streams[s]) -> Reference]
      /\ \A o \in Offsets(streams[s]) : f[o].message = streams[s].records[o].message
  BY Zenon DEF Rewrites
<1>1. /\ DOMAIN ss = DOMAIN streams /\ \A t \in DOMAIN streams : SameShape(streams[t], ss[t])
      /\ \A t \in DOMAIN streams : t # s => ss[t] = streams[t]
      /\ ss[s].records = f
  BY <1>0, RewriteFact DEF QueuesInv, TypeOK, StreamsOK
<1>2. \A t \in DOMAIN streams : Offsets(ss[t]) = Offsets(streams[t])
  BY Zenon, <1>1 DEF SameShape
<1>3. ASSUME NEW t \in DOMAIN streams, NEW o \in Offsets(ss[t]), ss[t].records[o].delivery = "Unacked"
      PROVE  o \in Offsets(streams[t]) /\ ss[t].records[o] = streams[t].records[o]
  BY Zenon, <1>1, <1>2, <1>3 DEF Rewrites
<1>4. ASSUME NEW t \in DOMAIN streams, NEW v, v # w, NEW o \in UnackedIn(streams[t], v)
      PROVE  o \in UnackedIn(ss[t], v)
  <2>1. CASE t # s
    BY Zenon, <1>1, <2>1
  <2>2. CASE t = s
    <3>1. /\ o \in Offsets(streams[s]) /\ o \notin UnackedIn(streams[s], w)
          /\ streams[s].records[o].delivery = "Unacked"
      BY Zenon, <1>4, <2>2 DEF UnackedIn
    <3>2. f[o] = streams[s].records[o]
      BY Zenon, <3>1 DEF Rewrites
    <3> QED BY Zenon, <1>1, <1>2, <2>2, <3>1, <3>2 DEF UnackedIn
  <2> QED BY Zenon, <2>1, <2>2
<1> QED BY Zenon, <1>1, <1>3, <1>4 DEF SameShapes, StillOut

(* The lease of the settling owner goes exactly when nothing is left.      *)
LEMMA SettleLeases ==
  ASSUME QueuesInv, NEW w, NEW ss, StillOut(ss, w), leases' = Drop(leases, Idle(queues, ss, {w}))
  PROVE  /\ LeasesOK'
         /\ DOMAIN leases' = {v \in Owners : \E t \in DOMAIN streams : UnackedIn(ss[t], v) # {}}
<1>0. /\ DOMAIN ss = DOMAIN streams
      /\ \A t \in DOMAIN streams : \A o \in Offsets(ss[t]) : ss[t].records[o].delivery = "Unacked" =>
            o \in Offsets(streams[t]) /\ ss[t].records[o] = streams[t].records[o]
      /\ \A t \in DOMAIN streams : \A v : v # w => UnackedIn(streams[t], v) \subseteq UnackedIn(ss[t], v)
  BY Zenon DEF StillOut
<1>1. OwnerHasUnacked(queues, ss, w) <=> \E t \in DOMAIN ss : UnackedIn(ss[t], w) # {}
  <2>1. \A t \in DOMAIN streams : \A o \in Offsets(ss[t]) :
           ss[t].records[o].delivery = "Unacked" => t \in ClassicStreams
    BY <1>0 DEF QueuesInv, DeliveriesOwned
  <2> QED BY Zenon, <1>0, <2>1, UnackedSomewhere
<1>2. \A t \in DOMAIN streams : \A v : UnackedIn(ss[t], v) \subseteq UnackedIn(streams[t], v)
  BY Zenon, <1>0 DEF UnackedIn
<1>3. DOMAIN leases' = DOMAIN leases \ Idle(queues, ss, {w}) /\ \A v \in DOMAIN leases' : leases'[v] = leases[v]
  BY Zenon DEF Drop
<1>4. \A v : v \in Idle(queues, ss, {w}) <=> v = w /\ ~ \E t \in DOMAIN streams : UnackedIn(ss[t], w) # {}
  BY Zenon, <1>0, <1>1 DEF Idle
<1>5. DOMAIN leases = {v \in Owners : \E t \in DOMAIN streams : UnackedIn(streams[t], v) # {}} /\ LeasesOK
  BY Zenon DEF QueuesInv, LeasesExact, TypeOK
<1>6. ASSUME NEW v \in Owners
      PROVE  v \in DOMAIN leases' <=> \E t \in DOMAIN streams : UnackedIn(ss[t], v) # {}
  <2>1. CASE v = w
    BY Zenon, <1>2, <1>3, <1>4, <1>5, <2>1
  <2>2. CASE v # w
    <3>1. v \in DOMAIN leases' <=> v \in DOMAIN leases
      BY Zenon, <1>3, <1>4, <2>2
    <3>2. \A t \in DOMAIN streams : UnackedIn(ss[t], v) # {} <=> UnackedIn(streams[t], v) # {}
      BY Zenon, <1>0, <1>2, <2>2
    <3> QED BY Zenon, <1>5, <3>1, <3>2
  <2> QED BY Zenon, <2>1, <2>2
<1>7. LeasesOK'
  BY Zenon, <1>3, <1>5 DEF LeasesOK
<1> QED BY Zenon, <1>3, <1>5, <1>6, <1>7

-----------------------------------------------------------------------------
(* Commands on declarations, and the clock.                                *)

(* The tables of declarations stay well formed.                            *)
LEMMA DeclareKeeps ==
  ASSUME BrokerQueuesAssumption, QueuesInv, NEW x, NEW q, NEW policy, NEW u,
         \/ x \in Exchanges /\ CreateExchange(x)
         \/ DeleteExchange(x, u) \/ BindQueue(x, q) \/ UnbindQueue(x, q)
         \/ policy \in Retentions /\ SetQueueRetention(q, policy)
  PROVE  QueuesInv'
<1>1. TablesOK /\ StreamsOwned /\ DeclarationsClosed /\ clock \in Nat
  BY Zenon DEF QueuesInv, TypeOK, CursorsOK
<1>2. CASE policy \in Retentions /\ SetQueueRetention(q, policy)
  <2>1. /\ DOMAIN queues' = DOMAIN queues /\ q \in DOMAIN queues
        /\ \A p \in DOMAIN queues : p # q => queues'[p] = queues[p]
        /\ queues'[q] = [queues[q] EXCEPT !.retention = policy]
    BY Zenon, <1>2 DEF SetQueueRetention
  <2>2. queues[q] \in QueueRecord /\ policy \in Policy
    BY Zenon, <1>1, <1>2, <2>1 DEF TablesOK, BrokerQueuesAssumption
  <2>3. /\ queues'[q] \in QueueRecord /\ queues'[q].stream = queues[q].stream
        /\ queues'[q].kind = queues[q].kind
    BY Zenon, <2>1, <2>2 DEF QueueRecord
  <2>4. UNCHANGED <<exchanges, bindings, consumers, stored, cursors, clock>>
    BY Zenon, <1>2 DEF SetQueueRetention
  <2>5. TablesOK' /\ DeclarationsClosed'
    BY Zenon, <1>1, <2>1, <2>3, <2>4 DEF TablesOK, DeclarationsClosed
  <2>6. \A p \in DOMAIN queues : queues'[p].stream = queues[p].stream /\ queues'[p].kind = queues[p].kind
    BY Zenon, <2>1, <2>3
  <2>7. StreamsOwned' /\ ClassicStreams' = ClassicStreams
    BY <1>1, <2>1, <2>4, <2>6 DEF StreamsOwned, ClassicStreams, stored
  <2> QED BY Zenon, <1>1, <2>4, <2>5, <2>7, DeclaredOnly
<1>3. CASE (x \in Exchanges /\ CreateExchange(x)) \/ DeleteExchange(x, u) \/ BindQueue(x, q) \/ UnbindQueue(x, q)
  <2>1. UNCHANGED <<queues, consumers, stored, cursors, clock>>
    BY Zenon, <1>3 DEF CreateExchange, DeleteExchange, BindQueue, UnbindQueue
  <2>2. TablesOK' /\ DeclarationsClosed'
    <3>1. CASE x \in Exchanges /\ CreateExchange(x)
      BY Zenon, <1>1, <2>1, <3>1 DEF TablesOK, DeclarationsClosed, CreateExchange
    <3>2. CASE DeleteExchange(x, u)
      BY Zenon, <1>1, <2>1, <3>2 DEF TablesOK, DeclarationsClosed, DeleteExchange
    <3>3. CASE BindQueue(x, q)
      BY <1>1, <2>1, <3>3 DEF TablesOK, DeclarationsClosed, BindQueue
    <3>4. CASE UnbindQueue(x, q)
      BY Zenon, <1>1, <2>1, <3>4 DEF TablesOK, DeclarationsClosed, UnbindQueue
    <3> QED BY Zenon, <1>3, <3>1, <3>2, <3>3, <3>4
  <2>3. StreamsOwned' /\ ClassicStreams' = ClassicStreams
    BY Zenon, <1>1, <2>1 DEF StreamsOwned, ClassicStreams, stored
  <2> QED BY Zenon, <1>1, <2>1, <2>2, <2>3, DeclaredOnly
<1> QED BY Zenon, <1>2, <1>3

(* A registration names a declared queue; the clock concerns no table.     *)
LEMMA RegisterAndTickKeep ==
  ASSUME BrokerQueuesAssumption, QueuesInv, NEW q, NEW w, NEW c,
         (w \in Owners /\ c \in Consumers /\ RegisterConsumer(q, w, c)) \/ Tick \/ StepBack
  PROVE  QueuesInv'
<1>1. TablesOK /\ StreamsOwned /\ DeclarationsClosed /\ clock \in Nat
  BY Zenon DEF QueuesInv, TypeOK, CursorsOK
<1>2. CASE w \in Owners /\ c \in Consumers /\ RegisterConsumer(q, w, c)
  <2>1. /\ UNCHANGED <<exchanges, bindings, queues, stored, cursors, clock>> /\ q \in DOMAIN queues
        /\ DOMAIN consumers' = DOMAIN consumers \cup {q}
        /\ \A p \in DOMAIN consumers' : consumers'[p] = IF p = q THEN Registered(q) \cup {<<w, c>>} ELSE consumers[p]
    BY Zenon, <1>2 DEF RegisterConsumer, Put
  <2>2. Registered(q) \subseteq Owners \X Consumers
    BY Zenon, <1>1 DEF TablesOK, Registered
  <2>6. <<w, c>> \in Owners \X Consumers
    BY Zenon, <1>2
  <2>5. /\ Registered(q) \cup {<<w, c>>} \subseteq Owners \X Consumers
        /\ Registered(q) \cup {<<w, c>>} # {}
    BY Zenon, <2>2, <2>6
  <2>3. TablesOK' /\ DeclarationsClosed'
    BY <1>1, <2>1, <2>5 DEF TablesOK, DeclarationsClosed
  <2>4. StreamsOwned' /\ ClassicStreams' = ClassicStreams
    BY <1>1, <2>1 DEF StreamsOwned, ClassicStreams, stored
  <2> QED BY Zenon, <1>1, <2>1, <2>3, <2>4, DeclaredOnly
<1>3. CASE Tick \/ StepBack
  <2>1. UNCHANGED <<declared, stored, cursors>> /\ clock' \in Nat
    BY <1>1, <1>3 DEF Tick, StepBack
  <2>2. TablesOK' /\ DeclarationsClosed' /\ StreamsOwned' /\ ClassicStreams' = ClassicStreams
    BY <1>1, <2>1 DEF TablesOK, DeclarationsClosed, StreamsOwned, ClassicStreams, stored, declared
  <2> QED BY Zenon, <2>1, <2>2, DeclaredOnly
<1> QED BY Zenon, <1>2, <1>3

-----------------------------------------------------------------------------
(* Commands that rewrite references in place.                              *)

(* Acknowledging and requeueing.                                           *)
LEMMA SettleKeeps ==
  ASSUME QueuesInv, NEW q, NEW w, NEW c, NEW tag, NEW multiple,
         Ack(q, w, c, tag, multiple) \/ Requeue(q, w, c, tag, multiple)
  PROVE  QueuesInv'
<1> DEFINE s == queues[q].stream
           st == streams[s]
           chosen == Named(st, w, c, tag, multiple)
           outcome == IF Ack(q, w, c, tag, multiple) THEN "Acknowledged" ELSE "Ready"
           new(ref) == AfterSettling(ref, outcome)
           f == [o \in DOMAIN st.records |-> IF o \in chosen THEN new(st.records[o]) ELSE st.records[o]]
           ss == RewriteRecords(streams, s, f)
<1>1. /\ q \in DOMAIN queues /\ streams' = ss /\ leases' = Drop(leases, Idle(queues, ss, {w}))
      /\ UNCHANGED <<declared, payloads, segments, cursors, clock>>
  <2>1. CASE Ack(q, w, c, tag, multiple)
    BY Zenon, <2>1 DEF Ack, SettledStreams, ReleaseIfIdle
  <2>2. CASE ~Ack(q, w, c, tag, multiple)
    BY Zenon, <2>2 DEF Requeue, SettledStreams, ReleaseIfIdle
  <2> QED BY Zenon, <2>1, <2>2
<1>2. s \in DOMAIN streams /\ IsStream(st)
  BY Zenon, <1>1 DEF QueuesInv, StreamsOwned, TypeOK, StreamsOK
<1>3. st.records \in [Offsets(st) -> Reference]
  BY Zenon, <1>2 DEF IsStream
<1>4. chosen \subseteq UnackedIn(st, w)
  BY Zenon DEF Named
<1>5. \A ref \in Reference : /\ new(ref) \in Reference /\ new(ref).message = ref.message
                              /\ new(ref).delivery # "Unacked"
  BY Zenon, SettledFact
<1> HIDE DEF new, chosen
<1>6. Rewrites(s, w, f)
  <2>1. chosen \subseteq Offsets(st)
    BY Zenon, <1>4 DEF UnackedIn
  <2>2. f \in [Offsets(st) -> Reference]
    BY Zenon, <1>3, <1>5, <2>1
  <2>3. \A o \in Offsets(st) : f[o] = IF o \in chosen THEN new(st.records[o]) ELSE st.records[o]
    BY Zenon, <1>3
  <2>4. \A o \in Offsets(st) : st.records[o] \in Reference
    BY Zenon, <1>3
  <2> HIDE DEF f
  <2> QED BY Zenon, <1>2, <1>4, <1>5, <2>2, <2>3, <2>4 DEF Rewrites
<1> HIDE DEF f, s
<1>7. SameShapes(ss) /\ StillOut(ss, w)
  BY Zenon, <1>6, Settlement
<1> HIDE DEF ss
<1>8. LeasesOK' /\ DOMAIN leases' = {v \in Owners : \E t \in DOMAIN streams : UnackedIn(ss[t], v) # {}}
  BY Zenon, <1>1, <1>7, SettleLeases
<1>9. LeasesExact'
  BY Zenon, <1>1, <1>7, <1>8 DEF LeasesExact, SameShapes
<1>10. /\ TablesOK' /\ StreamsOK' /\ PayloadsOK' /\ CursorsOK' /\ StreamsOwned'
       /\ PayloadsExact' /\ SegmentsExact' /\ BytesExact' /\ DeclarationsClosed'
       /\ ClassicStreams' = ClassicStreams
  BY Zenon, <1>1, <1>7, Kept DEF SameShapes
<1>11. DeliveriesOwned'
  <2>1. DeliveriesOwned
    BY Zenon DEF QueuesInv
  <2>2. \A t \in DOMAIN ss : \A o \in Offsets(ss[t]) : ss[t].records[o].delivery = "Unacked" =>
           t \in ClassicStreams /\ ss[t].records[o].owner \in Owners
    BY Zenon, <1>7, <2>1, StillOwned
  <2> QED BY Zenon, <1>1, <1>10, <2>2 DEF DeliveriesOwned
<1> QED BY Zenon, <1>8, <1>9, <1>10, <1>11 DEF QueuesInv, TypeOK

(* Purging, reading a stream queue and delivering with automatic           *)
(* acknowledgement touch no delivery that is out.                          *)
LEMMA UnownedKeeps ==
  ASSUME BrokerQueuesAssumption, QueuesInv, NEW s, NEW f, Rewrites(s, NIL, f),
         streams' = RewriteRecords(streams, s, f),
         UNCHANGED <<declared, payloads, segments, leases, cursors, clock>>
  PROVE  QueuesInv'
<1>1. SameShapes(streams') /\ StillOut(streams', NIL)
  BY Zenon, Settlement
<1>2. /\ TablesOK' /\ StreamsOK' /\ PayloadsOK' /\ CursorsOK' /\ StreamsOwned'
      /\ PayloadsExact' /\ SegmentsExact' /\ BytesExact' /\ DeclarationsClosed'
      /\ ClassicStreams' = ClassicStreams
  BY Zenon, <1>1, Kept DEF SameShapes
<1>3. DeliveriesOwned' /\ LeasesOK'
  <2>1. DeliveriesOwned /\ LeasesOK
    BY Zenon DEF QueuesInv, TypeOK
  <2>2. \A t \in DOMAIN streams' : \A o \in Offsets(streams'[t]) :
           streams'[t].records[o].delivery = "Unacked" =>
              t \in ClassicStreams /\ streams'[t].records[o].owner \in Owners
    BY Zenon, <1>1, <2>1, StillOwned
  <2>3. DeliveriesOwned'
    BY Zenon, <1>2, <2>2 DEF DeliveriesOwned
  <2> QED BY Zenon, <2>1, <2>3 DEF LeasesOK
<1>4. \A t \in DOMAIN streams : \A v \in Owners : UnackedIn(streams'[t], v) = UnackedIn(streams[t], v)
  <2>1. \A v \in Owners : v # NIL
    BY Zenon DEF BrokerQueuesAssumption
  <2> QED BY Zenon, <1>1, <2>1 DEF StillOut, UnackedIn
<1>5. LeasesExact'
  BY Zenon, <1>1, <1>4 DEF QueuesInv, LeasesExact, SameShapes
<1> QED BY Zenon, <1>2, <1>3, <1>5 DEF QueuesInv, TypeOK

(* Purging a queue and reading a stream keep the invariant.               *)
LEMMA PurgeAndReadKeep ==
  ASSUME BrokerQueuesAssumption, QueuesInv, NEW q, NEW from, NEW maximum,
         PurgeQueue(q) \/ ReadStream(q, from, maximum)
  PROVE  QueuesInv'
<1> DEFINE s == queues[q].stream
           recs == streams[s].records
<1>1. q \in DOMAIN queues
  BY Zenon DEF PurgeQueue, ReadStream
<1>2. s \in DOMAIN streams /\ IsStream(streams[s])
  BY Zenon, <1>1 DEF QueuesInv, StreamsOwned, TypeOK, StreamsOK
<1>3. recs \in [Offsets(streams[s]) -> Reference] /\ \A o \in Offsets(streams[s]) : recs[o] \in Reference
  BY Zenon, <1>2 DEF IsStream
<1>4. CASE PurgeQueue(q)
  <2> DEFINE f == [o \in DOMAIN recs |-> IF recs[o].delivery = "Ready"
                                            THEN Settled(recs[o], "Acknowledged") ELSE recs[o]]
  <2>1. streams' = RewriteRecords(streams, s, f)
        /\ UNCHANGED <<declared, payloads, segments, leases, cursors, clock>>
    BY Zenon, <1>4 DEF PurgeQueue
  <2>2. \A o \in Offsets(streams[s]) :
           /\ Settled(recs[o], "Acknowledged") \in Reference
           /\ Settled(recs[o], "Acknowledged").message = recs[o].message
           /\ Settled(recs[o], "Acknowledged").delivery # "Unacked"
    BY Zenon, <1>3, SettledFact
  <2>3. f \in [Offsets(streams[s]) -> Reference]
    BY Zenon, <1>3, <2>2
  <2>4. \A o \in Offsets(streams[s]) : f[o] = IF recs[o].delivery = "Ready"
                                                 THEN Settled(recs[o], "Acknowledged") ELSE recs[o]
    BY Zenon, <1>3
  <2> HIDE DEF f
  <2>5. Rewrites(s, NIL, f)
    BY Zenon, <1>2, <1>3, <2>2, <2>3, <2>4 DEF Rewrites
  <2> HIDE DEF s
  <2> QED BY Zenon, <2>1, <2>5, UnownedKeeps
<1>5. CASE ReadStream(q, from, maximum)
  <2> DEFINE f == [o \in DOMAIN recs |-> IF o \in from .. from + maximum - 1
                                            THEN [recs[o] EXCEPT !.handouts = @ + 1] ELSE recs[o]]
  <2>1. /\ streams' = RewriteRecords(streams, s, f) /\ queues[q].kind = "Stream"
        /\ UNCHANGED <<declared, payloads, segments, leases, cursors, clock>>
    BY Zenon, <1>5 DEF ReadStream
  <2>2. \A ref \in Reference :
           /\ [ref EXCEPT !.handouts = @ + 1] \in Reference
           /\ [ref EXCEPT !.handouts = @ + 1].message = ref.message
           /\ [ref EXCEPT !.handouts = @ + 1].delivery = ref.delivery
    BY Zenon, HandoutFact DEF Reference
  <2>3. f \in [Offsets(streams[s]) -> Reference]
    BY Zenon, <1>3, <2>2
  <2>4. \A o \in Offsets(streams[s]) : f[o] = [recs[o] EXCEPT !.handouts = @ + 1] \/ f[o] = recs[o]
    BY Zenon, <1>3
  <2>6. \A o \in Offsets(streams[s]) : recs[o].delivery # "Unacked"
    <3>1. s \notin ClassicStreams
      BY Zenon, <1>1, <2>1 DEF ClassicStreams, QueuesInv, StreamsOwned
    <3> QED BY Zenon, <1>2, <3>1 DEF QueuesInv, DeliveriesOwned
  <2> HIDE DEF f
  <2>7. \A o \in Offsets(streams[s]) : f[o].message = recs[o].message /\ f[o].delivery # "Unacked"
    <3> SUFFICES ASSUME NEW o \in Offsets(streams[s])
                 PROVE  f[o].message = recs[o].message /\ f[o].delivery # "Unacked"
      BY Zenon
    <3>1. recs[o] \in Reference /\ recs[o].delivery # "Unacked"
      BY Zenon, <1>3, <2>6
    <3>2. CASE f[o] = recs[o]
      BY Zenon, <3>1, <3>2
    <3>3. CASE f[o] = [recs[o] EXCEPT !.handouts = @ + 1]
      BY Zenon, <2>2, <3>1, <3>3
    <3> QED BY Zenon, <2>4, <3>2, <3>3
  <2>5. Rewrites(s, NIL, f)
    BY Zenon, <1>2, <2>3, <2>6, <2>7 DEF Rewrites
  <2> HIDE DEF s
  <2> QED BY Zenon, <2>1, <2>5, UnownedKeeps
<1> QED BY Zenon, <1>4, <1>5

(* Delivering: the owner has something out, and a lease.                   *)
LEMMA DeliverKeeps ==
  ASSUME BrokerQueuesAssumption, QueuesInv, NEW q, NEW maximum, NEW w \in Owners, NEW c \in Consumers,
         NEW automatic_ack \in BOOLEAN, DeliverClassic(q, maximum, w, c, automatic_ack)
  PROVE  QueuesInv'
<1> DEFINE s == queues[q].stream
           st == streams[s]
           selected == FirstReady(st, maximum)
           handed(ref) == [ref EXCEPT !.delivery = IF automatic_ack THEN "Acknowledged" ELSE "Unacked",
                                      !.owner = IF automatic_ack THEN NIL ELSE w,
                                      !.consumer = IF automatic_ack THEN NIL ELSE c,
                                      !.handouts = @ + 1]
           f == [o \in DOMAIN st.records |-> IF o \in selected THEN handed(st.records[o])
                                                                 ELSE st.records[o]]
<1>1. /\ q \in DOMAIN queues /\ queues[q].kind = "Classic" /\ selected # {}
      /\ streams' = RewriteRecords(streams, s, f)
      /\ leases' = IF automatic_ack THEN leases ELSE Put(leases, w, Extended(w))
      /\ UNCHANGED <<declared, payloads, segments, cursors, clock>>
  BY Zenon DEF DeliverClassic
<1>2. s \in DOMAIN streams /\ IsStream(st) /\ s \in ClassicStreams
  BY Zenon, <1>1 DEF QueuesInv, StreamsOwned, TypeOK, StreamsOK, ClassicStreams
<1>3. st.records \in [Offsets(st) -> Reference] /\ \A o \in Offsets(st) : st.records[o] \in Reference
  BY Zenon, <1>2 DEF IsStream
<1>4. ASSUME NEW ref \in Reference
      PROVE  /\ handed(ref) \in Reference /\ handed(ref).message = ref.message
             /\ handed(ref).delivery = IF automatic_ack THEN "Acknowledged" ELSE "Unacked"
             /\ ~automatic_ack => handed(ref).owner = w
  BY Zenon, HandoutFact DEF Reference
<1>5. selected \subseteq Offsets(st) /\ \A o \in selected : st.records[o].delivery = "Ready"
  BY Zenon DEF FirstReady, ReadyIn
<1> HIDE DEF handed, selected
<1>6. /\ f \in [Offsets(st) -> Reference]
      /\ \A o \in Offsets(st) : f[o] = IF o \in selected THEN handed(st.records[o]) ELSE st.records[o]
      /\ \A o \in Offsets(st) : f[o].message = st.records[o].message
  BY Zenon, <1>3, <1>4
<1> HIDE DEF f
<1>7. CASE automatic_ack
  <2>1. Rewrites(s, NIL, f)
    BY Zenon, <1>2, <1>3, <1>4, <1>5, <1>6, <1>7 DEF Rewrites
  <2> HIDE DEF s
  <2> QED BY Zenon, <1>1, <1>7, <2>1, UnownedKeeps
<1>8. CASE ~automatic_ack
  <2>1. /\ DOMAIN streams' = DOMAIN streams /\ \A t \in DOMAIN streams : SameShape(streams[t], streams'[t])
        /\ \A t \in DOMAIN streams : t # s => streams'[t] = streams[t]
        /\ streams'[s].records = f
    <3>1. \A t \in DOMAIN streams : IsStream(streams[t])
      BY Zenon DEF QueuesInv, TypeOK, StreamsOK
    <3>2. /\ s \in DOMAIN streams /\ f \in [Offsets(streams[s]) -> Reference]
          /\ \A o \in Offsets(streams[s]) : f[o].message = streams[s].records[o].message
          /\ streams' = RewriteRecords(streams, s, f)
      BY Zenon, <1>1, <1>2, <1>6
    <3> HIDE DEF s
    <3> QED BY <3>1, <3>2, RewriteFact
  <2>2. /\ TablesOK' /\ StreamsOK' /\ PayloadsOK' /\ CursorsOK' /\ StreamsOwned'
        /\ PayloadsExact' /\ SegmentsExact' /\ BytesExact' /\ DeclarationsClosed'
        /\ ClassicStreams' = ClassicStreams
    BY Zenon, <1>1, <2>1, Kept
  <2>3. Offsets(streams'[s]) = Offsets(st)
    BY Zenon, <1>2, <2>1 DEF SameShape
  <2>4. /\ \A o \in selected : f[o].delivery = "Unacked" /\ f[o].owner = w
        /\ \A o \in Offsets(st) : o \notin selected => f[o] = st.records[o]
    <3>1. ASSUME NEW o \in selected
          PROVE  f[o].delivery = "Unacked" /\ f[o].owner = w
      <4>1. f[o] = handed(st.records[o]) /\ st.records[o] \in Reference
        BY Zenon, <1>3, <1>5, <1>6, <3>1
      <4> QED BY Zenon, <1>4, <1>8, <4>1
    <3> QED BY Zenon, <1>6, <3>1
  <2>5. DeliveriesOwned'
    <3>1. ASSUME NEW t \in DOMAIN streams, NEW o \in Offsets(streams'[t]),
                 streams'[t].records[o].delivery = "Unacked"
          PROVE  t \in ClassicStreams /\ streams'[t].records[o].owner \in Owners
      <4>1. CASE t = s
        BY Zenon, <1>2, <2>1, <2>3, <2>4, <3>1, <4>1 DEF QueuesInv, DeliveriesOwned
      <4>2. CASE t # s
        BY Zenon, <2>1, <3>1, <4>2 DEF QueuesInv, DeliveriesOwned
      <4> QED BY Zenon, <4>1, <4>2
    <3> QED BY Zenon, <2>1, <2>2, <3>1 DEF DeliveriesOwned
  <2>6. ASSUME NEW v, v # w, NEW t \in DOMAIN streams PROVE UnackedIn(streams'[t], v) = UnackedIn(streams[t], v)
    <3>1. CASE t = s
      <4>1. \A o \in Offsets(st) : (streams'[s].records[o].delivery = "Unacked" /\ streams'[s].records[o].owner = v)
                                 <=> (st.records[o].delivery = "Unacked" /\ st.records[o].owner = v)
        BY Zenon, <1>5, <2>1, <2>4, <2>6
      <4> QED BY Zenon, <2>3, <3>1, <4>1 DEF UnackedIn
    <3>2. CASE t # s
      BY Zenon, <2>1, <3>2
    <3> QED BY Zenon, <3>1, <3>2
  <2>7. UnackedIn(streams'[s], w) # {}
    <3>1. PICK o \in selected : TRUE
      BY Zenon, <1>1
    <3>2. streams'[s].records[o].delivery = "Unacked" /\ streams'[s].records[o].owner = w /\ o \in Offsets(st)
      BY Zenon, <1>5, <2>1, <2>4, <3>1
    <3> QED BY Zenon, <2>3, <3>2 DEF UnackedIn
  <2>8. /\ DOMAIN leases' = DOMAIN leases \cup {w} /\ leases'[w] = Extended(w)
        /\ \A v \in DOMAIN leases : v # w => leases'[v] = leases[v]
    BY Zenon, <1>1, <1>8 DEF Put
  <2>9. Extended(w) \in Nat
    BY DEF Extended, QueuesInv, TypeOK, LeasesOK, CursorsOK, BrokerQueuesAssumption
  <2>10. LeasesOK'
    <3>1. DOMAIN leases \subseteq Owners /\ \A v \in DOMAIN leases : leases[v] \in Nat
      BY Zenon DEF QueuesInv, TypeOK, LeasesOK
    <3>2. ASSUME NEW v \in DOMAIN leases' PROVE leases'[v] \in Nat
      <4>1. CASE v = w
        BY Zenon, <2>8, <2>9, <4>1
      <4>2. CASE v # w
        BY Zenon, <2>8, <3>1, <4>2
      <4> QED BY Zenon, <4>1, <4>2
    <3> QED BY Zenon, <2>8, <3>1, <3>2 DEF LeasesOK
  <2>11. LeasesExact'
    BY Zenon, <1>2, <2>1, <2>6, <2>7, <2>8 DEF QueuesInv, LeasesExact
  <2> QED BY Zenon, <2>2, <2>5, <2>10, <2>11 DEF QueuesInv, TypeOK
<1> QED BY Zenon, <1>7, <1>8

(* Renewing a lease gives the owner one exactly when something is out.     *)
LEMMA RenewKeeps ==
  ASSUME BrokerQueuesAssumption, QueuesInv, NEW w \in Owners, RenewDeliveryLease(w)
  PROVE  QueuesInv'
<1>1. UNCHANGED <<declared, streams, payloads, segments, cursors, clock>>
  BY Zenon DEF RenewDeliveryLease
<1>2. \A s \in DOMAIN streams : SameShape(streams[s], streams'[s])
  BY Zenon, <1>1 DEF SameShape, QueuesInv, TypeOK, StreamsOK
<1>3. /\ TablesOK' /\ StreamsOK' /\ PayloadsOK' /\ CursorsOK' /\ StreamsOwned'
      /\ PayloadsExact' /\ SegmentsExact' /\ BytesExact' /\ DeclarationsClosed'
      /\ ClassicStreams' = ClassicStreams
  BY Zenon, <1>1, <1>2, Kept
<1>4. DeliveriesOwned'
  BY Zenon, <1>1, <1>3 DEF QueuesInv, DeliveriesOwned
<1>5. OwnerHasUnacked(queues, streams, w) <=> w \in DOMAIN leases
  <2>1. \A s \in DOMAIN streams : \A o \in Offsets(streams[s]) :
           streams[s].records[o].delivery = "Unacked" => s \in ClassicStreams
    BY Zenon DEF QueuesInv, DeliveriesOwned
  <2>2. OwnerHasUnacked(queues, streams, w) <=> \E s \in DOMAIN streams : UnackedIn(streams[s], w) # {}
    BY Zenon, <2>1, UnackedSomewhere
  <2> QED BY Zenon, <2>2 DEF QueuesInv, LeasesExact
<1>6. Extended(w) \in Nat /\ LeasesOK
  BY DEF Extended, QueuesInv, TypeOK, LeasesOK, CursorsOK, BrokerQueuesAssumption
<1>7. /\ DOMAIN leases' = DOMAIN leases
      /\ \A v \in DOMAIN leases : leases'[v] = leases[v] \/ leases'[v] = Extended(w)
  <2>1. CASE w \in DOMAIN leases
    BY Zenon, <1>5, <2>1 DEF RenewDeliveryLease, Put
  <2>2. CASE w \notin DOMAIN leases
    BY Zenon, <1>5, <2>2 DEF RenewDeliveryLease, Drop
  <2> QED BY Zenon, <2>1, <2>2
<1>8. LeasesOK'
  BY Zenon, <1>6, <1>7 DEF LeasesOK
<1>9. LeasesExact'
  BY Zenon, <1>1, <1>7 DEF QueuesInv, LeasesExact
<1> QED BY Zenon, <1>3, <1>4, <1>8, <1>9 DEF QueuesInv, TypeOK

(* release_delivery_lease: nothing is out to the owners of W any more, and *)
(* everything else is as it was.                                           *)
LEMMA ReleasedFact ==
  ASSUME QueuesInv, NEW W, NEW ss, ss = Released(W)
  PROVE  /\ SameShapes(ss)
         /\ \A t \in DOMAIN streams : \A o \in Offsets(streams[t]) :
               \/ ss[t].records[o] = streams[t].records[o]
                  /\ ~(streams[t].records[o].delivery = "Unacked" /\ streams[t].records[o].owner \in W)
               \/ ss[t].records[o] = Requeued(streams[t].records[o]) /\ ss[t].records[o].delivery = "Ready"
                  /\ streams[t].records[o].delivery = "Unacked" /\ streams[t].records[o].owner \in W
<1> DEFINE released(ref) == ref.delivery = "Unacked" /\ ref.owner \in W
           f(t) == [o \in DOMAIN streams[t].records |->
                      IF released(streams[t].records[o]) THEN Requeued(streams[t].records[o])
                                                         ELSE streams[t].records[o]]
<1>1. /\ DOMAIN ss = DOMAIN streams
      /\ \A t \in DOMAIN streams \ ClassicStreams : ss[t] = streams[t]
      /\ \A t \in DOMAIN streams \cap ClassicStreams : ss[t] = [streams[t] EXCEPT !.records = f(t)]
  BY Zenon DEF Released
<1>2. ASSUME NEW t \in DOMAIN streams
      PROVE  /\ SameShape(streams[t], ss[t])
             /\ \A o \in Offsets(streams[t]) :
                   \/ ss[t].records[o] = streams[t].records[o] /\ ~released(streams[t].records[o])
                   \/ /\ ss[t].records[o] = Requeued(streams[t].records[o]) /\ ss[t].records[o].delivery = "Ready"
                      /\ released(streams[t].records[o])
  <2>1. IsStream(streams[t]) /\ streams[t].records \in [Offsets(streams[t]) -> Reference]
    BY Zenon DEF QueuesInv, TypeOK, StreamsOK, IsStream
  <2>2. CASE t \notin ClassicStreams
    <3>1. ss[t] = streams[t]
      BY Zenon, <1>1, <2>2
    <3>2. \A o \in Offsets(streams[t]) : ~released(streams[t].records[o])
      BY Zenon, <2>2 DEF QueuesInv, DeliveriesOwned
    <3> QED BY Zenon, <2>1, <3>1, <3>2 DEF SameShape
  <2>3. CASE t \in ClassicStreams
    <3>1. \A o \in Offsets(streams[t]) :
             /\ Requeued(streams[t].records[o]) \in Reference
             /\ Requeued(streams[t].records[o]).message = streams[t].records[o].message
             /\ Requeued(streams[t].records[o]).delivery = "Ready"
      BY Zenon, <2>1, SettledFact
    <3>2. \A o \in Offsets(streams[t]) :
             f(t)[o] = IF released(streams[t].records[o]) THEN Requeued(streams[t].records[o])
                                                          ELSE streams[t].records[o]
      BY Zenon, <2>1
    <3>3. f(t) \in [Offsets(streams[t]) -> Reference]
      BY Zenon, <2>1, <3>1
    <3>4. ss[t] = [streams[t] EXCEPT !.records = f(t)]
      BY Zenon, <1>1, <2>3
    <3> HIDE DEF f, released
    <3>5. /\ IsStream(ss[t]) /\ Offsets(ss[t]) = Offsets(streams[t])
          /\ ss[t].base_offset = streams[t].base_offset /\ ss[t].next_offset = streams[t].next_offset
          /\ ss[t].bytes = streams[t].bytes /\ ss[t].records = f(t)
      BY <2>1, <3>3, <3>4, StreamRewrite
    <3> QED BY <3>1, <3>2, <3>5 DEF SameShape
  <2> QED BY Zenon, <2>2, <2>3
<1> QED BY Zenon, <1>1, <1>2 DEF SameShapes

=============================================================================
