-------------------------- MODULE CacheReadersProofs --------------------------
(***************************************************************************)
(* What is read from the cache of the inverter, for every register table,  *)
(* every request, every text and every way TCP cuts a connection: no       *)
(* look-up leaves its block, the two look-ups agree, and what a peer gets  *)
(* are the replies to its own requests.                                    *)
(***************************************************************************)
EXTENDS CacheReaders, WellFoundedInduction, SequenceTheorems, TLAPS

(* A length is that of the block, once there has been data. *)
Sizes == \A i \in Blocks : length[i] = 2 * Quantity[i] \/ (length[i] = 0 /\ ~data[i])

(* All that reads together. *)
IInv == ReadersTypeOK /\ Sizes /\ TypedWithin /\ RawServesPolled /\ TextsWhole

-----------------------------------------------------------------------------
(* The first block whose window fits is one of those that fit, and no      *)
(* block before it does.                                                   *)
LEMMA MinFirst ==
  ASSUME NEW S \in SUBSET Nat, S # {}
  PROVE  Min(S) \in S /\ \A y \in S : Min(S) <= y
  <1>1. PICK x \in S : \A y \in S : ~(<<y, x>> \in OpToRel(<, Nat))
    BY WFMin, NatLessThanWellFounded
  <1>2. \A y \in S : x <= y
    <2> SUFFICES ASSUME NEW y \in S, y < x PROVE FALSE
      OBVIOUS
    <2>1. <<y, x>> \in Nat \X Nat /\ <<y, x>>[1] < <<y, x>>[2]
      OBVIOUS
    <2>2. <<y, x>> \in {ss \in Nat \X Nat : ss[1] < ss[2]}
      BY <2>1
    <2>3. <<y, x>> \in OpToRel(<, Nat)
      BY <2>2 DEF OpToRel
    <2> QED
      BY <1>1, <2>3
  <1> QED
    BY <1>2 DEF Min

(* Blocks are numbers, their addresses and quantities too. *)
LEMMA Table ==
  /\ Blocks \in SUBSET Nat
  /\ \A i \in Blocks : Address[i] \in Nat /\ Quantity[i] \in Nat \ {0}
  <1>1. Blocks = 1..Len(Address) /\ Len(Address) \in Nat
    BY TableAssumption DEF Blocks
  <1> QED
    BY <1>1, TableAssumption

(* What a look-up finds, by the blocks whose windows fit. *)
LEMMA FirstFound ==
  ASSUME TypeOK, NEW a \in Nat, NEW hits \in SUBSET Blocks, \A i \in hits : Address[i] <= a
  PROVE  /\ FirstOf(hits, a) \in Replies
         /\ FirstOf(hits, a) # None <=> hits # {} /\ data[Min(hits)]
         /\ FirstOf(hits, a) # None =>
              FirstOf(hits, a) = [block |-> Min(hits), offset |-> a - Address[Min(hits)]]
  <1>1. CASE hits = {}
    BY <1>1 DEF FirstOf, Replies
  <1>2. CASE hits # {}
    <2>1. Min(hits) \in hits /\ Min(hits) \in Blocks
      BY <1>2, MinFirst, Table
    <2>2. a - Address[Min(hits)] \in Nat
      <3>1. Address[Min(hits)] <= a
        BY <2>1
      <3>2. Address[Min(hits)] \in Nat
        BY <2>1, Table
      <3> QED
        BY <3>1, <3>2
    <2>3. [block |-> Min(hits), offset |-> a - Address[Min(hits)]] \in [block : Blocks, offset : Nat]
      BY <2>1, <2>2
    <2> QED
      BY <1>2, <2>1, <2>3, NoneAssumption DEF FirstOf, Replies
  <1> QED
    BY <1>1, <1>2

(* The server's look-up brings a block with an offset or nothing. *)
LEMMA RawFound ==
  ASSUME TypeOK, NEW a \in Nat, NEW n \in Nat
  PROVE  GetRaw(a, n) \in Replies
  <1>1. \A i \in Blocks : InRaw(i, a, n) => Address[i] <= a
    BY DEF InRaw, In
  <1> QED
    BY <1>1, FirstFound DEF GetRaw

(* A converter's look-up brings what was asked for, within its block. *)
LEMMA TypedFound ==
  ASSUME TypeOK, NEW a \in Nat, NEW n \in Nat
  PROVE  /\ GetTyped(a, n) \in Replies
         /\ GetTyped(a, n) # None =>
              /\ Address[GetTyped(a, n).block] + GetTyped(a, n).offset = a
              /\ GetTyped(a, n).offset + n <= Quantity[GetTyped(a, n).block]
  <1> DEFINE hits == {i \in Blocks : InTyped(i, a, n)}
  <1>1. \A i \in hits : Address[i] <= a
    BY DEF InTyped, In
  <1>2. GetTyped(a, n) \in Replies
    BY <1>1, FirstFound DEF GetTyped
  <1>3. ASSUME GetTyped(a, n) # None
        PROVE  /\ Address[GetTyped(a, n).block] + GetTyped(a, n).offset = a
               /\ GetTyped(a, n).offset + n <= Quantity[GetTyped(a, n).block]
    <2>1. hits # {} /\ GetTyped(a, n) = [block |-> Min(hits), offset |-> a - Address[Min(hits)]]
      BY <1>1, <1>3, FirstFound DEF GetTyped
    <2>2. Min(hits) \in hits
      BY <2>1, MinFirst, Table
    <2>3. /\ Address[Min(hits)] \in Nat /\ Quantity[Min(hits)] \in Nat
          /\ a + n <= Address[Min(hits)] + Quantity[Min(hits)]
      BY <2>2, Table DEF InTyped, In
    <2> QED
      BY <2>1, <2>3
  <1> QED
    BY <1>2, <1>3

(* Where there is nothing raw, what a converter finds has a block before   *)
(* it that lost its data.  (One that never had any is only found for no    *)
(* registers at all, and then by both look-ups.)                           *)
LEMMA LookUpsAgree ==
  ASSUME TypeOK, Sizes, NEW a \in Nat, NEW n \in Nat,
         GetTyped(a, n) # None, GetRaw(a, n) = None
  PROVE  \E i \in Gone : i < GetTyped(a, n).block /\ In(a, n, Address[i], 2 * Quantity[i])
  <1> DEFINE typedHits == {i \in Blocks : InTyped(i, a, n)}
             rawHits == {i \in Blocks : InRaw(i, a, n)}
  <1>1. /\ \A i \in typedHits : Address[i] <= a
        /\ \A i \in rawHits : Address[i] <= a
    BY DEF InTyped, InRaw, In
  <1>2. /\ typedHits # {} /\ data[Min(typedHits)]
        /\ GetTyped(a, n).block = Min(typedHits)
    BY <1>1, FirstFound DEF GetTyped
  <1>3. Min(typedHits) \in typedHits /\ \A i \in typedHits : Min(typedHits) <= i
    BY <1>2, MinFirst, Table
  <1>4. Min(typedHits) \in rawHits
    <2> DEFINE i == Min(typedHits)
    <2> HIDE DEF i, typedHits, rawHits
    <2>1. i \in Blocks /\ InTyped(i, a, n) /\ data[i]
      BY <1>2, <1>3 DEF i, typedHits
    <2>2. Address[i] \in Nat /\ Quantity[i] \in Nat
      BY <2>1, Table
    <2>3. InRaw(i, a, n)
      <3>1. length[i] = 2 * Quantity[i]
        BY <2>1 DEF Sizes
      <3> QED
        BY <2>1, <2>2, <3>1 DEF InTyped, InRaw, In
    <2> QED
      BY <2>1, <2>3 DEF i, rawHits
  <1>5. Min(rawHits) \in rawHits /\ \A i \in rawHits : Min(rawHits) <= i
    BY <1>4, MinFirst, Table
  <1>6. ~data[Min(rawHits)]
    BY <1>1, <1>4, FirstFound DEF GetRaw
  <1>7. Min(rawHits) < Min(typedHits)
    <2>1. Min(rawHits) # Min(typedHits)
      BY <1>2, <1>6
    <2>2. Min(rawHits) <= Min(typedHits)
      BY <1>4, <1>5
    <2>3. Min(rawHits) \in Nat /\ Min(typedHits) \in Nat
      BY <1>3, <1>5, Table
    <2> QED
      BY <2>1, <2>2, <2>3
  <1> DEFINE i == Min(rawHits)
  <1> HIDE DEF i, typedHits, rawHits
  <1>8. i \in Blocks /\ InRaw(i, a, n) /\ ~data[i] /\ i < Min(typedHits)
    BY <1>5, <1>6, <1>7 DEF i, rawHits
  <1>9. i \in Nat /\ Address[i] \in Nat /\ Quantity[i] \in Nat \ {0}
    BY <1>8, Table
  <1>10. length[i] = 2 * Quantity[i]
    <2> SUFFICES ASSUME length[i] = 0 PROVE FALSE
      BY <1>8 DEF Sizes
    <2>1. InTyped(i, a, n)
      BY <1>8, <1>9 DEF InTyped, InRaw, In
    <2>2. i \in typedHits
      BY <1>8, <2>1 DEF typedHits
    <2>3. Min(typedHits) <= i /\ Min(typedHits) \in Nat
      BY <1>3, <2>2, Table DEF typedHits
    <2> QED
      BY <1>8, <1>9, <2>3
  <1>11. i \in Gone
    BY <1>8, <1>9, <1>10 DEF Gone
  <1> QED
    BY <1>2, <1>8, <1>10, <1>11 DEF InRaw

-----------------------------------------------------------------------------
(* The types of what belongs to the connection and to /info. *)
PeerTyped ==
  /\ sent \in Seq([id : FirstId..(FirstId + MaxSent), function : Functions, read : Asked])
  /\ stream \in Seq(Byte) /\ smooth \in BOOLEAN
  /\ replies \in Seq([id : Nat, unit : Byte, exception : BOOLEAN, read : Nat \X Nat])
InfoTyped ==
  /\ step \in {"idle", "model", "unique_id", "status1", "battery1", "status2", "battery2", "done"}
  /\ len \in 0..(LenModulus - 1) /\ unique_len \in Byte /\ listed \subseteq Batteries
  /\ found_text # None => found_text.size <= found_text.text.size

(* What concerns the look-ups, and what concerns the texts. *)
Looked == TypeOK /\ Sizes /\ TypedWithin /\ RawServesPolled
Informed == InfoTyped /\ TextsWhole

(* The invariant by the parts a step leaves alone or not. *)
LEMMA Parts == IInv <=> Looked /\ PeerTyped /\ Informed
  BY DEF IInv, Looked, PeerTyped, Informed, InfoTyped, ReadersTypeOK

(* What look-ups have brought stays when the cache does. *)
LEMMA LookedKept ==
  ASSUME Looked, UNCHANGED vars PROVE Looked'
  BY DEF Looked, vars, TypeOK, Sizes, TypedWithin, Within, RawServesPolled, Replies

(* A connection nobody touches keeps its types. *)
LEMMA PeerKept ==
  ASSUME PeerTyped, UNCHANGED peerVars PROVE PeerTyped'
  BY DEF PeerTyped, peerVars

(* So does /info. *)
LEMMA InformedKept ==
  ASSUME Informed, UNCHANGED infoVars PROVE Informed'
  BY DEF Informed, infoVars, InfoTyped, TextsWhole

-----------------------------------------------------------------------------
(* Before anything is polled, asked for or shown. *)
LEMMA InitIInv == ReadersInit => IInv
  <1> SUFFICES ASSUME ReadersInit PROVE IInv
    OBVIOUS
  <1>1. Looked
    BY DEF ReadersInit, ServerInit, Init, Looked, TypeOK, Sizes, TypedWithin, Within,
           RawServesPolled, Replies
  <1>2. PeerTyped
    BY EmptySeq DEF ReadersInit, ServerInit, PeerTyped
  <1>3. Informed
    BY LeftoversAssumption DEF ReadersInit, InfoInit, Informed, InfoTyped, TextsWhole, Byte
  <1> QED
    BY <1>1, <1>2, <1>3, Parts

(* A block that gets or loses its data does not touch what was looked up.  *)
LEMMA SaveKeeps ==
  ASSUME Looked, NEW i \in Blocks, Save(i) PROVE Looked'
  <1>1. data' \in [Blocks -> BOOLEAN]
    BY DEF Looked, TypeOK, Save
  <1>2. length' \in [Blocks -> Nat]
    BY Table DEF Looked, TypeOK, Save, ByteLength
  <1>3. Sizes'
    <2> SUFFICES ASSUME NEW k \in Blocks
                 PROVE  length'[k] = 2 * Quantity[k] \/ (length'[k] = 0 /\ ~data'[k])
      BY DEF Sizes
    <2>1. CASE k = i
      BY <2>1 DEF Looked, TypeOK, Sizes, Save, ByteLength
    <2>2. CASE k # i
      BY <2>2 DEF Looked, TypeOK, Sizes, Save
    <2> QED
      BY <2>1, <2>2
  <1>4. TypeOK'
    BY <1>1, <1>2 DEF Looked, Save, TypeOK, Replies
  <1>5. TypedWithin' /\ RawServesPolled'
    BY DEF Looked, Save, TypedWithin, Within, RawServesPolled
  <1> QED
    BY <1>3, <1>4, <1>5 DEF Looked

(* Whatever is asked for, the two look-ups are of the same data. *)
LEMMA ServeKeeps ==
  ASSUME Looked, NEW r \in Nat \X Nat, Serve(r) PROVE Looked'
  <1>1. TypeOK /\ r[1] \in Nat /\ r[2] \in Nat
    BY DEF Looked
  <1>2. GetRaw(r[1], r[2]) \in Replies
    BY <1>1, RawFound
  <1>3. /\ GetTyped(r[1], r[2]) \in Replies
        /\ GetTyped(r[1], r[2]) # None =>
             /\ Address[GetTyped(r[1], r[2]).block] + GetTyped(r[1], r[2]).offset = r[1]
             /\ GetTyped(r[1], r[2]).offset + r[2] <= Quantity[GetTyped(r[1], r[2]).block]
    BY <1>1, TypedFound
  <1>4. GetTyped(r[1], r[2]) # None /\ GetRaw(r[1], r[2]) = None =>
          \E i \in Gone : /\ i < GetTyped(r[1], r[2]).block
                         /\ In(r[1], r[2], Address[i], 2 * Quantity[i])
    BY <1>1, LookUpsAgree DEF Looked
  <1>5. TypeOK' /\ Sizes'
    BY <1>1, <1>2, <1>3 DEF Serve, TypeOK, Replies, Gone, Looked, Sizes
  <1>6. TypedWithin'
    BY <1>3 DEF Serve, TypedWithin, Within
  <1>7. RawServesPolled'
    BY <1>4 DEF Serve, RawServesPolled, In
  <1> QED
    BY <1>5, <1>6, <1>7 DEF Looked

-----------------------------------------------------------------------------
(* What a byte can hold; the unit and the function codes are bytes. *)
LEMMA BytesAre ==
  /\ \A n : n \in Byte <=> n \in Nat /\ n <= 255
  /\ 0 \in Byte /\ Unit \in Byte
  /\ \A f \in Functions : f \in Byte /\ f # 0
  <1>1. \A n : n \in Byte <=> n \in Nat /\ n <= 255
    BY DEF Byte
  <1>2. \A f \in 1..127 : f \in Nat /\ f <= 255 /\ f # 0
    OBVIOUS
  <1>3. 0 <= 255 /\ 1 <= 255
    OBVIOUS
  <1>4. \A f \in Functions : f \in 1..127
    BY AskedAssumption
  <1>5. \A f \in Functions : f \in Byte /\ f # 0
    BY <1>1, <1>2, <1>4, Zenon
  <1> QED
    BY <1>1, <1>3, <1>5 DEF Unit

(* What a field of two bytes can hold. *)
LEMMA WordsAre ==
  /\ \A n : n \in Words <=> n \in Nat /\ n < WordSize
  /\ 0 \in Words /\ 6 \in Words /\ WordSize \in Nat /\ WordSize = 65536
  <1>1. WordSize = 65536 /\ WordSize \in Nat
    BY DEF WordSize
  <1>2. \A n : n \in Words <=> n \in Nat /\ n < WordSize
    <2>1. \A b \in Nat : \A n : n \in 0..(b - 1) <=> n \in Nat /\ n < b
      OBVIOUS
    <2>2. WordSize \in Nat
      BY <1>1
    <2> QED
      BY <2>1, <2>2 DEF Words
  <1>3. 0 < WordSize /\ 6 < WordSize
    BY <1>1
  <1> QED
    BY <1>1, <1>2, <1>3

(* A field of two bytes. *)
LEMMA TwoBytesTyped ==
  ASSUME NEW n \in Words PROVE TwoBytes(n) \in Seq(Byte) /\ Len(TwoBytes(n)) = 2
  <1>1. n \in Nat /\ n <= 65535
    <2>1. n \in Nat /\ n < 65536
      BY WordsAre
    <2> QED
      BY <2>1
  <1>2. n % 256 \in Byte
    <2>1. n % 256 \in Nat /\ n % 256 <= 255
      BY <1>1
    <2> QED
      BY <2>1, BytesAre
  <1>3. n \div 256 \in Byte
    <2>1. n \div 256 \in Nat
      BY <1>1
    <2>2. n \div 256 <= 255
      BY <1>1
    <2> QED
      BY <2>1, <2>2, BytesAre
  <1> QED
    BY <1>2, <1>3 DEF TwoBytes

(* A request has fields of two bytes, and is sent as bytes. *)
LEMMA SendKeeps ==
  ASSUME PeerTyped, NEW read \in Asked, NEW function \in Functions, Send(read, function)
  PROVE  PeerTyped'
  <1> DEFINE q == [id |-> FirstId + Len(sent), function |-> function, read |-> read]
  <1>1. Len(sent) \in Nat /\ Len(sent) < MaxSent
    BY LenProperties DEF PeerTyped, Send
  <1>2. /\ q.id \in FirstId..(FirstId + MaxSent) /\ q.id \in Words
        /\ q.function \in Byte
    <2>1. FirstId + Len(sent) \in FirstId..(FirstId + MaxSent) /\ FirstId + Len(sent) \in Words
      <3>1. \A b, f, m, l \in Nat : l < m /\ f + m <= b
                                    => f + l \in f..(f + m) /\ f + l \in Nat /\ f + l < b
        OBVIOUS
      <3>2. /\ FirstId \in Nat /\ MaxSent \in Nat /\ WordSize \in Nat
            /\ FirstId + MaxSent <= WordSize
        BY SentAssumption, FieldsAssumption, WordsAre
      <3>3. /\ FirstId + Len(sent) \in FirstId..(FirstId + MaxSent)
            /\ FirstId + Len(sent) \in Nat /\ FirstId + Len(sent) < WordSize
        BY <1>1, <3>1, <3>2
      <3> QED
        BY <3>3, WordsAre
    <2>2. function \in Byte
      BY BytesAre
    <2> QED
      BY <2>1, <2>2
  <1>3. q \in [id : FirstId..(FirstId + MaxSent), function : Functions, read : Asked]
    BY <1>2
  <1>4. Bytes(q) \in Seq(Byte)
    <2>1. q.read[1] \in Words /\ q.read[2] \in Words
      <3>1. read \in Words \X Words
        BY FieldsAssumption
      <3> QED
        BY <3>1
    <2>2. /\ TwoBytes(q.id) \in Seq(Byte) /\ TwoBytes(0) \in Seq(Byte) /\ TwoBytes(6) \in Seq(Byte)
          /\ TwoBytes(q.read[1]) \in Seq(Byte) /\ TwoBytes(q.read[2]) \in Seq(Byte)
      <3>1. 0 \in Words /\ 6 \in Words
        BY WordsAre
      <3> HIDE DEF q
      <3> QED
        BY <1>2, <2>1, <3>1, TwoBytesTyped
    <2>3. <<Unit, q.function>> \in Seq(Byte)
      <3>1. Unit \in Byte /\ q.function \in Byte
        BY <1>2, BytesAre
      <3> QED
        BY <3>1
    <2> HIDE DEF q
    <2> QED
      BY <2>2, <2>3, ConcatProperties DEF Bytes
  <1>5. /\ sent' = Append(sent, q) /\ stream' = stream \o Bytes(q)
        /\ UNCHANGED <<replies, smooth>>
    BY DEF Send
  <1> HIDE DEF q
  <1>6. sent' \in Seq([id : FirstId..(FirstId + MaxSent), function : Functions, read : Asked])
    BY <1>3, <1>5, AppendProperties DEF PeerTyped
  <1>7. stream' \in Seq(Byte)
    BY <1>4, <1>5, ConcatProperties DEF PeerTyped
  <1> QED
    BY <1>5, <1>6, <1>7 DEF PeerTyped

(* The bytes one read returns. *)
LEMMA Buffered ==
  ASSUME PeerTyped, NEW n \in DOMAIN stream
  PROVE  /\ SubSeq(stream, n + 1, Len(stream)) \in Seq(Byte)
         /\ SubSeq(stream, 1, n) \in Seq(Byte)
         /\ Len(SubSeq(stream, 1, n)) = n /\ n \in Nat
  <1>1. /\ stream \in Seq(Byte) /\ Len(stream) \in Nat /\ n \in 1..Len(stream)
        /\ \A k \in 1..Len(stream) : stream[k] \in Byte
    BY LenProperties, ElementOfSeq DEF PeerTyped
  <1>2. n + 1 \in Int /\ Len(stream) \in Int /\ \A k \in (n + 1)..Len(stream) : stream[k] \in Byte
    BY <1>1
  <1>3. 1 \in Int /\ n \in Int /\ 1 <= n /\ \A k \in 1..n : stream[k] \in Byte
    BY <1>1
  <1>4. SubSeq(stream, n + 1, Len(stream)) \in Seq(Byte)
    BY <1>2, SubSeqProperties
  <1>5. SubSeq(stream, 1, n) \in Seq(Byte) /\ Len(SubSeq(stream, 1, n)) = n
    BY <1>3, SubSeqProperties
  <1> QED
    BY <1>1, <1>4, <1>5

(* The numbers of a buffer that passes for a request. *)
LEMMA Numbers ==
  ASSUME NEW buffer \in Seq(Byte), Whole(buffer)
  PROVE  /\ Wanted(buffer) \in Nat \X Nat
         /\ \A found : Reply(buffer, found)
                         \in [id : Nat, unit : Byte, exception : BOOLEAN, read : Nat \X Nat]
  <1>1. \A k \in 1..12 : buffer[k] \in Byte
    <2>1. Len(buffer) \in Nat /\ Len(buffer) >= 12
      BY LenProperties DEF Whole
    <2>2. \A k \in 1..12 : k \in 1..Len(buffer)
      BY <2>1
    <2> QED
      BY <2>2, ElementOfSeq
  <1>2. \A k \in 1..11 : Number(buffer, k) \in Nat
    <2> SUFFICES ASSUME NEW k \in 1..11 PROVE Number(buffer, k) \in Nat
      OBVIOUS
    <2>1. k \in 1..12 /\ k + 1 \in 1..12
      OBVIOUS
    <2>2. buffer[k] \in Byte /\ buffer[k + 1] \in Byte
      BY <1>1, <2>1
    <2>3. \A x, y \in Byte : 256 * x + y \in Nat
      <3>1. \A x, y \in Nat : 256 * x + y \in Nat
        OBVIOUS
      <3> QED
        BY <3>1, BytesAre
    <2> QED
      BY <2>2, <2>3 DEF Number
  <1>3. Wanted(buffer) \in Nat \X Nat
    BY <1>2 DEF Wanted
  <1>4. Number(buffer, 1) \in Nat /\ buffer[7] \in Byte
    BY <1>1, <1>2
  <1> QED
    BY <1>3, <1>4 DEF Reply

(* What the server reads, looks up and replies. *)
LEMMA ReadKeeps ==
  ASSUME Looked, PeerTyped, NEW n \in DOMAIN stream, Read(n) PROVE Looked' /\ PeerTyped'
  <1> DEFINE buffer == SubSeq(stream, 1, n)
             ReplyType == [id : Nat, unit : Byte, exception : BOOLEAN, read : Nat \X Nat]
  <1>1. /\ SubSeq(stream, n + 1, Len(stream)) \in Seq(Byte)
        /\ buffer \in Seq(Byte) /\ n \in Nat
    BY Buffered
  <1>2. /\ stream' \in Seq(Byte) /\ sent' = sent /\ smooth' \in BOOLEAN
        /\ Handle(buffer) \/ HandleFails(buffer)
    BY <1>1 DEF Read, PeerTyped
  <1>3. Whole(buffer) => \A found : Reply(buffer, found) \in ReplyType
    BY <1>1, Numbers
  <1>4. Whole(buffer) => Wanted(buffer) \in Nat \X Nat
    BY <1>1, Numbers
  <1> HIDE DEF buffer
  <1>5. Looked' /\ replies' \in Seq(ReplyType)
    <2>1. CASE Whole(buffer) /\ Supported(buffer) /\ Handle(buffer)
      <3>1. Serve(Wanted(buffer)) /\ replies' = Append(replies, Reply(buffer, raw'))
        BY <2>1 DEF Handle
      <3>2. Looked'
        BY <1>4, <2>1, <3>1, ServeKeeps
      <3>3. Reply(buffer, raw') \in ReplyType
        BY <1>3, <2>1
      <3> QED
        BY <3>1, <3>2, <3>3, AppendProperties DEF PeerTyped
    <2>2. CASE HandleFails(buffer)
      <3>1. Reply(buffer, None) \in ReplyType
        BY <1>3, <2>2 DEF HandleFails
      <3>2. Append(replies, Reply(buffer, None)) \in Seq(ReplyType)
        BY <3>1, AppendProperties DEF PeerTyped
      <3>3. Looked'
        BY <2>2, LookedKept DEF HandleFails
      <3> QED
        BY <2>2, <3>2, <3>3 DEF HandleFails, PeerTyped
    <2>3. CASE ~(Whole(buffer) /\ Supported(buffer)) /\ Handle(buffer)
      BY <2>3, LookedKept DEF Handle, PeerTyped
    <2> QED
      BY <1>2, <2>1, <2>2, <2>3
  <1> QED
    BY <1>2, <1>5 DEF PeerTyped

-----------------------------------------------------------------------------
(* What has been counted before does not change a sum that stays small. *)
LEMMA SmallSum ==
  ASSUME NEW L \in Nat \ {0}, NEW s \in Nat
  PROVE  s % L \in 0..(L - 1) /\ (s < L => s % L = s)
  OBVIOUS

(* A text that is looked up: never longer than it is, and whole and clean  *)
(* when nothing was in *len, or when a 0 follows it.                       *)
LEMMA TextLookedUp ==
  ASSUME NEW k, NEW left \in 0..(LenModulus - 1), LookUpText(k, left)
  PROVE  /\ len' \in 0..(LenModulus - 1)
         /\ found_text' # None => found_text'.size <= found_text'.text.size
         /\ TextsWhole'
  <1> DEFINE found == GetTyped(Field[k][1], Field[k][2]) # None
             sum(text) == (left + IF found THEN text.size ELSE 0) % LenModulus
             size(text) == IF sum(text) < text.size THEN sum(text) ELSE text.size
             copied(text) ==
               [text |-> text, left |-> left, found |-> found,
                size |-> IF found THEN size(text) ELSE 0,
                clean |-> found /\ (sum(text) = size(text) \/ (size(text) = text.size /\ text.nul))]
  <1>1. PICK text \in Texts :
          /\ len' = sum(text)
          /\ found_text' \in {copied(text), None}
          /\ sum(text) = 0 => found_text' = None
    <2>1. PICK text \in Texts :
            /\ len' = sum(text)
            /\ \E c \in {copied(text), None} :
                 (sum(text) = 0 => c = None) /\ found_text' = c
      BY DEF LookUpText, Counted
    <2> HIDE DEF sum, copied
    <2> QED
      BY <2>1
  <1>2. LenModulus \in Nat \ {0} /\ left \in Nat /\ text.size \in Nat /\ text.nul \in BOOLEAN
    BY TextsAssumption, LeftoversAssumption
  <1>3. /\ sum(text) \in 0..(LenModulus - 1)
        /\ found /\ left + text.size < LenModulus => sum(text) = left + text.size
        /\ ~found => sum(text) = left
    <2>1. CASE found
      <3>1. sum(text) = (left + text.size) % LenModulus /\ left + text.size \in Nat
        BY <1>2, <2>1
      <3> QED
        BY <1>2, <2>1, <3>1, SmallSum
    <2>2. CASE ~found
      <3>1. sum(text) = left % LenModulus /\ left < LenModulus
        BY <1>2, <2>2
      <3>2. left % LenModulus = left
        BY <1>2, <3>1, SmallSum
      <3> QED
        BY <1>2, <2>2, <3>1, <3>2
    <2> QED
      BY <2>1, <2>2
  <1> HIDE DEF found, sum
  <1>4. ASSUME found_text' # None
        PROVE  found_text'.size <= found_text'.text.size
    <2>1. found_text' = copied(text)
      BY <1>1, <1>4
    <2>2. size(text) <= text.size
      BY <1>2, <1>3
    <2> QED
      BY <1>2, <2>1, <2>2
  <1>5. TextsWhole'
    <2> SUFFICES ASSUME found_text' # None,
                        found_text'.left = 0 \/ (found_text'.found /\ found_text'.text.nul),
                        found_text'.left + found_text'.text.size < LenModulus
                 PROVE  found_text'.found /\ found_text'.clean /\ found_text'.size = found_text'.text.size
      BY DEF TextsWhole
    <2>1. found_text' = copied(text) /\ sum(text) # 0
      BY <1>1
    <2>2. left = 0 \/ (found /\ text.nul)
      BY <2>1
    <2>3. left + text.size < LenModulus
      BY <2>1
    <2>4. found
      BY <1>3, <2>1, <2>2
    <2>5. sum(text) = left + text.size /\ size(text) = text.size
      BY <1>2, <1>3, <2>3, <2>4
    <2>6. sum(text) = size(text) \/ (size(text) = text.size /\ text.nul)
      BY <1>2, <2>2, <2>5
    <2> QED
      BY <2>1, <2>4, <2>5, <2>6
  <1> QED
    BY <1>1, <1>3, <1>4, <1>5

-----------------------------------------------------------------------------
(* Every step of /info. *)
LEMMA InformingKeeps ==
  ASSUME Informed, Informing PROVE Informed'
  <1>1. LenModulus \in Nat \ {0} /\ 0 \in 0..(LenModulus - 1)
    BY LeftoversAssumption
  <1>2. CASE InfoBegins
    BY <1>2 DEF InfoBegins, Moves, Informed, InfoTyped, TextsWhole
  <1>3. CASE InfoSent
    BY <1>1, <1>3, BytesAre DEF InfoSent, Moves, Informed, InfoTyped, TextsWhole
  <1>4. ASSUME NEW k, NEW to \in {"unique_id", "status1"}, InverterText(k, to)
        PROVE  Informed'
    <2>1. PICK left \in Leftovers : LookUpText(k, left)
      BY <1>4 DEF InverterText
    <2>2. left \in 0..(LenModulus - 1)
      BY LeftoversAssumption
    <2>3. step' = to /\ unique_len' = unique_len /\ listed' = listed
      BY <1>4 DEF InverterText, Moves
    <2> QED
      BY <2>1, <2>2, <2>3, TextLookedUp DEF Informed, InfoTyped
  <1>5. ASSUME NEW b \in Batteries, NEW to \in {"status2", "done"}, BatteryFound(b, to)
        PROVE  Informed'
    <2>1. /\ step' \in {to, b}
          /\ UNCHANGED <<len, unique_len, found_text, listed>>
      BY <1>5 DEF BatteryFound
    <2>2. b \in {"battery1", "battery2"}
      BY DEF Batteries, StatusOf
    <2> QED
      BY <2>1, <2>2 DEF Informed, InfoTyped, TextsWhole
  <1>6. ASSUME NEW b \in Batteries, NEW to \in {"status2", "done"}, BatteryRead(b, to)
        PROVE  Informed'
    <2>1. step' = to /\ listed' = listed \cup {b}
      BY <1>6 DEF BatteryRead, Moves
    <2>2. listed' \subseteq Batteries
      BY <2>1 DEF Informed, InfoTyped
    <2>3. CASE unique_len = 0
      <3>1. PICK left \in IF listed = {} THEN Leftovers ELSE {len} : LookUpText(b, left)
        BY <1>6, <2>3 DEF BatteryRead
      <3>2. left \in 0..(LenModulus - 1)
        BY LeftoversAssumption DEF Informed, InfoTyped
      <3>3. /\ len' \in 0..(LenModulus - 1)
            /\ found_text' # None => found_text'.size <= found_text'.text.size
            /\ TextsWhole'
        BY <3>1, <3>2, TextLookedUp
      <3>4. unique_len' \in {0, len' % 256}
        BY <1>6, <2>3 DEF BatteryRead
      <3>5. unique_len' \in Byte
        <4>1. len' \in Nat
          BY <1>1, <3>3
        <4>2. \A n \in Nat : n % 256 \in Nat /\ n % 256 <= 255
          OBVIOUS
        <4>3. len' % 256 \in Byte
          BY <4>1, <4>2, BytesAre
        <4> QED
          BY <3>4, <4>3, BytesAre
      <3> QED
        BY <2>1, <2>2, <3>3, <3>5 DEF Informed, InfoTyped
    <2>4. CASE unique_len # 0
      BY <1>6, <2>1, <2>2, <2>4 DEF BatteryRead, Informed, InfoTyped, TextsWhole
    <2> QED
      BY <2>3, <2>4
  <1>7. "battery1" \in Batteries /\ "battery2" \in Batteries
    BY DEF Batteries, StatusOf
  <1> QED
    BY <1>2, <1>3, <1>4, <1>5, <1>6, <1>7 DEF Informing

(* Every step, by what it touches. *)
LEMMA NextIInv == IInv /\ [ReadersNext]_allVars => IInv'
  <1> SUFFICES ASSUME IInv, [ReadersNext]_allVars PROVE IInv'
    OBVIOUS
  <1>1. Looked /\ PeerTyped /\ Informed
    BY Parts
  <1> SUFFICES Looked' /\ PeerTyped' /\ Informed'
    BY Parts, PTL
  <1>2. CASE Filling
    <2>1. (\E i \in Blocks : Save(i)) /\ UNCHANGED peerVars /\ UNCHANGED infoVars
      BY <1>2 DEF Filling
    <2> QED
      BY <1>1, <2>1, SaveKeeps, PeerKept, InformedKept
  <1>3. CASE Converting
    <2>1. (\E r \in Requests : Serve(r)) /\ UNCHANGED peerVars /\ UNCHANGED infoVars
      BY <1>3 DEF Converting
    <2>2. \A r \in Requests : r \in Nat \X Nat
      BY RequestsAssumption
    <2> QED
      BY <1>1, <2>1, <2>2, ServeKeeps, PeerKept, InformedKept
  <1>4. CASE ServingOne
    <2>1. Serving /\ UNCHANGED infoVars
      BY <1>4 DEF ServingOne
    <2>2. ASSUME NEW read \in Asked, NEW function \in Functions, Send(read, function)
          PROVE  Looked' /\ PeerTyped'
      <3>1. UNCHANGED vars
        BY <2>2 DEF Send
      <3> QED
        BY <1>1, <2>2, <3>1, LookedKept, SendKeeps
    <2>3. ASSUME NEW n \in DOMAIN stream, Read(n)
          PROVE  Looked' /\ PeerTyped'
      BY <1>1, <2>3, ReadKeeps
    <2> QED
      BY <1>1, <2>1, <2>2, <2>3, InformedKept DEF Serving
  <1>5. CASE InformingOne
    <2>1. Informing /\ UNCHANGED peerVars
      BY <1>5 DEF InformingOne
    <2>2. UNCHANGED vars
      BY <2>1 DEF Informing
    <2> QED
      BY <1>1, <2>1, <2>2, LookedKept, PeerKept, InformingKeeps
  <1>6. CASE UNCHANGED allVars
    <2>1. UNCHANGED vars /\ UNCHANGED peerVars /\ UNCHANGED infoVars
      BY <1>6 DEF allVars
    <2> QED
      BY <1>1, <2>1, LookedKept, PeerKept, InformedKept
  <1> QED
    BY <1>2, <1>3, <1>4, <1>5, <1>6 DEF ReadersNext

(* The invariant holds in every reachable state. *)
LEMMA Inductive == ReadersSpec => []IInv
  <1> QED
    BY InitIInv, NextIInv, PTL DEF ReadersSpec

-----------------------------------------------------------------------------
(* Variables keep their types: requests and replies that fit their fields, *)
(* an inverter's text that is never longer than it is (70-129, 190-203).   *)
THEOREM TypeCorrect == ReadersSpec => []ReadersTypeOK
  <1>1. IInv => ReadersTypeOK
    BY DEF IInv
  <1> QED
    BY <1>1, Inductive, PTL

(* Converters never read past the end of a block, whatever the register    *)
(* table and whatever has been polled (modbus_tcp_poll.c:130-160).         *)
THEOREM WindowsHold == ReadersSpec => []TypedWithin
  <1>1. IInv => TypedWithin
    BY DEF IInv
  <1> QED
    BY <1>1, Inductive, PTL

(* What a converter would get is refused to a client of the server only    *)
(* because of a block before that a save has left without data: else the   *)
(* two look-ups, with windows in registers and in bytes, agree on it, for  *)
(* every register table (modbus_tcp_poll.c:79-100, 103-127, 130-160).      *)
THEOREM ClientsAreServed == ReadersSpec => []RawServesPolled
  <1>1. IInv => RawServesPolled
    BY DEF IInv
  <1> QED
    BY <1>1, Inductive, PTL

(* A text looked up with *len at 0, or followed by a 0, is shown whole     *)
(* while the sum fits *len, whatever the registers hold and whatever the   *)
(* caller left there (modbus_tcp_poll.c:190-203).                          *)
THEOREM TextsAreWhole == ReadersSpec => []TextsWhole
  <1>1. IInv => TextsWhole
    BY DEF IInv
  <1> QED
    BY <1>1, Inductive, PTL

-----------------------------------------------------------------------------
(***************************************************************************)
(* A connection of the Modbus server, for every number of requests, every  *)
(* register asked for beyond the first addresses and every way TCP cuts    *)
(* and joins the bytes: a reply belongs to a request, in order, and none   *)
(* is missing when requests arrive one by one.                             *)
(***************************************************************************)

(* Bytes the server has read; what is under way are the rest of all the    *)
(* bytes sent, byte by byte, with no regard to where requests begin.       *)
Taken == 12 * Len(sent) - Len(stream)
StreamIs ==
  /\ Len(stream) <= 12 * Len(sent)
  /\ \A q \in 1..Len(sent), j \in 1..12 :
       Taken < 12 * (q - 1) + j =>
         stream[12 * (q - 1) + j - Taken] = Bytes(sent[q])[j]

(* Requests are numbered, within two bytes. *)
Numbered ==
  /\ Len(sent) <= MaxSent
  /\ \A q \in 1..Len(sent) : sent[q].id = FirstId + q - 1

(* Every reply is to a request all of which has been read. *)
RepliesOwn ==
  \A p \in 1..Len(replies) : \E q \in 1..Len(sent) :
    /\ 12 * q <= Taken
    /\ sent[q].id = replies[p].id /\ sent[q].read = replies[p].read
    /\ sent[q].function = 3 /\ replies[p].unit = Unit

RepliesInOrder ==
  \A p \in 1..Len(replies) : p > 1 => replies[p - 1].id < replies[p].id

(* As long as each read has returned one request, all of them that the     *)
(* server supports have been answered.                                     *)
AllSoFar ==
  smooth =>
    /\ \E k \in 0..Len(sent) : Taken = 12 * k
    /\ \A q \in 1..Len(sent) : 12 * q <= Taken /\ sent[q].function = 3 =>
         \E p \in 1..Len(replies) : replies[p].id = sent[q].id

OwnInv ==
  PeerTyped /\ StreamIs /\ Numbered /\ RepliesOwn /\ RepliesInOrder /\ AllSoFar

-----------------------------------------------------------------------------
(* Two bytes behind others. *)
LEMMA Behind ==
  ASSUME NEW s \in Seq(Byte), NEW t \in Seq(Byte), Len(t) = 2
  PROVE  /\ s \o t \in Seq(Byte) /\ Len(s \o t) = Len(s) + 2
         /\ \A j \in 1..Len(s) : (s \o t)[j] = s[j]
         /\ (s \o t)[Len(s) + 1] = t[1] /\ (s \o t)[Len(s) + 2] = t[2]
  <1>1. /\ s \o t \in Seq(Byte) /\ Len(s \o t) = Len(s) + Len(t)
        /\ \A j \in 1..(Len(s) + Len(t)) :
             (s \o t)[j] = IF j <= Len(s) THEN s[j] ELSE t[j - Len(s)]
    BY ConcatProperties
  <1>2. Len(s) \in Nat
    BY LenProperties
  <1>3. Len(s) + 1 \in 1..(Len(s) + Len(t)) /\ Len(s) + 2 \in 1..(Len(s) + Len(t))
    BY <1>2
  <1>4. ~(Len(s) + 1 <= Len(s)) /\ ~(Len(s) + 2 <= Len(s))
        /\ Len(s) + 1 - Len(s) = 1 /\ Len(s) + 2 - Len(s) = 2
    BY <1>2
  <1>5. (s \o t)[Len(s) + 1] = t[1] /\ (s \o t)[Len(s) + 2] = t[2]
    BY <1>1, <1>3, <1>4
  <1>6. \A j \in 1..Len(s) : j \in 1..(Len(s) + Len(t)) /\ j <= Len(s)
    BY <1>2
  <1> QED
    BY <1>1, <1>5, <1>6

(* The bytes of a request (modbus_tcp_server.c:75-88). *)
LEMMA Layout ==
  ASSUME NEW q, q.id \in Words, q.function \in Byte, q.read[1] \in Words, q.read[2] \in Words
  PROVE  /\ Bytes(q) \in Seq(Byte) /\ Len(Bytes(q)) = 12
         /\ Bytes(q)[1] = q.id \div 256 /\ Bytes(q)[2] = q.id % 256
         /\ Bytes(q)[3] = 0 /\ Bytes(q)[4] = 0
         /\ Bytes(q)[5] = 0 /\ Bytes(q)[6] = 6
         /\ Bytes(q)[7] = Unit /\ Bytes(q)[8] = q.function
         /\ Bytes(q)[9] = q.read[1] \div 256 /\ Bytes(q)[10] = q.read[1] % 256
         /\ Bytes(q)[11] = q.read[2] \div 256 /\ Bytes(q)[12] = q.read[2] % 256
  <1> DEFINE a == TwoBytes(q.id)
             b == TwoBytes(0)
             c == TwoBytes(6)
             d == <<Unit, q.function>>
             e == TwoBytes(q.read[1])
             f == TwoBytes(q.read[2])
  <1>1. 0 \in Words /\ 6 \in Words
    BY WordsAre
  <1>2. /\ a \in Seq(Byte) /\ Len(a) = 2 /\ b \in Seq(Byte) /\ Len(b) = 2
        /\ c \in Seq(Byte) /\ Len(c) = 2 /\ e \in Seq(Byte) /\ Len(e) = 2
        /\ f \in Seq(Byte) /\ Len(f) = 2
    BY <1>1, TwoBytesTyped
  <1>3. d \in Seq(Byte) /\ Len(d) = 2
    BY BytesAre
  <1>4. /\ a[1] = q.id \div 256 /\ a[2] = q.id % 256
        /\ b[1] = 0 /\ b[2] = 0 /\ c[1] = 0 /\ c[2] = 6
        /\ d[1] = Unit /\ d[2] = q.function
        /\ e[1] = q.read[1] \div 256 /\ e[2] = q.read[1] % 256
        /\ f[1] = q.read[2] \div 256 /\ f[2] = q.read[2] % 256
    BY DEF TwoBytes
  <1>5. Bytes(q) = ((((a \o b) \o c) \o d) \o e) \o f
    BY DEF Bytes
  <1> HIDE DEF a, b, c, d, e, f
  <1> DEFINE s4 == a \o b
             s6 == s4 \o c
             s8 == s6 \o d
             s10 == s8 \o e
             s12 == s10 \o f
  <1>6. /\ s4 \in Seq(Byte) /\ Len(s4) = 4
        /\ s4[1] = a[1] /\ s4[2] = a[2] /\ s4[3] = b[1] /\ s4[4] = b[2]
    <2>1. /\ a \o b \in Seq(Byte) /\ Len(a \o b) = Len(a) + 2
          /\ \A j \in 1..Len(a) : (a \o b)[j] = a[j]
          /\ (a \o b)[Len(a) + 1] = b[1]
          /\ (a \o b)[Len(a) + 2] = b[2]
      BY <1>2, Behind
    <2>2. Len(a) = 2
      BY <1>2
    <2> QED
      BY <2>1, <2>2
  <1> HIDE DEF s4
  <1>7. /\ s6 \in Seq(Byte) /\ Len(s6) = 6
        /\ \A j \in 1..4 : s6[j] = s4[j]
        /\ s6[5] = c[1] /\ s6[6] = c[2]
    <2>1. /\ s4 \o c \in Seq(Byte) /\ Len(s4 \o c) = Len(s4) + 2
          /\ \A j \in 1..Len(s4) : (s4 \o c)[j] = s4[j]
          /\ (s4 \o c)[Len(s4) + 1] = c[1]
          /\ (s4 \o c)[Len(s4) + 2] = c[2]
      BY <1>2, <1>6, Behind
    <2>2. Len(s4) = 4 /\ Len(s4) + 1 = 5 /\ Len(s4) + 2 = 6
      BY <1>2, <1>6
    <2>3. s6 = s4 \o c
      OBVIOUS
    <2> HIDE DEF s6
    <2> QED
      BY <2>1, <2>2, <2>3
  <1> HIDE DEF s6
  <1>8. /\ s8 \in Seq(Byte) /\ Len(s8) = 8
        /\ \A j \in 1..6 : s8[j] = s6[j]
        /\ s8[7] = d[1] /\ s8[8] = d[2]
    <2>1. /\ s6 \o d \in Seq(Byte) /\ Len(s6 \o d) = Len(s6) + 2
          /\ \A j \in 1..Len(s6) : (s6 \o d)[j] = s6[j]
          /\ (s6 \o d)[Len(s6) + 1] = d[1]
          /\ (s6 \o d)[Len(s6) + 2] = d[2]
      BY <1>3, <1>7, Behind
    <2>2. Len(s6) = 6 /\ Len(s6) + 1 = 7 /\ Len(s6) + 2 = 8
      BY <1>3, <1>7
    <2>3. s8 = s6 \o d
      OBVIOUS
    <2> HIDE DEF s8
    <2> QED
      BY <2>1, <2>2, <2>3
  <1> HIDE DEF s8
  <1>9. /\ s10 \in Seq(Byte) /\ Len(s10) = 10
        /\ \A j \in 1..8 : s10[j] = s8[j]
        /\ s10[9] = e[1] /\ s10[10] = e[2]
    <2>1. /\ s8 \o e \in Seq(Byte) /\ Len(s8 \o e) = Len(s8) + 2
          /\ \A j \in 1..Len(s8) : (s8 \o e)[j] = s8[j]
          /\ (s8 \o e)[Len(s8) + 1] = e[1]
          /\ (s8 \o e)[Len(s8) + 2] = e[2]
      BY <1>2, <1>8, Behind
    <2>2. Len(s8) = 8 /\ Len(s8) + 1 = 9 /\ Len(s8) + 2 = 10
      BY <1>2, <1>8
    <2>3. s10 = s8 \o e
      OBVIOUS
    <2> HIDE DEF s10
    <2> QED
      BY <2>1, <2>2, <2>3
  <1> HIDE DEF s10
  <1>10. /\ s12 \in Seq(Byte) /\ Len(s12) = 12
         /\ \A j \in 1..10 : s12[j] = s10[j]
         /\ s12[11] = f[1] /\ s12[12] = f[2]
    <2>1. /\ s10 \o f \in Seq(Byte) /\ Len(s10 \o f) = Len(s10) + 2
          /\ \A j \in 1..Len(s10) : (s10 \o f)[j] = s10[j]
          /\ (s10 \o f)[Len(s10) + 1] = f[1]
          /\ (s10 \o f)[Len(s10) + 2] = f[2]
      BY <1>2, <1>9, Behind
    <2>2. Len(s10) = 10 /\ Len(s10) + 1 = 11 /\ Len(s10) + 2 = 12
      BY <1>2, <1>9
    <2>3. s12 = s10 \o f
      OBVIOUS
    <2> HIDE DEF s12
    <2> QED
      BY <2>1, <2>2, <2>3
  <1>11. Bytes(q) = s12
    BY <1>5 DEF s4, s6, s8, s10
  <1> HIDE DEF s12
  <1>12. \A j \in 1..4 : s12[j] = s4[j]
    BY <1>7, <1>8, <1>9, <1>10
  <1>13. \A j \in 5..6 : s12[j] = s6[j]
    BY <1>8, <1>9, <1>10
  <1>14. \A j \in 7..8 : s12[j] = s8[j]
    BY <1>9, <1>10
  <1>15. s12[9] = s10[9] /\ s12[10] = s10[10]
    BY <1>10
  <1> QED
    BY <1>4, <1>6, <1>7, <1>8, <1>9, <1>10, <1>11, <1>12, <1>13, <1>14, <1>15

(* What the fields of a request that was sent are. *)
LEMMA SentTyped ==
  ASSUME PeerTyped, Numbered, NEW q \in 1..Len(sent)
  PROVE  /\ sent[q].id \in Words /\ sent[q].function \in Byte /\ sent[q].function # 0
         /\ sent[q].read \in Asked
         /\ sent[q].read[1] \in Words /\ sent[q].read[2] \in Words
         /\ sent[q].read = <<sent[q].read[1], sent[q].read[2]>>
         /\ sent[q].read[1] # 0 /\ sent[q].read[1] \div 256 # 3
  <1>1. sent[q] \in [id : FirstId..(FirstId + MaxSent), function : Functions, read : Asked]
    BY ElementOfSeq DEF PeerTyped
  <1>2. Len(sent) \in Nat
    BY LenProperties DEF PeerTyped
  <1>3. sent[q].id = FirstId + q - 1 /\ Len(sent) <= MaxSent
    BY DEF Numbered
  <1>4. sent[q].id \in Words
    <2>1. \A b, i, m, l \in Nat : \A k \in 1..l : l <= m /\ i + m <= b
                                                    => i + k - 1 \in Nat /\ i + k - 1 < b
      OBVIOUS
    <2>2. /\ FirstId \in Nat /\ MaxSent \in Nat /\ Len(sent) \in Nat /\ Len(sent) <= MaxSent
          /\ FirstId + MaxSent <= WordSize /\ WordSize \in Nat
      BY <1>2, <1>3, SentAssumption, FieldsAssumption, WordsAre
    <2>3. FirstId + q - 1 \in Nat /\ FirstId + q - 1 < WordSize
      BY <2>1, <2>2
    <2> QED
      BY <1>3, <2>3, WordsAre
  <1>5. /\ sent[q].function \in Byte /\ sent[q].function # 0
        /\ sent[q].read \in Asked
    BY <1>1, BytesAre
  <1>6. sent[q].read \in Words \X Words
    BY <1>5, FieldsAssumption
  <1>7. /\ sent[q].read[1] \in Words /\ sent[q].read[2] \in Words
        /\ sent[q].read = <<sent[q].read[1], sent[q].read[2]>>
    BY <1>6
  <1> QED
    BY <1>4, <1>5, <1>7, AddressesAssumption

-----------------------------------------------------------------------------
(* Lengths are numbers. *)
LEMMA Lengths ==
  ASSUME OwnInv
  PROVE  /\ Len(sent) \in Nat /\ Len(stream) \in Nat /\ Len(replies) \in Nat
         /\ Len(stream) <= 12 * Len(sent) /\ Taken \in Nat
         /\ Taken + Len(stream) = 12 * Len(sent)
         /\ DOMAIN sent = 1..Len(sent) /\ DOMAIN stream = 1..Len(stream)
         /\ DOMAIN replies = 1..Len(replies)
  <1>1. /\ Len(sent) \in Nat /\ Len(stream) \in Nat /\ Len(replies) \in Nat
        /\ DOMAIN sent = 1..Len(sent) /\ DOMAIN stream = 1..Len(stream)
        /\ DOMAIN replies = 1..Len(replies)
    BY LenProperties DEF OwnInv, PeerTyped
  <1>2. Len(stream) <= 12 * Len(sent)
    BY DEF OwnInv, StreamIs
  <1> QED
    BY <1>1, <1>2 DEF Taken

(* The first twelve bytes a read returns: o bytes into request k + 1.      *)
LEMMA BufferBytes ==
  ASSUME OwnInv, NEW n \in DOMAIN stream, n >= 12,
         NEW k \in Nat, NEW o \in 0..11, Taken = 12 * k + o
  PROVE  /\ k + 1 \in 1..Len(sent)
         /\ o > 0 => k + 2 \in 1..Len(sent)
         /\ \A i \in 1..12 :
              SubSeq(stream, 1, n)[i] = IF o + i <= 12 THEN Bytes(sent[k + 1])[o + i]
                                        ELSE Bytes(sent[k + 2])[o + i - 12]
  <1>1. /\ Len(sent) \in Nat /\ Len(stream) \in Nat /\ n \in 1..Len(stream) /\ n \in Nat
        /\ 12 * k + o + Len(stream) = 12 * Len(sent)
    BY Lengths
  <1>2. k + 1 \in 1..Len(sent) /\ (o > 0 => k + 2 \in 1..Len(sent))
    BY <1>1
  <1>3. ASSUME NEW i \in 1..12
        PROVE  SubSeq(stream, 1, n)[i] = stream[i]
    <2>1. /\ stream \in Seq(Byte) /\ \A m \in 1..Len(stream) : stream[m] \in Byte
      BY ElementOfSeq DEF OwnInv, PeerTyped
    <2>2. 1 \in Int /\ n \in Int /\ \A m \in 1..n : stream[m] \in Byte
      BY <1>1, <2>1
    <2>3. \A m \in 1..(n - 1 + 1) : SubSeq(stream, 1, n)[m] = stream[1 + m - 1]
      BY <2>2, SubSeqProperties
    <2>4. i \in 1..(n - 1 + 1) /\ 1 + i - 1 = i
      BY <1>1
    <2> QED
      BY <2>3, <2>4
  <1>4. ASSUME NEW i \in 1..12
        PROVE  stream[i] = IF o + i <= 12 THEN Bytes(sent[k + 1])[o + i]
                           ELSE Bytes(sent[k + 2])[o + i - 12]
    <2>1. CASE o + i <= 12
      <3>1. o + i \in 1..12 /\ 12 * ((k + 1) - 1) + (o + i) - Taken = i
            /\ Taken < 12 * ((k + 1) - 1) + (o + i)
        BY <2>1
      <3>2. stream[12 * ((k + 1) - 1) + (o + i) - Taken] = Bytes(sent[k + 1])[o + i]
        BY <1>2, <3>1 DEF OwnInv, StreamIs
      <3> QED
        BY <2>1, <3>1, <3>2
    <2>2. CASE ~(o + i <= 12)
      <3>1. o + i - 12 \in 1..12 /\ 12 * ((k + 2) - 1) + (o + i - 12) - Taken = i
            /\ Taken < 12 * ((k + 2) - 1) + (o + i - 12) /\ o > 0
        BY <2>2
      <3>2. stream[12 * ((k + 2) - 1) + (o + i - 12) - Taken] = Bytes(sent[k + 2])[o + i - 12]
        BY <1>2, <3>1 DEF OwnInv, StreamIs
      <3> QED
        BY <2>2, <3>1, <3>2
    <2> QED
      BY <2>1, <2>2
  <1>5. ASSUME NEW i \in 1..12
        PROVE  SubSeq(stream, 1, n)[i] = IF o + i <= 12 THEN Bytes(sent[k + 1])[o + i]
                                         ELSE Bytes(sent[k + 2])[o + i - 12]
    <2>1. SubSeq(stream, 1, n)[i] = stream[i]
      BY <1>3
    <2>2. stream[i] = IF o + i <= 12 THEN Bytes(sent[k + 1])[o + i]
                      ELSE Bytes(sent[k + 2])[o + i - 12]
      BY <1>4
    <2> QED
      BY <2>1, <2>2
  <1> QED
    BY <1>2, <1>5

(* A number of two bytes is 0 only if both are. *)
LEMMA NumberZero ==
  ASSUME NEW buffer, NEW i, buffer[i] \in Byte, buffer[i + 1] \in Byte, Number(buffer, i) = 0
  PROVE  buffer[i] = 0 /\ buffer[i + 1] = 0
  <1>1. \A x, y \in Nat : 256 * x + y = 0 => x = 0 /\ y = 0
    OBVIOUS
  <1>2. PICK x \in Nat, y \in Nat : x = buffer[i] /\ y = buffer[i + 1]
    BY BytesAre
  <1>3. 256 * x + y = 0
    BY <1>2 DEF Number
  <1>4. x = 0 /\ y = 0
    BY <1>1, <1>3
  <1> QED
    BY <1>2, <1>4

(* ... and gives back the number it was made of. *)
LEMMA TwoBytesBack ==
  \A n \in Words : /\ 256 * (n \div 256) + (n % 256) = n
                   /\ n \div 256 = 0 /\ n % 256 = 0 => n = 0
  <1>1. \A n \in Nat : 256 * (n \div 256) + (n % 256) = n
    OBVIOUS
  <1>2. \A n \in Nat : n \div 256 = 0 /\ n % 256 = 0 => n = 0
    BY <1>1
  <1> QED
    BY <1>1, <1>2, WordsAre

(* Bytes from the middle of a request do not pass for one: wherever the    *)
(* cut is, what stands where protocol and function are expected gives it   *)
(* away.                                                                   *)
LEMMA NeverCut ==
  ASSUME OwnInv, NEW n \in DOMAIN stream, n >= 12,
         NEW k \in Nat, NEW o \in 1..11, Taken = 12 * k + o
  PROVE  ~Supported(SubSeq(stream, 1, n))
  <1> DEFINE buffer == SubSeq(stream, 1, n)
             x == Bytes(sent[k + 1])
             y == Bytes(sent[k + 2])
  <1>1. o \in 0..11 /\ o > 0
    OBVIOUS
  <1>2. /\ k + 1 \in 1..Len(sent) /\ k + 2 \in 1..Len(sent)
        /\ \A i \in 1..12 : buffer[i] = IF o + i <= 12 THEN x[o + i] ELSE y[o + i - 12]
    BY <1>1, BufferBytes
  <1>3. ASSUME NEW q \in 1..Len(sent)
        PROVE  /\ Bytes(sent[q])[3] = 0 /\ Bytes(sent[q])[4] = 0
               /\ Bytes(sent[q])[5] = 0 /\ Bytes(sent[q])[6] = 6 /\ Bytes(sent[q])[7] = 1
               /\ Bytes(sent[q])[8] # 0 /\ Bytes(sent[q])[9] # 3
               /\ Bytes(sent[q])[9] # 0 \/ Bytes(sent[q])[10] # 0
    <2>1. /\ sent[q].id \in Words /\ sent[q].function \in Byte /\ sent[q].function # 0
          /\ sent[q].read[1] \in Words /\ sent[q].read[2] \in Words
          /\ sent[q].read[1] # 0 /\ sent[q].read[1] \div 256 # 3
      BY SentTyped DEF OwnInv
    <2>3. /\ Bytes(sent[q])[3] = 0 /\ Bytes(sent[q])[4] = 0
          /\ Bytes(sent[q])[5] = 0 /\ Bytes(sent[q])[6] = 6
          /\ Bytes(sent[q])[7] = Unit /\ Bytes(sent[q])[8] = sent[q].function
          /\ Bytes(sent[q])[9] = sent[q].read[1] \div 256
          /\ Bytes(sent[q])[10] = sent[q].read[1] % 256
      <3> DEFINE r == sent[q]
      <3> HIDE DEF r
      <3>1. r.id \in Words /\ r.function \in Byte /\ r.read[1] \in Words /\ r.read[2] \in Words
        BY <2>1 DEF r
      <3>2. /\ Bytes(r)[3] = 0 /\ Bytes(r)[4] = 0
            /\ Bytes(r)[5] = 0 /\ Bytes(r)[6] = 6
            /\ Bytes(r)[7] = Unit /\ Bytes(r)[8] = r.function
            /\ Bytes(r)[9] = r.read[1] \div 256
            /\ Bytes(r)[10] = r.read[1] % 256
        BY <3>1, Layout
      <3> QED
        BY <3>2 DEF r
    <2>4. ~(sent[q].read[1] \div 256 = 0 /\ sent[q].read[1] % 256 = 0)
      <3>1. sent[q].read[1] \in Words /\ sent[q].read[1] # 0
        BY <2>1
      <3> QED
        BY <3>1, TwoBytesBack
    <2> QED
      BY <2>1, <2>3, <2>4 DEF Unit
  <1>4. /\ x[4] = 0 /\ x[5] = 0 /\ x[6] = 6 /\ x[7] = 1 /\ x[8] # 0 /\ x[9] # 3
        /\ x[9] # 0 \/ x[10] # 0
        /\ y[3] = 0 /\ y[4] = 0 /\ y[5] = 0 /\ y[6] = 6 /\ y[7] = 1
    BY <1>2, <1>3
  <1>5. \A i \in 1..12 : buffer[i] \in Byte
    <2>1. buffer \in Seq(Byte) /\ Len(buffer) = n
      BY Buffered DEF OwnInv
    <2>2. \A i \in 1..12 : i \in 1..Len(buffer)
      BY <2>1, Lengths
    <2> QED
      BY <2>1, <2>2, ElementOfSeq
  <1>6. ASSUME Number(buffer, 3) = 0, buffer[8] = 3
        PROVE  FALSE
    <2> HIDE DEF buffer, x, y
    <2>1. buffer[3] \in Byte /\ buffer[3 + 1] \in Byte
      BY <1>5
    <2>2. buffer[3] = 0 /\ buffer[3 + 1] = 0
      BY <1>6, <2>1, NumberZero
    <2>3. buffer[3] = 0 /\ buffer[4] = 0 /\ buffer[8] = 3
      BY <1>6, <2>2
    <2>4. /\ buffer[3] = IF o + 3 <= 12 THEN x[o + 3] ELSE y[o + 3 - 12]
          /\ buffer[4] = IF o + 4 <= 12 THEN x[o + 4] ELSE y[o + 4 - 12]
          /\ buffer[8] = IF o + 8 <= 12 THEN x[o + 8] ELSE y[o + 8 - 12]
      BY <1>2
    <2>5. CASE o = 1
      BY <1>4, <2>3, <2>4, <2>5
    <2>6. CASE o = 2
      BY <1>4, <2>3, <2>4, <2>6
    <2>7. CASE o = 3
      BY <1>4, <2>3, <2>4, <2>7
    <2>8. CASE o = 4
      BY <1>4, <2>3, <2>4, <2>8
    <2>9. CASE o = 5
      BY <1>4, <2>3, <2>4, <2>9
    <2>10. CASE o = 6
      BY <1>4, <2>3, <2>4, <2>10
    <2>11. CASE o = 7
      BY <1>4, <2>3, <2>4, <2>11
    <2>12. CASE o = 8
      BY <1>4, <2>3, <2>4, <2>12
    <2>13. CASE o = 9
      BY <1>4, <2>3, <2>4, <2>13
    <2>14. CASE o = 10
      BY <1>4, <2>3, <2>4, <2>14
    <2>15. CASE o = 11
      BY <1>4, <2>3, <2>4, <2>15
    <2> QED
      BY <2>5, <2>6, <2>7, <2>8, <2>9, <2>10, <2>11, <2>12, <2>13, <2>14, <2>15
  <1> QED
    BY <1>6 DEF Supported

(* What begins with a request is read as that request.                     *)
LEMMA Aligned ==
  ASSUME OwnInv, NEW n \in DOMAIN stream, n >= 12, NEW k \in Nat, Taken = 12 * k
  PROVE  /\ k + 1 \in 1..Len(sent)
         /\ Number(SubSeq(stream, 1, n), 1) = sent[k + 1].id
         /\ Wanted(SubSeq(stream, 1, n)) = sent[k + 1].read
         /\ SubSeq(stream, 1, n)[7] = Unit
         /\ Supported(SubSeq(stream, 1, n)) <=> sent[k + 1].function = 3
  <1> DEFINE buffer == SubSeq(stream, 1, n)
             q == sent[k + 1]
  <1>1. Taken = 12 * k + 0 /\ 0 \in 0..11
    OBVIOUS
  <1>2. /\ k + 1 \in 1..Len(sent)
        /\ \A i \in 1..12 : buffer[i] = IF 0 + i <= 12 THEN Bytes(q)[0 + i]
                                        ELSE Bytes(sent[k + 2])[0 + i - 12]
    BY <1>1, BufferBytes
  <1>3. \A i \in 1..12 : buffer[i] = Bytes(q)[i]
    <2>1. \A i \in 1..12 : 0 + i = i /\ 0 + i <= 12
      OBVIOUS
    <2> HIDE DEF buffer, q
    <2>2. ASSUME NEW i \in 1..12 PROVE buffer[i] = Bytes(q)[i]
      <3>1. 0 + i = i /\ 0 + i <= 12
        BY <2>1
      <3>2. buffer[i] = Bytes(q)[0 + i]
        BY <1>2, <3>1
      <3> QED
        BY <3>1, <3>2
    <2> QED
      BY <2>2
  <1>4. /\ q.id \in Words /\ q.function \in Byte
        /\ q.read[1] \in Words /\ q.read[2] \in Words
        /\ q.read = <<q.read[1], q.read[2]>>
    BY <1>2, SentTyped DEF OwnInv
  <1> HIDE DEF buffer, q
  <1>6. /\ Bytes(q)[1] = q.id \div 256 /\ Bytes(q)[2] = q.id % 256
        /\ Bytes(q)[3] = 0 /\ Bytes(q)[4] = 0
        /\ Bytes(q)[7] = Unit /\ Bytes(q)[8] = q.function
        /\ Bytes(q)[9] = q.read[1] \div 256 /\ Bytes(q)[10] = q.read[1] % 256
        /\ Bytes(q)[11] = q.read[2] \div 256 /\ Bytes(q)[12] = q.read[2] % 256
    BY <1>4, Layout
  <1>7. /\ buffer[1] = q.id \div 256 /\ buffer[1 + 1] = q.id % 256
        /\ buffer[3] = 0 /\ buffer[3 + 1] = 0 /\ buffer[7] = Unit /\ buffer[8] = q.function
        /\ buffer[9] = q.read[1] \div 256 /\ buffer[9 + 1] = q.read[1] % 256
        /\ buffer[11] = q.read[2] \div 256 /\ buffer[11 + 1] = q.read[2] % 256
    BY <1>3, <1>6
  <1>8. /\ Number(buffer, 1) = 256 * (q.id \div 256) + (q.id % 256)
        /\ Number(buffer, 9) = 256 * (q.read[1] \div 256) + (q.read[1] % 256)
        /\ Number(buffer, 11) = 256 * (q.read[2] \div 256) + (q.read[2] % 256)
        /\ Number(buffer, 3) = 256 * 0 + 0
    <2>1. Number(buffer, 1) = 256 * (q.id \div 256) + (q.id % 256)
      BY <1>7 DEF Number
    <2>2. Number(buffer, 9) = 256 * (q.read[1] \div 256) + (q.read[1] % 256)
      BY <1>7 DEF Number
    <2>3. Number(buffer, 11) = 256 * (q.read[2] \div 256) + (q.read[2] % 256)
      BY <1>7 DEF Number
    <2>4. Number(buffer, 3) = 256 * 0 + 0
      BY <1>7 DEF Number
    <2> QED
      BY <2>1, <2>2, <2>3, <2>4
  <1>9. Number(buffer, 1) = q.id /\ Number(buffer, 9) = q.read[1] /\ Number(buffer, 11) = q.read[2]
    BY <1>4, <1>8, TwoBytesBack
  <1>10. Wanted(buffer) = q.read
    BY <1>4, <1>9 DEF Wanted
  <1>11. Supported(buffer) <=> q.function = 3
    BY <1>7, <1>8 DEF Supported
  <1> QED
    BY <1>2, <1>7, <1>9, <1>10, <1>11 DEF buffer, q

-----------------------------------------------------------------------------
(* A request that is sent comes behind what is under way. *)
LEMMA SendOwn ==
  ASSUME OwnInv, NEW read \in Asked, NEW function \in Functions, Send(read, function)
  PROVE  OwnInv'
  <1> DEFINE q == [id |-> FirstId + Len(sent), function |-> function, read |-> read]
             L == Len(sent)
  <1>1. PeerTyped'
    BY SendKeeps DEF OwnInv
  <1>2. /\ sent' = Append(sent, q) /\ stream' = stream \o Bytes(q) /\ L < MaxSent
        /\ replies' = replies /\ smooth' = smooth
    BY DEF Send
  <1>3. /\ L \in Nat /\ Len(stream) \in Nat /\ Taken \in Nat /\ Taken + Len(stream) = 12 * L
        /\ FirstId \in Nat /\ MaxSent \in Nat
    BY Lengths, SentAssumption
  <1>4. q.id \in Words /\ q.function \in Byte /\ q.read[1] \in Words /\ q.read[2] \in Words
    <2>1. FirstId + L \in Words
      <3>1. \A b, f, m, l \in Nat : l < m /\ f + m <= b => f + l \in Nat /\ f + l < b
        OBVIOUS
      <3>2. FirstId + MaxSent <= WordSize /\ WordSize \in Nat
        BY FieldsAssumption, WordsAre
      <3>3. FirstId + L \in Nat /\ FirstId + L < WordSize
        BY <1>2, <1>3, <3>1, <3>2
      <3> QED
        BY <3>3, WordsAre
    <2>2. function \in Byte
      BY BytesAre
    <2>3. read \in Words \X Words
      BY FieldsAssumption
    <2> QED
      BY <2>1, <2>2, <2>3
  <1>5. Bytes(q) \in Seq(Byte) /\ Len(Bytes(q)) = 12
    <2> HIDE DEF q
    <2> QED
      BY <1>4, Layout
  <1>6. q.id = FirstId + L
    OBVIOUS
  <1>7. /\ Len(sent') = L + 1 /\ sent'[L + 1] = q
        /\ \A p \in 1..L : sent'[p] = sent[p]
    <2>1. q \in [id : FirstId..(FirstId + MaxSent), function : Functions, read : Asked]
      BY <1>2, <1>3
    <2> HIDE DEF q
    <2> QED
      BY <1>2, <2>1, AppendProperties DEF OwnInv, PeerTyped
  <1> HIDE DEF q, L
  <1>8. /\ Len(stream') = Len(stream) + 12
        /\ \A i \in 1..Len(stream) : stream'[i] = stream[i]
        /\ \A j \in 1..12 : stream'[Len(stream) + j] = Bytes(q)[j]
    <2>1. /\ Len(stream \o Bytes(q)) = Len(stream) + Len(Bytes(q))
          /\ \A i \in 1..(Len(stream) + Len(Bytes(q))) :
               (stream \o Bytes(q))[i] = IF i <= Len(stream) THEN stream[i]
                                         ELSE Bytes(q)[i - Len(stream)]
      <3>1. stream \in Seq(Byte)
        BY DEF OwnInv, PeerTyped
      <3> QED
        BY <1>5, <3>1, ConcatProperties
    <2>2. ASSUME NEW i \in 1..Len(stream) PROVE stream'[i] = stream[i]
      <3>1. i \in 1..(Len(stream) + Len(Bytes(q))) /\ i <= Len(stream)
        BY <1>3, <1>5
      <3> QED
        BY <1>2, <2>1, <3>1
    <2>3. ASSUME NEW j \in 1..12 PROVE stream'[Len(stream) + j] = Bytes(q)[j]
      <3>1. /\ Len(stream) + j \in 1..(Len(stream) + Len(Bytes(q)))
            /\ ~(Len(stream) + j <= Len(stream)) /\ Len(stream) + j - Len(stream) = j
        BY <1>3, <1>5
      <3> QED
        BY <1>2, <2>1, <3>1
    <2> QED
      BY <1>2, <1>5, <2>1, <2>2, <2>3
  <1>9. Taken' = Taken
    <2>1. Taken' = 12 * Len(sent') - Len(stream')
      BY DEF Taken
    <2>2. Len(sent') = L + 1 /\ Len(stream') = Len(stream) + 12
      BY <1>7, <1>8
    <2> QED
      BY <1>3, <2>1, <2>2
  <1>10. StreamIs'
    <2>1. Len(stream') <= 12 * Len(sent')
      BY <1>3, <1>7, <1>8
    <2>2. ASSUME NEW p \in 1..(L + 1), NEW j \in 1..12, Taken < 12 * (p - 1) + j
          PROVE  stream'[12 * (p - 1) + j - Taken] = Bytes(sent'[p])[j]
      <3>1. CASE p = L + 1
        <4>1. 12 * (p - 1) + j - Taken = Len(stream) + j
          BY <1>3, <3>1
        <4> QED
          BY <1>7, <1>8, <3>1, <4>1
      <3>2. CASE p # L + 1
        <4>1. p \in 1..L /\ 12 * (p - 1) + j - Taken \in 1..Len(stream)
          BY <1>3, <2>2, <3>2
        <4>2. stream[12 * (p - 1) + j - Taken] = Bytes(sent[p])[j]
          BY <2>2, <4>1 DEF OwnInv, StreamIs, L
        <4> QED
          BY <1>7, <1>8, <4>1, <4>2
      <3> QED
        BY <3>1, <3>2
    <2>3. \A p \in 1..Len(sent'), j \in 1..12 : Taken' < 12 * (p - 1) + j =>
            stream'[12 * (p - 1) + j - Taken'] = Bytes(sent'[p])[j]
      BY <1>7, <1>9, <2>2
    <2> QED
      BY <2>1, <2>3 DEF StreamIs, Bytes, TwoBytes
  <1>11. Numbered'
    <2>1. Len(sent') <= MaxSent
      BY <1>2, <1>3, <1>7
    <2>2. ASSUME NEW p \in 1..(L + 1) PROVE sent'[p].id = FirstId + p - 1
      <3>1. CASE p = L + 1
        BY <1>3, <1>6, <1>7, <3>1
      <3>2. CASE p # L + 1
        <4>1. p \in 1..L
          BY <1>3, <3>2
        <4> QED
          BY <1>7, <4>1 DEF OwnInv, Numbered, L
      <3> QED
        BY <3>1, <3>2
    <2> QED
      BY <1>7, <2>1, <2>2 DEF Numbered
  <1>12. RepliesOwn' /\ RepliesInOrder'
    <2>1. ASSUME NEW p \in 1..Len(replies)
          PROVE  \E r \in 1..Len(sent') :
                   /\ 12 * r <= Taken
                   /\ sent'[r].id = replies[p].id /\ sent'[r].read = replies[p].read
                   /\ sent'[r].function = 3 /\ replies[p].unit = Unit
      <3>1. PICK r \in 1..L :
              /\ 12 * r <= Taken
              /\ sent[r].id = replies[p].id /\ sent[r].read = replies[p].read
              /\ sent[r].function = 3 /\ replies[p].unit = Unit
        BY DEF OwnInv, RepliesOwn, L
      <3>2. r \in 1..Len(sent') /\ sent'[r] = sent[r]
        BY <1>3, <1>7
      <3> QED
        BY <3>1, <3>2
    <2>2. RepliesOwn'
      BY <1>2, <1>9, <2>1 DEF RepliesOwn, Unit
    <2>3. RepliesInOrder'
      BY <1>2 DEF OwnInv, RepliesInOrder
    <2> QED
      BY <2>2, <2>3
  <1>13. AllSoFar'
    <2> SUFFICES ASSUME smooth
                 PROVE  /\ \E k \in 0..Len(sent') : Taken = 12 * k
                        /\ \A r \in 1..Len(sent') : 12 * r <= Taken /\ sent'[r].function = 3 =>
                             \E p \in 1..Len(replies) : replies[p].id = sent'[r].id
      BY <1>2, <1>9 DEF AllSoFar
    <2>1. \E k \in 0..L : Taken = 12 * k
      BY DEF OwnInv, AllSoFar, L
    <2>2. \E k \in 0..Len(sent') : Taken = 12 * k
      BY <1>3, <1>7, <2>1
    <2>3. ASSUME NEW r \in 1..Len(sent'), 12 * r <= Taken, sent'[r].function = 3
          PROVE  \E p \in 1..Len(replies) : replies[p].id = sent'[r].id
      <3>1. r \in 1..L
        BY <1>3, <1>7, <2>3
      <3>2. sent'[r] = sent[r]
        BY <1>7, <3>1
      <3> QED
        BY <2>3, <3>1, <3>2 DEF OwnInv, AllSoFar, L
    <2> QED
      BY <2>2, <2>3
  <1> QED
    BY <1>1, <1>10, <1>11, <1>12, <1>13 DEF OwnInv

(* A read takes bytes from the front, and answers one request at most.     *)
LEMMA ReadOwn ==
  ASSUME OwnInv, Looked, NEW n \in DOMAIN stream, Read(n)
  PROVE  OwnInv'
  <1> DEFINE buffer == SubSeq(stream, 1, n)
             k == Taken \div 12
             o == Taken % 12
             L == Len(sent)
             R == Len(replies)
  <1>1. PeerTyped'
    BY ReadKeeps DEF OwnInv
  <1>2. /\ L \in Nat /\ Len(stream) \in Nat /\ R \in Nat /\ Taken \in Nat
        /\ Taken + Len(stream) = 12 * L /\ n \in 1..Len(stream)
    BY Lengths
  <1>3. /\ sent' = sent /\ stream' = SubSeq(stream, n + 1, Len(stream))
        /\ \/ Handle(buffer) /\ smooth' = (smooth /\ n = 12)
           \/ HandleFails(buffer) /\ smooth' = FALSE
    BY DEF Read
  <1>4. /\ Len(stream') = Len(stream) - n
        /\ \A i \in 1..(Len(stream) - n) : stream'[i] = stream[n + i]
    <2>1. /\ n + 1 \in Int /\ Len(stream) \in Int
          /\ \A i \in (n + 1)..Len(stream) : stream[i] \in Byte
      <3>1. \A i \in 1..Len(stream) : stream[i] \in Byte
        BY ElementOfSeq DEF OwnInv, PeerTyped
      <3>2. \A i \in (n + 1)..Len(stream) : i \in 1..Len(stream)
        BY <1>2
      <3> QED
        BY <1>2, <3>1, <3>2
    <2>2. /\ Len(stream') = IF n + 1 <= Len(stream) THEN Len(stream) - (n + 1) + 1 ELSE 0
          /\ \A i \in 1..(Len(stream) - (n + 1) + 1) : stream'[i] = stream[n + 1 + i - 1]
      BY <1>3, <2>1, SubSeqProperties
    <2>3. /\ Len(stream) - (n + 1) + 1 = Len(stream) - n
          /\ \A i \in 1..(Len(stream) - n) : n + 1 + i - 1 = n + i
          /\ ~(n + 1 <= Len(stream)) => Len(stream) - n = 0
      BY <1>2
    <2> QED
      BY <2>2, <2>3
  <1>5. Taken' = Taken + n
    <2>1. Taken' = 12 * Len(sent') - Len(stream')
      BY DEF Taken
    <2>2. Len(sent') = L /\ Len(stream') = Len(stream) - n
      BY <1>3, <1>4
    <2> QED
      BY <1>2, <2>1, <2>2
  <1>6. StreamIs'
    <2>1. Len(stream') <= 12 * Len(sent')
      <3>1. Len(sent') = L /\ Len(stream') = Len(stream) - n
        BY <1>3, <1>4
      <3> QED
        BY <1>2, <3>1
    <2>2. ASSUME NEW p \in 1..L, NEW j \in 1..12, Taken + n < 12 * (p - 1) + j
          PROVE  stream'[12 * (p - 1) + j - (Taken + n)] = Bytes(sent[p])[j]
      <3>1. /\ 12 * (p - 1) + j - (Taken + n) \in 1..(Len(stream) - n)
            /\ n + (12 * (p - 1) + j - (Taken + n)) = 12 * (p - 1) + j - Taken
            /\ Taken < 12 * (p - 1) + j
        <4>1. /\ Taken \in Nat /\ Len(stream) \in Nat /\ L \in Nat
              /\ n \in 1..Len(stream) /\ Taken + Len(stream) = 12 * L
          BY <1>2
        <4> DEFINE place == 12 * (p - 1) + j
        <4>2. place \in Int /\ place <= 12 * L
          BY <4>1
        <4>3. Taken + n < place
          BY <2>2
        <4> HIDE DEF place, k, o, buffer, L, R
        <4>4. /\ place - (Taken + n) \in 1..(Len(stream) - n)
              /\ n + (place - (Taken + n)) = place - Taken /\ Taken < place
          BY <4>1, <4>2, <4>3
        <4>5. 12 * (p - 1) \in Int /\ j \in Int /\ Taken + n \in Int
          BY <4>1
        <4>6. \A a, b, c \in Int : a + (b - c) = (a + b) - c
          OBVIOUS
        <4>7. 12 * (p - 1) + j - (Taken + n) = place - (Taken + n)
          BY <4>5, <4>6 DEF place
        <4>8. 12 * (p - 1) + j - Taken = place - Taken
          BY <4>1, <4>5, <4>6 DEF place
        <4> QED
          BY <4>4, <4>7, <4>8 DEF place
      <3>2. stream[12 * (p - 1) + j - Taken] = Bytes(sent[p])[j]
        BY <3>1 DEF OwnInv, StreamIs
      <3>3. stream'[12 * (p - 1) + j - (Taken + n)] = stream[n + (12 * (p - 1) + j - (Taken + n))]
        BY <1>4, <3>1
      <3> QED
        BY <3>1, <3>2, <3>3
    <2>3. \A p \in 1..Len(sent'), j \in 1..12 : Taken' < 12 * (p - 1) + j =>
            stream'[12 * (p - 1) + j - Taken'] = Bytes(sent'[p])[j]
      BY <1>3, <1>5, <2>2
    <2> QED
      BY <2>1, <2>3 DEF StreamIs, Bytes, TwoBytes
  <1>7. Numbered'
    BY <1>3 DEF OwnInv, Numbered
  <1>8. /\ k \in Nat /\ o \in 0..11 /\ Taken = 12 * k + o
    BY <1>2
  <1> HIDE DEF k, o, buffer, L, R
  <1>9. n \in Nat /\ Len(buffer) = n
    BY Buffered DEF OwnInv, buffer
  (* If the server answers, then a request that begins where it reads.     *)
  <1>10. ASSUME Whole(buffer), Supported(buffer)
         PROVE  /\ o = 0 /\ n >= 12 /\ k + 1 \in 1..L /\ Taken = 12 * k
                /\ \A found : LET reply == Reply(buffer, found)
                              IN  /\ reply.id = sent[k + 1].id /\ reply.read = sent[k + 1].read
                                  /\ sent[k + 1].function = 3 /\ reply.unit = Unit
    <2>1. n >= 12
      BY <1>9, <1>10 DEF Whole
    <2>2. o = 0
      <3>1. o # 0 => o \in 1..11
        BY <1>8
      <3> QED
        BY <1>8, <1>10, <2>1, <3>1, NeverCut DEF buffer
    <2>3. Taken = 12 * k
      BY <1>8, <2>2
    <2>4. /\ k + 1 \in 1..L
          /\ Number(buffer, 1) = sent[k + 1].id
          /\ Wanted(buffer) = sent[k + 1].read
          /\ buffer[7] = Unit
          /\ Supported(buffer) <=> sent[k + 1].function = 3
      BY <1>8, <2>1, <2>3, Aligned DEF buffer, L
    <2> QED
      BY <1>10, <2>1, <2>2, <2>3, <2>4 DEF Reply
  <1>11. ASSUME NEW p \in 1..R
         PROVE  \E q \in 1..L :
                  /\ 12 * q <= Taken /\ 12 * q <= Taken + n
                  /\ sent[q].id = replies[p].id /\ sent[q].read = replies[p].read
                  /\ sent[q].function = 3 /\ replies[p].unit = Unit
    <2>1. PICK q \in 1..L :
            /\ 12 * q <= Taken
            /\ sent[q].id = replies[p].id /\ sent[q].read = replies[p].read
            /\ sent[q].function = 3 /\ replies[p].unit = Unit
      BY DEF OwnInv, RepliesOwn, L, R
    <2>2. 12 * q <= Taken + n
      BY <1>2, <1>9, <2>1
    <2> QED
      BY <2>1, <2>2
  <1>12. /\ Len(replies') \in {R, R + 1}
         /\ \A p \in 1..R : replies'[p] = replies[p]
         /\ Len(replies') = R + 1 =>
              Whole(buffer) /\ Supported(buffer) /\ \E found : replies'[R + 1] = Reply(buffer, found)
         /\ Handle(buffer) /\ Whole(buffer) /\ Supported(buffer) => Len(replies') = R + 1
    <2>1. ASSUME Whole(buffer), Supported(buffer), NEW found, replies' = Append(replies, Reply(buffer, found))
          PROVE  /\ Len(replies') = R + 1
                 /\ \A p \in 1..R : replies'[p] = replies[p]
                 /\ replies'[R + 1] = Reply(buffer, found)
      <3>1. Reply(buffer, found) \in [id : Nat, unit : Byte, exception : BOOLEAN, read : Nat \X Nat]
        BY <2>1, Buffered, Numbers DEF OwnInv, buffer
      <3>2. replies \in Seq([id : Nat, unit : Byte, exception : BOOLEAN, read : Nat \X Nat])
        BY DEF OwnInv, PeerTyped
      <3> QED
        BY <2>1, <3>1, <3>2, AppendProperties DEF R
    <2>2. CASE replies' = replies /\ ~(Handle(buffer) /\ Whole(buffer) /\ Supported(buffer))
      BY <1>2, <2>2 DEF R
    <2>3. CASE Handle(buffer) /\ Whole(buffer) /\ Supported(buffer)
      <3>1. replies' = Append(replies, Reply(buffer, raw'))
        BY <2>3 DEF Handle
      <3> QED
        BY <2>1, <2>3, <3>1
    <2>4. CASE HandleFails(buffer) /\ replies' # replies
      <3>1. Whole(buffer) /\ Supported(buffer) /\ replies' = Append(replies, Reply(buffer, None))
        BY <2>4 DEF HandleFails
      <3> QED
        BY <2>1, <3>1
    <2>5. Handle(buffer) /\ ~(Whole(buffer) /\ Supported(buffer)) => replies' = replies
      BY DEF Handle
    <2> QED
      BY <1>3, <2>2, <2>3, <2>4, <2>5
  <1>13. ASSUME Len(replies') = R + 1
         PROVE  /\ k + 1 \in 1..L /\ 12 * (k + 1) <= Taken + n /\ Taken = 12 * k
                /\ sent[k + 1].id = replies'[R + 1].id /\ sent[k + 1].read = replies'[R + 1].read
                /\ sent[k + 1].function = 3 /\ replies'[R + 1].unit = Unit
    <2>1. PICK found : replies'[R + 1] = Reply(buffer, found) /\ Whole(buffer) /\ Supported(buffer)
      BY <1>12, <1>13
    <2>2. n >= 12 /\ k + 1 \in 1..L /\ Taken = 12 * k
      BY <1>10, <2>1
    <2>3. 12 * (k + 1) <= Taken + n
      BY <1>8, <1>9, <2>2
    <2>4. /\ Reply(buffer, found).id = sent[k + 1].id /\ Reply(buffer, found).read = sent[k + 1].read
          /\ sent[k + 1].function = 3 /\ Reply(buffer, found).unit = Unit
      BY <1>10, <2>1
    <2> QED
      BY <2>1, <2>2, <2>3, <2>4
  <1>14. RepliesOwn'
    <2>1. ASSUME NEW p \in 1..Len(replies')
          PROVE  \E q \in 1..L :
                   /\ 12 * q <= Taken + n
                   /\ sent[q].id = replies'[p].id /\ sent[q].read = replies'[p].read
                   /\ sent[q].function = 3 /\ replies'[p].unit = Unit
      <3>1. CASE p \in 1..R
        <4>1. replies'[p] = replies[p]
          BY <1>12, <3>1
        <4> QED
          BY <1>11, <3>1, <4>1
      <3>2. CASE p \notin 1..R
        <4>1. p = R + 1 /\ Len(replies') = R + 1
          BY <1>2, <1>12, <3>2
        <4> QED
          BY <1>13, <4>1
      <3> QED
        BY <3>1, <3>2
    <2> QED
      BY <1>3, <1>5, <2>1 DEF RepliesOwn, Unit, L
  <1>15. RepliesInOrder'
    <2>1. ASSUME NEW p \in 1..Len(replies'), p > 1
          PROVE  replies'[p - 1].id < replies'[p].id
      <3>1. CASE p \in 1..R
        <4>1. p - 1 \in 1..R
          BY <1>2, <2>1, <3>1
        <4>2. replies'[p] = replies[p] /\ replies'[p - 1] = replies[p - 1]
          BY <1>12, <3>1, <4>1
        <4> QED
          BY <2>1, <3>1, <4>2 DEF OwnInv, RepliesInOrder, R
      <3>2. CASE p \notin 1..R
        <4>1. p = R + 1 /\ Len(replies') = R + 1 /\ p - 1 = R /\ R \in 1..R
          BY <1>2, <1>12, <2>1, <3>2
        <4>2. k + 1 \in 1..L /\ Taken = 12 * k /\ sent[k + 1].id = replies'[p].id
          BY <1>13, <4>1
        <4>3. PICK q \in 1..L : 12 * q <= Taken /\ sent[q].id = replies[R].id
          BY <1>11, <4>1
        <4>4. sent[q].id = FirstId + q - 1 /\ sent[k + 1].id = FirstId + (k + 1) - 1
          BY <4>2 DEF OwnInv, Numbered, L
        <4>5. replies'[p - 1] = replies[R]
          BY <1>12, <4>1
        <4>6. FirstId + q - 1 < FirstId + (k + 1) - 1
          <5>1. FirstId \in Nat /\ q \in Nat
            BY <1>2, SentAssumption DEF L
          <5>2. q <= k
            BY <1>8, <4>2, <4>3, <5>1
          <5> QED
            BY <1>8, <5>1, <5>2
        <4> QED
          BY <4>2, <4>3, <4>4, <4>5, <4>6
      <3> QED
        BY <3>1, <3>2
    <2> QED
      BY <2>1 DEF RepliesInOrder
  <1>16. AllSoFar'
    <2> SUFFICES ASSUME smooth'
                 PROVE  /\ \E m \in 0..L : Taken + n = 12 * m
                        /\ \A q \in 1..L : 12 * q <= Taken + n /\ sent[q].function = 3 =>
                             \E p \in 1..Len(replies') : replies'[p].id = sent[q].id
      BY <1>3, <1>5 DEF AllSoFar, L
    <2>1. smooth /\ n = 12 /\ Handle(buffer)
      BY <1>3
    <2>2. PICK m \in 0..L : Taken = 12 * m
      BY <2>1 DEF OwnInv, AllSoFar, L
    <2>3. m = k /\ Taken = 12 * k
      BY <1>2, <1>8, <2>2
    <2>4. k + 1 \in 0..L /\ Taken + n = 12 * (k + 1)
      BY <1>2, <1>8, <2>1, <2>3
    <2>5. ASSUME NEW q \in 1..L, 12 * q <= Taken + n, sent[q].function = 3
          PROVE  \E p \in 1..Len(replies') : replies'[p].id = sent[q].id
      <3>1. CASE 12 * q <= Taken
        <4>1. PICK p \in 1..R : replies[p].id = sent[q].id
          BY <2>1, <2>5, <3>1 DEF OwnInv, AllSoFar, L, R
        <4>2. p \in 1..Len(replies') /\ replies'[p] = replies[p]
          BY <1>2, <1>12
        <4> QED
          BY <4>1, <4>2
      <3>2. CASE ~(12 * q <= Taken)
        <4>1. q = k + 1
          <5>1. \A a, c \in Nat : 12 * a <= 12 * c + 12 /\ ~(12 * a <= 12 * c) => a = c + 1
            OBVIOUS
          <5>2. q \in Nat /\ k \in Nat
            BY <1>2, <1>8 DEF L
          <5>3. 12 * q <= 12 * k + 12
            BY <2>1, <2>3, <2>5
          <5>4. ~(12 * q <= 12 * k)
            BY <2>3, <3>2
          <5> QED
            BY <5>1, <5>2, <5>3, <5>4
        <4>2. Whole(buffer)
          BY <1>9, <2>1 DEF Whole
        <4>3. Supported(buffer)
          <5>1. n >= 12
            BY <2>1
          <5> QED
            BY <1>8, <2>3, <2>5, <4>1, <5>1, Aligned DEF buffer
        <4>4. Len(replies') = R + 1
          BY <1>12, <2>1, <4>2, <4>3
        <4>5. sent[k + 1].id = replies'[R + 1].id /\ R + 1 \in 1..Len(replies')
          BY <1>2, <1>13, <4>4
        <4> QED
          BY <4>1, <4>5
      <3> QED
        BY <3>1, <3>2
    <2> QED
      BY <2>4, <2>5
  <1> QED
    BY <1>1, <1>6, <1>7, <1>14, <1>15, <1>16 DEF OwnInv

(* At the start nothing has been sent, read or answered. *)
LEMMA InitOwn == ReadersInit => OwnInv
  <1> SUFFICES ASSUME ReadersInit PROVE OwnInv
    OBVIOUS
  <1>1. sent = <<>> /\ stream = <<>> /\ replies = <<>> /\ smooth = TRUE
    BY DEF ReadersInit, ServerInit
  <1>2. Len(sent) = 0 /\ Len(stream) = 0 /\ Len(replies) = 0
    BY <1>1
  <1>3. PeerTyped
    BY <1>1, InitIInv, Parts
  <1>4. Taken = 0
    BY <1>2 DEF Taken
  <1>5. StreamIs
    BY <1>2, <1>4 DEF StreamIs
  <1>6. Numbered
    BY <1>2, SentAssumption DEF Numbered
  <1>7. RepliesOwn /\ RepliesInOrder
    BY <1>2 DEF RepliesOwn, RepliesInOrder
  <1>8. AllSoFar
    <2>1. 0 \in 0..Len(sent) /\ Taken = 12 * 0
      BY <1>2, <1>4
    <2>2. \A q \in 1..Len(sent) : FALSE
      BY <1>2
    <2> QED
      BY <2>1, <2>2 DEF AllSoFar
  <1> QED
    BY <1>3, <1>5, <1>6, <1>7, <1>8 DEF OwnInv

(* Converters, the poller and /info leave the connection alone. *)
LEMMA KeptOwn == ASSUME OwnInv, UNCHANGED peerVars PROVE OwnInv'
  <1>1. sent' = sent /\ stream' = stream /\ replies' = replies /\ smooth' = smooth
    BY DEF peerVars
  <1>2. Taken' = Taken
    BY <1>1 DEF Taken
  <1>3. PeerTyped'
    BY PeerKept DEF OwnInv
  <1>4. StreamIs' /\ Numbered' /\ RepliesInOrder'
    BY <1>1, <1>2 DEF OwnInv, StreamIs, Numbered, RepliesInOrder
  <1>5. RepliesOwn' /\ AllSoFar'
    BY <1>1, <1>2 DEF OwnInv, RepliesOwn, AllSoFar
  <1> QED
    BY <1>3, <1>4, <1>5 DEF OwnInv

(* Every step, by what it touches. *)
LEMMA NextOwn == IInv /\ OwnInv /\ [ReadersNext]_allVars => OwnInv'
  <1> SUFFICES ASSUME IInv, OwnInv, [ReadersNext]_allVars PROVE OwnInv'
    OBVIOUS
  <1>1. CASE UNCHANGED peerVars
    BY <1>1, KeptOwn
  <1>2. CASE ServingOne
    <2>1. Looked
      BY Parts
    <2>2. ASSUME NEW read \in Asked, NEW function \in Functions, Send(read, function)
          PROVE  OwnInv'
      BY <2>2, SendOwn
    <2>3. ASSUME NEW n \in DOMAIN stream, Read(n)
          PROVE  OwnInv'
      BY <2>1, <2>3, ReadOwn
    <2> QED
      BY <1>2, <2>2, <2>3 DEF ServingOne, Serving
  <1>3. Filling \/ Converting \/ InformingOne \/ UNCHANGED allVars => UNCHANGED peerVars
    BY DEF Filling, Converting, InformingOne, allVars
  <1> QED
    BY <1>1, <1>2, <1>3 DEF ReadersNext

(* The connection's invariant, on top of what holds of all readers. *)
LEMMA AlwaysOwn == ReadersSpec => []OwnInv
  <1> QED
    BY Inductive, InitOwn, NextOwn, PTL DEF ReadersSpec

-----------------------------------------------------------------------------
(* However TCP cuts and joins the requests, and however many there are, a  *)
(* reply is to a request that was sent, about its registers, and replies   *)
(* come in their order, none twice: no bytes from the middle of requests   *)
(* are taken for one (modbus_tcp_server.c:68-88).                          *)
THEOREM AnswersAreOwn == ReadersSpec => []AnswersOwn
  <1>1. ASSUME OwnInv PROVE AnswersOwn
    <2>1. DOMAIN replies = 1..Len(replies) /\ DOMAIN sent = 1..Len(sent)
      BY <1>1 DEF OwnInv, PeerTyped
    <2>2. RepliesOwn /\ RepliesInOrder
      BY <1>1 DEF OwnInv
    <2>3. \A p \in DOMAIN replies : \E q \in DOMAIN sent :
            /\ sent[q].id = replies[p].id /\ sent[q].read = replies[p].read
            /\ sent[q].function = 3 /\ replies[p].unit = Unit
      BY <2>1, <2>2 DEF RepliesOwn
    <2>4. \A p \in DOMAIN replies : p > 1 => replies[p - 1].id < replies[p].id
      BY <2>1, <2>2 DEF RepliesInOrder
    <2> QED
      BY <2>3, <2>4 DEF AnswersOwn
  <1> QED
    BY <1>1, AlwaysOwn, PTL

(* A peer whose requests the server reads one at a time is answered each   *)
(* of those it supports (modbus_tcp_server.c:70-129).                      *)
THEOREM AllAreAnswered == ReadersSpec => []AnswersAll
  <1>1. ASSUME OwnInv PROVE AnswersAll
    <2> SUFFICES ASSUME smooth, stream = <<>>,
                        NEW q \in DOMAIN sent, sent[q].function = 3
                 PROVE  \E p \in DOMAIN replies : replies[p].id = sent[q].id
      BY DEF AnswersAll
    <2>1. DOMAIN replies = 1..Len(replies) /\ DOMAIN sent = 1..Len(sent)
      BY <1>1 DEF OwnInv, PeerTyped
    <2>2. Len(stream) = 0 /\ Len(sent) \in Nat
      BY <1>1, Lengths
    <2>3. 12 * q <= Taken
      <3>1. Taken = 12 * Len(sent)
        BY <2>2 DEF Taken
      <3>2. \A a, c \in Nat : a <= c => 12 * a <= 12 * c
        OBVIOUS
      <3> QED
        BY <2>1, <2>2, <3>1, <3>2
    <2>4. AllSoFar
      BY <1>1 DEF OwnInv
    <2> QED
      BY <2>1, <2>3, <2>4 DEF AllSoFar
  <1> QED
    BY <1>1, AlwaysOwn, PTL

=============================================================================
