---------------------------- MODULE SnapshotProofs ----------------------------
(***************************************************************************)
(* What a snapshot of all devices holds, for every course of the day, all  *)
(* failures of polls and every point at which devices are started and      *)
(* stopped.                                                                *)
(***************************************************************************)
EXTENDS Snapshot, FiniteSetTheorems, SequenceTheorems, TLAPS

(* The thread of the inverter is stopped first, and between two cycles;    *)
(* nothing is stopped before all devices are started.                      *)
StoppedFirst ==
  \A k \in ToSet(Devices) : client[k] = "gone" => Started /\ ~Alive("HUAWEI")
CycleHeld == next > 1 => Alive("HUAWEI")

(* A snapshot for the log is taken between the last block of a cycle and   *)
(* the next cycle.                                                         *)
Taken ==
  /\ by = "log" => CycleDone
  /\ got.ready => Started
  /\ by = Nobody => got = Fresh

BlindLost == got.ready => \A k \in got.blind : client[k] \in {"failed", "gone"}

(* A look-up for the log finds the compared blocks as they still are.      *)
OneCycle == by = "log" /\ got.ready => \A b \in Compared : got.origin[b] \in {Unread, Found(b)}

(* From the look-up of its register on, a status byte holds it.            *)
BytesSoFar ==
  "NRGKICK" \notin got.blind =>
    \A n \in 1..got.at :
      LET r == Plan[n].register
      IN  /\ r \in DOMAIN StatusByte => got.status[StatusByte[r]] \in {Zeroed, <<r, "low">>}
          /\ r = 257 => got.status[MaxCurrent] \in {Zeroed, <<257, "high">>}

IInv ==
  TypeOK /\ StoppedFirst /\ CycleHeld /\ Taken /\ BlindLost /\ OneCycle /\ BytesSoFar

-----------------------------------------------------------------------------
(* The devices, the inverter first, with its eight blocks. *)
LEMMA Started3 ==
  /\ ToSet(Devices) = {"HUAWEI", "NRGKICK", "CAN_EZ3"}
  /\ "HUAWEI" \notin Earlier("HUAWEI")
  /\ \A k \in ToSet(Devices) : k # "HUAWEI" => "HUAWEI" \in Earlier(k)
  /\ Len(Table.HUAWEI) = 8
  <1>1. /\ Len(Devices) = 3 /\ DOMAIN Devices = 1..3
        /\ Devices[1] = "HUAWEI" /\ Devices[2] = "NRGKICK" /\ Devices[3] = "CAN_EZ3"
    BY DEF Devices
  <1>2. ToSet(Devices) = {"HUAWEI", "NRGKICK", "CAN_EZ3"}
    BY <1>1 DEF ToSet
  <1>3. /\ {i \in 1..Len(Devices) : Devices[i] = "HUAWEI"} = {1}
        /\ {i \in 1..Len(Devices) : Devices[i] = "NRGKICK"} = {2}
        /\ {i \in 1..Len(Devices) : Devices[i] = "CAN_EZ3"} = {3}
    BY <1>1
  <1>4. ASSUME NEW k \in Nat PROVE Min({k}) = k
    BY <1>4 DEF Min
  <1>5. Earlier("HUAWEI") = {Devices[j] : j \in 1..(1 - 1)}
    BY <1>3, <1>4 DEF Earlier, SelectInSeq
  <1>6. /\ Earlier("NRGKICK") = {Devices[j] : j \in 1..(2 - 1)}
        /\ Earlier("CAN_EZ3") = {Devices[j] : j \in 1..(3 - 1)}
    BY <1>3, <1>4 DEF Earlier, SelectInSeq
  <1>7. /\ "HUAWEI" \notin Earlier("HUAWEI")
        /\ "HUAWEI" \in Earlier("NRGKICK") /\ "HUAWEI" \in Earlier("CAN_EZ3")
    BY <1>1, <1>5, <1>6
  <1>8. Len(Table.HUAWEI) = 8
    BY DEF Table, HuaweiRegisters
  <1> QED
    BY <1>2, <1>7, <1>8

(* The look-ups of a snapshot, one device after the other. *)
LEMMA ReadsOfDevices ==
  /\ DOMAIN HuaweiReads = 1..16 /\ DOMAIN NrgkickReads = 1..15 /\ DOMAIN CanReads = 1..4
  /\ \A p \in 1..16 : HuaweiReads[p][1] \in Nat /\ HuaweiReads[p][1] > 32000
  /\ \A p \in 1..15 : NrgkickReads[p][1] \in Nat
  /\ \A p \in 1..4 : CanReads[p][1] \in 1..4
  <1>1. DOMAIN HuaweiReads = 1..16 /\ DOMAIN NrgkickReads = 1..15 /\ DOMAIN CanReads = 1..4
    BY DEF HuaweiReads, NrgkickReads, CanReads
  <1>2. \A p \in 1..16 : HuaweiReads[p][1] \in Nat /\ HuaweiReads[p][1] > 32000
    BY DEF HuaweiReads
  <1>3. \A p \in 1..15 : NrgkickReads[p][1] \in Nat
    BY DEF NrgkickReads
  <1>4. \A p \in 1..4 : CanReads[p][1] \in 1..4
    BY DEF CanReads
  <1> QED
    BY <1>1, <1>2, <1>3, <1>4

(* A look-up of a converter, for what its table says. *)
BlocksOf(k) == {BlockOf(k, read) : read \in Nat \X Nat}
Lookups == [register : Nat, block : UNION {BlocksOf(k) : k \in ToSet(Devices)}]

(* Look-ups of a converter keep their registers and their device. *)
LEMMA ReadsAre ==
  ASSUME NEW k \in ToSet(Devices), NEW reads \in Seq(Nat \X Nat)
  PROVE  /\ Reads(k, reads) \in Seq(Lookups) /\ Len(Reads(k, reads)) = Len(reads)
         /\ \A p \in 1..Len(reads) : /\ Reads(k, reads)[p].register = reads[p][1]
                                     /\ Reads(k, reads)[p].block[1] = k
  <1> DEFINE m == Len(reads)
  <1>1. /\ m \in Nat /\ reads \in [1..m -> Nat \X Nat]
        /\ Reads(k, reads) = [p \in 1..m |-> [register |-> reads[p][1], block |-> BlockOf(k, reads[p])]]
    BY LenProperties DEF Reads
  <1> HIDE DEF m
  <1>2. ASSUME NEW p \in 1..m
        PROVE  /\ [register |-> reads[p][1], block |-> BlockOf(k, reads[p])] \in Lookups
               /\ BlockOf(k, reads[p])[1] = k
    <2>1. reads[p] \in Nat \X Nat
      BY <1>1
    <2>2. reads[p][1] \in Nat /\ BlockOf(k, reads[p]) \in BlocksOf(k)
      BY <2>1 DEF BlocksOf
    <2>3. [register |-> reads[p][1], block |-> BlockOf(k, reads[p])] \in Lookups
      BY <2>2 DEF Lookups
    <2>4. BlockOf(k, reads[p])[1] = k
      BY DEF BlockOf
    <2> QED
      BY <2>3, <2>4
  <1>3. Reads(k, reads) \in [1..m -> Lookups]
    BY <1>1, <1>2
  <1>4. Reads(k, reads) \in Seq(Lookups) /\ Len(Reads(k, reads)) = m
    BY <1>1, <1>3, SeqDef, LenProperties
  <1> QED
    BY <1>1, <1>2, <1>4 DEF m

(* What stands where in three sequences put together. *)
LEMMA Joined ==
  ASSUME NEW S, NEW s \in Seq(S), NEW t \in Seq(S), NEW u \in Seq(S)
  PROVE  /\ (s \o t) \o u \in Seq(S)
         /\ Len((s \o t) \o u) = Len(s) + Len(t) + Len(u)
         /\ \A n \in 1..Len(s) : ((s \o t) \o u)[n] = s[n]
         /\ \A n \in 1..Len(t) : ((s \o t) \o u)[Len(s) + n] = t[n]
         /\ \A n \in 1..Len(u) : ((s \o t) \o u)[Len(s) + Len(t) + n] = u[n]
  <1>1. Len(s) \in Nat /\ Len(t) \in Nat /\ Len(u) \in Nat
    BY LenProperties
  <1>2. /\ s \o t \in Seq(S) /\ Len(s \o t) = Len(s) + Len(t)
        /\ \A i \in 1..(Len(s) + Len(t)) : (s \o t)[i] = IF i <= Len(s) THEN s[i] ELSE t[i - Len(s)]
    BY ConcatProperties
  <1>3. /\ (s \o t) \o u \in Seq(S) /\ Len((s \o t) \o u) = Len(s \o t) + Len(u)
        /\ \A i \in 1..(Len(s \o t) + Len(u)) :
             ((s \o t) \o u)[i] = IF i <= Len(s \o t) THEN (s \o t)[i] ELSE u[i - Len(s \o t)]
    BY <1>2, ConcatProperties
  <1>4. ASSUME NEW n \in 1..Len(s) PROVE ((s \o t) \o u)[n] = s[n]
    BY <1>1, <1>2, <1>3
  <1>5. ASSUME NEW n \in 1..Len(t) PROVE ((s \o t) \o u)[Len(s) + n] = t[n]
    <2>1. Len(s) + n \in 1..(Len(s) + Len(t)) /\ ~(Len(s) + n <= Len(s)) /\ (Len(s) + n) - Len(s) = n
      BY <1>1
    <2> QED
      BY <1>1, <1>2, <1>3, <2>1
  <1>6. ASSUME NEW n \in 1..Len(u) PROVE ((s \o t) \o u)[Len(s) + Len(t) + n] = u[n]
    <2> DEFINE i == Len(s) + Len(t) + n
    <2>1. /\ i \in 1..(Len(s \o t) + Len(u)) /\ ~(i <= Len(s \o t)) /\ i - Len(s \o t) = n
      BY <1>1, <1>2
    <2> QED
      BY <1>3, <2>1
  <1> QED
    BY <1>1, <1>2, <1>3, <1>4, <1>5, <1>6

(* The look-ups of a snapshot: 16 of the inverter's, 15 and 4 of the others'. *)
LEMMA PlanIs ==
  /\ Plan \in Seq(Lookups) /\ Len(Plan) = 35
  /\ \A p \in 1..16 : /\ Plan[p].register = HuaweiReads[p][1]
                       /\ Plan[p] = Reads("HUAWEI", HuaweiReads)[p]
  /\ \A p \in 1..15 : /\ Plan[16 + p].register = NrgkickReads[p][1]
                       /\ Plan[16 + p].block[1] = "NRGKICK"
  /\ \A p \in 1..4 : Plan[31 + p].register = CanReads[p][1]
  <1> DEFINE h == Reads("HUAWEI", HuaweiReads)
             k == Reads("NRGKICK", NrgkickReads)
             c == Reads("CAN_EZ3", CanReads)
  <1>1. /\ h \in Seq(Lookups) /\ Len(h) = 16
        /\ \A p \in 1..16 : h[p].register = HuaweiReads[p][1] /\ h[p].block[1] = "HUAWEI"
    <2>1. HuaweiReads \in Seq(Nat \X Nat) /\ Len(HuaweiReads) = 16
      BY DEF HuaweiReads
    <2>2. "HUAWEI" \in ToSet(Devices)
      BY Started3
    <2>3. /\ h \in Seq(Lookups) /\ Len(h) = Len(HuaweiReads)
          /\ \A p \in 1..Len(HuaweiReads) : h[p].register = HuaweiReads[p][1] /\ h[p].block[1] = "HUAWEI"
      BY <2>1, <2>2, ReadsAre
    <2> QED
      BY <2>1, <2>3
  <1>2. /\ k \in Seq(Lookups) /\ Len(k) = 15
        /\ \A p \in 1..15 : k[p].register = NrgkickReads[p][1] /\ k[p].block[1] = "NRGKICK"
    <2>1. NrgkickReads \in Seq(Nat \X Nat) /\ Len(NrgkickReads) = 15
      BY DEF NrgkickReads
    <2>2. "NRGKICK" \in ToSet(Devices)
      BY Started3
    <2>3. /\ k \in Seq(Lookups) /\ Len(k) = Len(NrgkickReads)
          /\ \A p \in 1..Len(NrgkickReads) : k[p].register = NrgkickReads[p][1] /\ k[p].block[1] = "NRGKICK"
      BY <2>1, <2>2, ReadsAre
    <2> QED
      BY <2>1, <2>3
  <1>3. /\ c \in Seq(Lookups) /\ Len(c) = 4
        /\ \A p \in 1..4 : c[p].register = CanReads[p][1] /\ c[p].block[1] = "CAN_EZ3"
    <2>1. CanReads \in Seq(Nat \X Nat) /\ Len(CanReads) = 4
      BY DEF CanReads
    <2>2. "CAN_EZ3" \in ToSet(Devices)
      BY Started3
    <2>3. /\ c \in Seq(Lookups) /\ Len(c) = Len(CanReads)
          /\ \A p \in 1..Len(CanReads) : c[p].register = CanReads[p][1] /\ c[p].block[1] = "CAN_EZ3"
      BY <2>1, <2>2, ReadsAre
    <2> QED
      BY <2>1, <2>3
  <1>4. Plan = (h \o k) \o c
    BY DEF Plan
  <1> HIDE DEF h, k, c
  <1>5. /\ Plan \in Seq(Lookups) /\ Len(Plan) = Len(h) + Len(k) + Len(c)
        /\ \A n \in 1..Len(h) : Plan[n] = h[n]
        /\ \A n \in 1..Len(k) : Plan[Len(h) + n] = k[n]
        /\ \A n \in 1..Len(c) : Plan[Len(h) + Len(k) + n] = c[n]
    <2>1. h \in Seq(Lookups) /\ k \in Seq(Lookups) /\ c \in Seq(Lookups)
      BY <1>1, <1>2, <1>3
    <2> DEFINE p == (h \o k) \o c
    <2>2. /\ p \in Seq(Lookups) /\ Len(p) = Len(h) + Len(k) + Len(c)
          /\ \A n \in 1..Len(h) : p[n] = h[n]
          /\ \A n \in 1..Len(k) : p[Len(h) + n] = k[n]
          /\ \A n \in 1..Len(c) : p[Len(h) + Len(k) + n] = c[n]
      BY <2>1, Joined
    <2> HIDE DEF p
    <2>3. Plan = p
      BY <1>4 DEF p
    <2> QED
      BY <2>2, <2>3
  <1>6. Len(h) = 16 /\ Len(k) = 15 /\ Len(c) = 4 /\ Len(h) + Len(k) = 31
    BY <1>1, <1>2, <1>3
  <1>7. Plan \in Seq(Lookups) /\ Len(Plan) = 35
    BY <1>5, <1>6
  <1>8. ASSUME NEW p \in 1..16
        PROVE  /\ Plan[p].register = HuaweiReads[p][1]
               /\ Plan[p] = Reads("HUAWEI", HuaweiReads)[p]
    <2>1. Plan[p] = h[p]
      BY <1>1, <1>5
    <2> QED
      BY <1>1, <2>1 DEF h
  <1>9. ASSUME NEW p \in 1..15
        PROVE Plan[16 + p].register = NrgkickReads[p][1] /\ Plan[16 + p].block[1] = "NRGKICK"
    <2>1. Plan[16 + p] = k[p]
      BY <1>5, <1>6
    <2> QED
      BY <1>2, <2>1
  <1>10. ASSUME NEW p \in 1..4 PROVE Plan[31 + p].register = CanReads[p][1]
    <2>1. Plan[31 + p] = c[p]
      BY <1>5, <1>6
    <2> QED
      BY <1>3, <2>1
  <1> QED
    BY <1>7, <1>8, <1>9, <1>10

(* Where the status registers of the charger are in the plan: each behind  *)
(* the one whose high byte it repairs.                                     *)
LEMMA StatusPlan ==
  /\ Plan[27].register = 251 /\ Plan[28].register = 253
  /\ Plan[29].register = 256 /\ Plan[30].register = 257
  /\ \A n \in 1..35 : /\ Plan[n].register \in {251, 253, 256, 257} => n \in 27..30
                      /\ Plan[n].register = 206 => n = 19
                      /\ n \in 27..30 => Plan[n].block[1] = "NRGKICK"
  <1>1. ASSUME NEW n \in 1..16 PROVE Plan[n].register \notin {206, 251, 253, 256, 257}
    <2>1. Plan[n].register \in Nat /\ Plan[n].register > 32000
      <3>1. Plan[n].register = HuaweiReads[n][1]
        BY PlanIs
      <3>2. HuaweiReads[n][1] \in Nat /\ HuaweiReads[n][1] > 32000
        BY ReadsOfDevices
      <3> QED
        BY <3>1, <3>2
    <2> QED
      BY <2>1
  <1>2. ASSUME NEW p \in 1..4 PROVE Plan[31 + p].register \notin {206, 251, 253, 256, 257}
    <2>1. Plan[31 + p].register \in 1..4
      <3>1. Plan[31 + p].register = CanReads[p][1]
        BY PlanIs
      <3>2. CanReads[p][1] \in 1..4
        BY ReadsOfDevices
      <3> QED
        BY <3>1, <3>2
    <2> QED
      BY <2>1
  <1>3. /\ NrgkickReads[11][1] = 251 /\ NrgkickReads[12][1] = 253
        /\ NrgkickReads[13][1] = 256 /\ NrgkickReads[14][1] = 257
        /\ \A p \in 1..15 : /\ NrgkickReads[p][1] \in {251, 253, 256, 257} => p \in 11..14
                            /\ NrgkickReads[p][1] = 206 => p = 3
    BY DEF NrgkickReads
  <1>4. ASSUME NEW p \in 1..15
        PROVE  /\ Plan[16 + p].register = NrgkickReads[p][1] /\ Plan[16 + p].block[1] = "NRGKICK"
               /\ Plan[16 + p].register \in {251, 253, 256, 257} => 16 + p \in 27..30
               /\ Plan[16 + p].register = 206 => 16 + p = 19
    <2>1. Plan[16 + p].register = NrgkickReads[p][1] /\ Plan[16 + p].block[1] = "NRGKICK"
      BY PlanIs
    <2>2. /\ NrgkickReads[p][1] \in {251, 253, 256, 257} => p \in 11..14
          /\ NrgkickReads[p][1] = 206 => p = 3
      BY <1>3
    <2> QED
      BY <2>1, <2>2
  <1>5. /\ Plan[27].register = 251 /\ Plan[28].register = 253
        /\ Plan[29].register = 256 /\ Plan[30].register = 257
    <2>1. 16 + 11 = 27 /\ 16 + 12 = 28 /\ 16 + 13 = 29 /\ 16 + 14 = 30
      OBVIOUS
    <2>2. 11 \in 1..15 /\ 12 \in 1..15 /\ 13 \in 1..15 /\ 14 \in 1..15
      OBVIOUS
    <2> QED
      BY <1>3, <1>4, <2>1, <2>2
  <1>6. ASSUME NEW n \in 1..35
        PROVE  /\ Plan[n].register \in {251, 253, 256, 257} => n \in 27..30
               /\ Plan[n].register = 206 => n = 19
               /\ n \in 27..30 => Plan[n].block[1] = "NRGKICK"
    <2>1. CASE n \in 1..16
      BY <1>1, <2>1
    <2>2. CASE n \in 17..31
      <3>1. PICK p \in 1..15 : n = 16 + p
        <4>1. n - 16 \in 1..15 /\ n = 16 + (n - 16)
          BY <2>2
        <4> QED
          BY <4>1
      <3> QED
        BY <1>4, <3>1
    <2>3. CASE n \in 32..35
      <3>1. PICK p \in 1..4 : n = 31 + p
        <4>1. n - 31 \in 1..4 /\ n = 31 + (n - 31)
          BY <2>3
        <4> QED
          BY <4>1
      <3>2. ~(n \in 27..30)
        BY <2>3
      <3> QED
        BY <1>2, <3>1, <3>2
    <2> QED
      BY <2>1, <2>2, <2>3
  <1> QED
    BY <1>5, <1>6

-----------------------------------------------------------------------------
(* The snapshot's part of the types. *)
GotTyped ==
  /\ got.at \in 0..Len(Plan)
  /\ got.origin \in [Compared -> Value \cup {Unread, Mixed}]
  /\ got.counter \in [Counters -> Value]
  /\ DOMAIN got.status = 1..MaxCurrent /\ DOMAIN got.phases = DOMAIN PhaseFields
  /\ got.blind \subseteq ToSet(Devices) /\ got.ready \in BOOLEAN

(* Moments of a day are numbers. *)
LEMMA MomentsAre ==
  /\ Moments \subseteq Nat
  /\ \A d \in Days : Len(d) \in Nat /\ 0..Len(d) \subseteq Moments
  <1>1. \A d \in Days : Len(d) \in Nat
    BY DaysAssumption, LenProperties
  <1>2. \A d \in Days : 0..Len(d) \subseteq Moments /\ 0..Len(d) \subseteq Nat
    BY <1>1 DEF Moments
  <1> QED
    BY <1>1, <1>2 DEF Moments

(* It is always one of them. *)
LEMMA NowIs ==
  ASSUME TypeOK PROVE now \in Moments /\ 0 \in Moments
  <1>1. day \in Days /\ now \in 0..Len(day)
    BY DEF TypeOK
  <1>2. Len(day) \in Nat /\ 0..Len(day) \subseteq Moments
    BY <1>1, MomentsAre
  <1> QED
    BY <1>1, <1>2

(* A look-up is answered by a block of a device. *)
LEMMA BlocksRead ==
  ASSUME NEW n \in 1..35
  PROVE  Plan[n].block \in Used /\ Plan[n].block[1] \in ToSet(Devices)
  <1>1. n \in DOMAIN Plan /\ Plan[n] \in Lookups
    BY PlanIs, LenProperties, ElementOfSeq
  <1>2. Plan[n].block \in Used
    BY <1>1 DEF Used, ToSet
  <1>3. PICK k \in ToSet(Devices) : Plan[n].block \in BlocksOf(k)
    BY <1>1 DEF Lookups
  <1>4. PICK read \in Nat \X Nat : Plan[n].block = BlockOf(k, read)
    BY <1>3 DEF BlocksOf
  <1> QED
    BY <1>2, <1>4 DEF BlockOf

(* The blocks compared belong to the inverter. *)
LEMMA ComparedAre == Compared \subseteq Used /\ \A b \in Compared : b[1] = "HUAWEI"
  <1>1. \A b \in Compared : b[1] = "HUAWEI"
    BY DEF Compared, Inverter, Battery, BlockOf
  <1>2. HuaweiReads[8] = <<32114, 2>> /\ HuaweiReads[14] = <<37784, 2>>
    BY DEF HuaweiReads
  <1>3. 8 \in 1..16 /\ 14 \in 1..16 /\ 8 \in 1..35 /\ 14 \in 1..35
    OBVIOUS
  <1>4. ASSUME NEW p \in 1..16 PROVE Plan[p].block = BlockOf("HUAWEI", HuaweiReads[p])
    <2>1. Plan[p] = Reads("HUAWEI", HuaweiReads)[p]
      BY PlanIs
    <2> QED
      BY <2>1, ReadsOfDevices DEF Reads
  <1>5. Plan[8].block = Inverter /\ Plan[14].block = Battery
    <2>1. Plan[8].block = BlockOf("HUAWEI", <<32114, 2>>)
      BY <1>2, <1>3, <1>4
    <2>2. Plan[14].block = BlockOf("HUAWEI", <<37784, 2>>)
      BY <1>2, <1>3, <1>4
    <2> QED
      BY <2>1, <2>2 DEF Inverter, Battery
  <1> QED
    BY <1>1, <1>3, <1>5, BlocksRead DEF Compared

(* What a look-up of a block brings. *)
LEMMA FoundIs ==
  ASSUME TypeOK, NEW b \in Used
  PROVE  /\ Found(b) \in Value /\ Found(b) # Mixed
         /\ Found(b) = Garbage <=> client[b[1]] # "registered"
  <1>1. cache[b] \in Moments \cup {None, Zeroed}
    BY DEF TypeOK
  <1>2. \A m \in Moments : m # Garbage /\ m # Mixed
    BY MomentsAre, SpecialAssumption
  <1> QED
    BY <1>1, <1>2, SpecialAssumption DEF Found, Value

(* A poll changes its own block at most. *)
LEMMA PollBlockKeeps ==
  ASSUME TypeOK, NEW b, PollBlock(b)
  PROVE  /\ cache' \in [Used -> Moments \cup {None, Zeroed}]
         /\ \A c \in Used : c # b => cache'[c] = cache[c]
  <1>1. cache \in [Used -> Moments \cup {None, Zeroed}] /\ now \in Moments /\ 0 \in Moments
    BY NowIs DEF TypeOK
  <1>2. CASE b \in Used /\ cache' = [cache EXCEPT ![b] = IF b \in Compared THEN now ELSE 0]
    BY <1>1, <1>2
  <1>3. CASE b \in Failing /\ cache' \in {[cache EXCEPT ![b] = v] : v \in {cache[b], Zeroed, None}}
    <2>1. PICK v \in {cache[b], Zeroed, None} : cache' = [cache EXCEPT ![b] = v]
      BY <1>3
    <2>2. b \in Used /\ v \in Moments \cup {None, Zeroed}
      BY <1>1, <1>3, <2>1, BoundsAssumption
    <2> QED
      BY <1>1, <2>1, <2>2
  <1>4. CASE b \notin Used /\ UNCHANGED cache
    BY <1>1, <1>4
  <1> QED
    BY <1>2, <1>3, <1>4 DEF PollBlock

(* At the start of the day, with nothing polled. *)
LEMMA InitIInv == Init => IInv
  <1> SUFFICES ASSUME Init PROVE IInv
    OBVIOUS
  <1>1. Len(Plan) = 35 /\ Len(Table.HUAWEI) = 8
    BY PlanIs, Started3
  <1>2. Garbage \in Value
    BY DEF Value
  <1>3. got = Fresh
    BY DEF Init
  <1>4. GotTyped
    BY <1>1, <1>2, <1>3 DEF GotTyped, Fresh, NoPhases
  <1>5. day \in Days /\ now \in 0..Len(day)
    BY MomentsAre DEF Init
  <1>6. TypeOK
    BY <1>1, <1>4, <1>5 DEF Init, TypeOK, GotTyped
  <1>7. got.at = 0 /\ got.blind = {} /\ ~got.ready
    BY <1>3 DEF Fresh
  <1>8. \A n \in 1..got.at : FALSE
    BY <1>7
  <1>9. BytesSoFar
    BY <1>8 DEF BytesSoFar
  <1>10. StoppedFirst /\ CycleHeld /\ BlindLost
    BY <1>7, <1>1 DEF Init, StoppedFirst, CycleHeld, BlindLost
  <1>11. Taken /\ OneCycle
    BY <1>3, <1>7, SpecialAssumption DEF Init, Taken, OneCycle
  <1> QED
    BY <1>6, <1>9, <1>10, <1>11 DEF IInv

-----------------------------------------------------------------------------
(* Time passes; a snapshot begins. *)
LEMMA TickKeeps ==
  ASSUME IInv, Tick PROVE IInv'
  <1>1. day' \in Days /\ now' \in 0..Len(day')
    BY MomentsAre DEF IInv, TypeOK, Tick
  <1>2. TypeOK'
    BY <1>1 DEF IInv, TypeOK, Tick, snapVars
  <1>3. StoppedFirst' /\ CycleHeld' /\ Taken'
    BY DEF IInv, StoppedFirst, CycleHeld, Taken, Started, Alive, CycleDone, Tick, snapVars
  <1>4. BlindLost' /\ OneCycle' /\ BytesSoFar'
    BY DEF IInv, BlindLost, OneCycle, BytesSoFar, Found, Tick, snapVars
  <1> QED
    BY <1>2, <1>3, <1>4 DEF IInv

(* A snapshot begins with nothing taken. *)
LEMMA BeginsKeep ==
  ASSUME IInv, HttpBegins \/ LogBegins PROVE IInv'
  <1>1. /\ by = Nobody /\ by' \in {"http", "log"} /\ (by' = "log" => CycleDone)
        /\ got' = [got EXCEPT !.ready = Started]
        /\ UNCHANGED <<day, now, client, next, cache>>
    BY DEF HttpBegins, LogBegins, envVars
  <1>2. got = Fresh
    BY <1>1 DEF IInv, Taken
  <1>9. /\ got'.at = 0 /\ got'.origin = got.origin /\ got'.counter = got.counter
        /\ got'.status = got.status /\ got'.phases = got.phases /\ got'.blind = {}
        /\ got'.ready = Started
        /\ got'.origin = [b \in Compared |-> Unread]
    BY <1>1, <1>2 DEF Fresh
  <1>3. TypeOK'
    <2>1. Started \in BOOLEAN
      BY DEF Started
    <2>2. GotTyped'
      BY <1>2, <1>9, <2>1 DEF IInv, TypeOK, GotTyped, Fresh
    <2> QED
      BY <1>1, <2>2 DEF IInv, TypeOK, GotTyped
  <1>4. StoppedFirst' /\ CycleHeld'
    BY <1>1 DEF IInv, StoppedFirst, CycleHeld, Started, Alive
  <1>5. Taken'
    BY <1>1, <1>9, SpecialAssumption DEF Taken, CycleDone, Started
  <1>6. BlindLost' /\ BytesSoFar'
    <2>1. \A n \in 1..got'.at : FALSE
      BY <1>9
    <2> QED
      BY <1>9, <2>1 DEF BlindLost, BytesSoFar
  <1>7. OneCycle'
    BY <1>9 DEF OneCycle
  <1> QED
    BY <1>3, <1>4, <1>5, <1>6, <1>7 DEF IInv

(* A cycle ends without a snapshot that is followed, or with one. *)
LEMMA LogUnseenKeeps ==
  ASSUME IInv, LogUnseen PROVE IInv'
  <1>1. next' = 1 /\ by # "log" /\ UNCHANGED <<day, now, client, cache, by, got>>
    BY DEF LogUnseen, envVars, snapVars
  <1>2. TypeOK'
    BY <1>1, Started3 DEF IInv, TypeOK
  <1>3. StoppedFirst' /\ CycleHeld' /\ Taken'
    BY <1>1 DEF IInv, StoppedFirst, CycleHeld, Taken, Started, Alive
  <1>4. BlindLost' /\ OneCycle' /\ BytesSoFar'
    BY <1>1 DEF IInv, BlindLost, OneCycle, BytesSoFar
  <1> QED
    BY <1>2, <1>3, <1>4 DEF IInv

(* It ends, and with it the cycle of the inverter. *)
LEMMA FinishKeeps ==
  ASSUME IInv, Finish PROVE IInv'
  <1>1. /\ by' = Nobody /\ got' = Fresh /\ next' \in {1, next}
        /\ UNCHANGED <<day, now, client, cache>>
    BY DEF Finish, envVars
  <1>2. Len(Plan) = 35 /\ Garbage \in Value /\ Len(Table.HUAWEI) = 8
    BY PlanIs, Started3 DEF Value
  <1>3. GotTyped'
    BY <1>1, <1>2 DEF GotTyped, Fresh, NoPhases
  <1>4. next' \in 1..(Len(Table.HUAWEI) + 1)
    BY <1>1, <1>2 DEF IInv, TypeOK
  <1>5. TypeOK'
    BY <1>1, <1>3, <1>4 DEF IInv, TypeOK, GotTyped
  <1>6. got'.at = 0 /\ got'.blind = {} /\ ~got'.ready
    BY <1>1 DEF Fresh
  <1>7. \A n \in 1..got'.at : FALSE
    BY <1>6
  <1>8. BytesSoFar'
    BY <1>7 DEF BytesSoFar
  <1>9. StoppedFirst' /\ CycleHeld' /\ BlindLost'
    BY <1>1, <1>6 DEF IInv, StoppedFirst, CycleHeld, BlindLost, Started, Alive
  <1>10. Taken' /\ OneCycle'
    BY <1>1, <1>6, SpecialAssumption DEF Taken, OneCycle
  <1> QED
    BY <1>5, <1>8, <1>9, <1>10 DEF IInv

(* The inverter's thread polls: no snapshot for the log is being taken.    *)
LEMMA PollHuaweiKeeps ==
  ASSUME IInv, PollHuawei PROVE IInv'
  <1>1. /\ Alive("HUAWEI") /\ next <= 8 /\ next' = next + 1 /\ next \in 1..9
        /\ PollBlock(<<"HUAWEI", next>>)
        /\ UNCHANGED <<day, now, client, by, got>>
    BY Started3 DEF IInv, TypeOK, PollHuawei, BlocksLeft, envVars, snapVars
  <1>2. cache' \in [Used -> Moments \cup {None, Zeroed}]
    BY <1>1, PollBlockKeeps DEF IInv
  <1>3. TypeOK'
    <2>1. next' \in 1..(Len(Table.HUAWEI) + 1)
      BY <1>1, Started3
    <2> QED
      BY <1>1, <1>2, <2>1 DEF IInv, TypeOK
  <1>4. by # "log"
    BY <1>1, Started3 DEF IInv, Taken, CycleDone
  <1>6. StoppedFirst' /\ CycleHeld' /\ Taken'
    BY <1>1, <1>4 DEF IInv, StoppedFirst, CycleHeld, Taken, Started, Alive
  <1>7. BlindLost' /\ OneCycle' /\ BytesSoFar'
    BY <1>1, <1>4 DEF IInv, BlindLost, OneCycle, BytesSoFar
  <1> QED
    BY <1>3, <1>6, <1>7 DEF IInv

(* Other threads poll: the compared blocks are not theirs. *)
LEMMA PollOtherKeeps ==
  ASSUME IInv, NEW b \in Used, PollOther(b) PROVE IInv'
  <1>1. b[1] # "HUAWEI" /\ PollBlock(b) /\ UNCHANGED <<day, now, client, next, by, got>>
    BY DEF PollOther, envVars, snapVars
  <1>2. /\ cache' \in [Used -> Moments \cup {None, Zeroed}]
        /\ \A c \in Used : c # b => cache'[c] = cache[c]
    BY <1>1, PollBlockKeeps DEF IInv
  <1>3. TypeOK'
    BY <1>1, <1>2 DEF IInv, TypeOK
  <1>4. StoppedFirst' /\ CycleHeld' /\ Taken'
    BY <1>1 DEF IInv, StoppedFirst, CycleHeld, Taken, Started, Alive, CycleDone
  <1>5. \A c \in Compared : c \in Used => Found(c)' = Found(c)
    BY <1>1, <1>2, ComparedAre DEF Found
  <1>6. OneCycle'
    BY <1>1, <1>5, ComparedAre DEF IInv, OneCycle
  <1>7. BlindLost' /\ BytesSoFar'
    BY <1>1 DEF IInv, BlindLost, BytesSoFar
  <1> QED
    BY <1>3, <1>4, <1>6, <1>7 DEF IInv

(* Devices come while no snapshot is one that was begun with all started.  *)
LEMMA ComesKeeps ==
  ASSUME IInv, NEW k \in ToSet(Devices), Create(k) \/ Register(k) PROVE IInv'
  <1>1. /\ client[k] \in {"none", "created"}
        /\ \E c \in {"created", "failed", "registered"} : client' = [client EXCEPT ![k] = c]
        /\ UNCHANGED <<day, now, next, cache, by, got>>
    BY DEF Create, Register, envVars, snapVars
  <1>2. PICK c \in {"created", "failed", "registered"} : client' = [client EXCEPT ![k] = c]
    BY <1>1
  <1>3. ~Started
    BY <1>1 DEF Started
  <1>4. ~got.ready
    BY <1>3 DEF IInv, Taken
  <1>5. TypeOK'
    BY <1>1, <1>2 DEF IInv, TypeOK
  <1>6. \A d \in ToSet(Devices) : client'[d] # "gone"
    BY <1>2, <1>3 DEF IInv, TypeOK, StoppedFirst
  <1>7. StoppedFirst' /\ CycleHeld'
    <2>1. Alive("HUAWEI") => Alive("HUAWEI")'
      BY Started3 DEF IInv, TypeOK, Alive, Create, Register
    <2> QED
      BY <1>1, <1>6, <2>1 DEF IInv, StoppedFirst, CycleHeld
  <1>8. Taken' /\ OneCycle'
    BY <1>1, <1>4 DEF IInv, Taken, OneCycle, CycleDone
  <1>9. BlindLost' /\ BytesSoFar'
    BY <1>1, <1>4 DEF IInv, BlindLost, BytesSoFar
  <1> QED
    BY <1>5, <1>7, <1>8, <1>9 DEF IInv

(* Devices go, the inverter first, between two of its cycles. *)
LEMMA StopKeeps ==
  ASSUME IInv, NEW k \in ToSet(Devices), Stop(k) PROVE IInv'
  <1>1. /\ Started /\ Alive(k) /\ Stops(k) /\ (k = "HUAWEI" => next = 1)
        /\ client' = [client EXCEPT ![k] = "gone"]
        /\ cache' = [b \in Used |-> IF b[1] = k THEN None ELSE cache[b]]
        /\ UNCHANGED <<day, now, next, by, got>>
    BY DEF Stop, envVars, snapVars
  <1>2. "HUAWEI" \in ToSet(Devices)
    BY Started3
  <1>3. TypeOK'
    BY <1>1 DEF IInv, TypeOK
  <1>4. Started'
    BY <1>1 DEF Started, IInv, TypeOK
  <1>5. ~Alive("HUAWEI")'
    BY <1>1, <1>2, Started3 DEF Stops, Alive, IInv, TypeOK
  <1>6. next = 1
    <2>1. CASE k = "HUAWEI"
      BY <1>1, <2>1
    <2>2. CASE k # "HUAWEI"
      <3>1. ~Alive("HUAWEI")
        BY <1>1, <2>2, Started3 DEF Stops
      <3>2. ~(next > 1)
        BY <3>1 DEF IInv, CycleHeld, Alive
      <3> QED
        BY <3>2, Started3 DEF IInv, TypeOK
    <2> QED
      BY <2>1, <2>2
  <1>7. by # "log"
    BY <1>6, Started3 DEF IInv, Taken, CycleDone
  <1>8. StoppedFirst' /\ CycleHeld' /\ Taken'
    BY <1>1, <1>4, <1>5, <1>6, <1>7 DEF IInv, StoppedFirst, CycleHeld, Taken
  <1>9. BlindLost'
    BY <1>1 DEF IInv, TypeOK, BlindLost
  <1>10. OneCycle' /\ BytesSoFar'
    BY <1>1, <1>7 DEF IInv, OneCycle, BytesSoFar
  <1> QED
    BY <1>3, <1>8, <1>9, <1>10 DEF IInv

-----------------------------------------------------------------------------
(* The bytes of the status registers. *)
LEMMA StatusBytesAre ==
  /\ DOMAIN StatusByte = {251, 253, 256, 257}
  /\ StatusByte[251] = 1 /\ StatusByte[253] = 2 /\ StatusByte[256] = 3 /\ StatusByte[257] = 4
  BY DEF StatusByte

(* What a look-up stores: its low byte where it belongs, its high byte     *)
(* behind it, and nothing anywhere else.                                   *)
LEMMA StoredIs ==
  ASSUME DOMAIN got.status = 1..MaxCurrent, NEW register, NEW value
  PROVE  /\ DOMAIN Stored(register, value) = 1..MaxCurrent
         /\ value # Garbage /\ register \in DOMAIN StatusByte =>
              LET j == StatusByte[register]
              IN  /\ Stored(register, value)[j] \in {Zeroed, <<register, "low">>}
                  /\ Stored(register, value)[j + 1] \in {Zeroed, <<register, "high">>}
                  /\ \A i \in 1..MaxCurrent : i < j => Stored(register, value)[i] = got.status[i]
         /\ value = Garbage \/ register \notin DOMAIN StatusByte =>
              \A i \in 1..MaxCurrent :
                i # MaxCurrent \/ register # 206 => Stored(register, value)[i] = got.status[i]
  <1> DEFINE byte(half) == IF value = Zeroed THEN Zeroed ELSE <<register, half>>
  <1>1. CASE value = Garbage
    BY <1>1 DEF Stored
  <1>2. CASE value # Garbage /\ register = 206
    <2>2. register \notin DOMAIN StatusByte
      BY <1>2, StatusBytesAre
    <2>1. Stored(register, value) = [got.status EXCEPT ![MaxCurrent] = <<206, "low">>]
      BY <1>2, <2>2 DEF Stored
    <2> QED
      BY <1>2, <2>1, <2>2 DEF MaxCurrent
  <1>3. CASE value # Garbage /\ register \in DOMAIN StatusByte
    <2>1. register # 206 /\ StatusByte[register] \in 1..4
      BY <1>3, StatusBytesAre
    <2>2. PICK j \in 1..4 : j = StatusByte[register]
      BY <2>1
    <2>3. Stored(register, value) = [got.status EXCEPT ![j] = byte("low"), ![j + 1] = byte("high")]
      BY <1>3, <2>1, <2>2 DEF Stored
    <2>4. j \in 1..5 /\ j + 1 \in 1..5 /\ j # j + 1 /\ MaxCurrent = 5
      BY DEF MaxCurrent
    <2>5. /\ byte("low") \in {Zeroed, <<register, "low">>}
          /\ byte("high") \in {Zeroed, <<register, "high">>}
      OBVIOUS
    <2> HIDE DEF byte
    <2>6. DOMAIN Stored(register, value) = 1..MaxCurrent
      BY <2>3
    <2>7. /\ Stored(register, value)[j] = byte("low")
          /\ Stored(register, value)[j + 1] = byte("high")
          /\ \A i \in 1..5 : i < j => Stored(register, value)[i] = got.status[i]
      BY <2>3, <2>4
    <2> QED
      BY <1>3, <2>2, <2>4, <2>5, <2>6, <2>7
  <1>4. CASE value # Garbage /\ register # 206 /\ register \notin DOMAIN StatusByte
    BY <1>4 DEF Stored
  <1> QED
    BY <1>1, <1>2, <1>3, <1>4

(* A status register is looked up before those whose bytes lie behind it.  *)
LEMMA StatusOrder ==
  \A n, m \in 1..35 :
    n < m /\ Plan[n].register \in DOMAIN StatusByte /\ Plan[m].register \in DOMAIN StatusByte
      => Plan[n].register # 257 /\ StatusByte[Plan[n].register] < StatusByte[Plan[m].register]
  <1> SUFFICES ASSUME NEW n \in 1..35, NEW m \in 1..35, n < m,
                      Plan[n].register \in DOMAIN StatusByte, Plan[m].register \in DOMAIN StatusByte
               PROVE  /\ Plan[n].register # 257
                      /\ StatusByte[Plan[n].register] < StatusByte[Plan[m].register]
    OBVIOUS
  <1>1. n \in 27..30 /\ m \in 27..30
    BY StatusPlan, StatusBytesAre
  <1>2. \A i \in 27..30 : StatusByte[Plan[i].register] = i - 26
    BY StatusPlan, StatusBytesAre
  <1>3. n # 30
    BY <1>1
  <1>4. \A i \in 27..29 : Plan[i].register # 257
    BY StatusPlan
  <1> QED
    BY <1>1, <1>2, <1>3, <1>4

-----------------------------------------------------------------------------
(* The next look-up, whatever it finds. *)
LEMMA LookUpKeeps ==
  ASSUME IInv, LookUp PROVE IInv'
  <1> DEFINE m == got.at + 1
             r == Plan[m]
             value == Found(r.block)
  <1>1. /\ m \in 1..35 /\ got.at = m - 1 /\ got.at \in 0..34 /\ by # Nobody
        /\ UNCHANGED <<day, now, client, next, cache, by>>
    <2>1. /\ got.at < Len(Plan) /\ by # Nobody
          /\ UNCHANGED <<day, now, client, next, cache, by>>
      BY DEF LookUp, envVars
    <2>2. got.at \in 0..Len(Plan) /\ Len(Plan) = 35
      BY PlanIs DEF IInv, TypeOK
    <2> QED
      BY <2>1, <2>2
  <1>2. r.block \in Used /\ r.block[1] \in ToSet(Devices)
    BY <1>1, BlocksRead
  <1>3. /\ value \in Value /\ value # Mixed
        /\ value = Garbage <=> client[r.block[1]] # "registered"
    BY <1>2, FoundIs DEF IInv
  <1>4. /\ got'.at = got.at + 1
        /\ got'.origin = [b \in Compared |->
             IF b # r.block \/ got.origin[b] = value THEN got.origin[b]
             ELSE IF got.origin[b] = Unread THEN value ELSE Mixed]
        /\ got'.counter = [c \in Counters |-> IF r.register = c THEN value ELSE got.counter[c]]
        /\ got'.status = Stored(r.register, value)
        /\ got'.phases = IF r.register = 37101 THEN Phases(value) ELSE got.phases
        /\ got'.blind = IF value = Garbage THEN got.blind \cup {r.block[1]} ELSE got.blind
        /\ got'.ready = got.ready
    BY DEF LookUp
  <1>5. got.at \in Int /\ GotTyped
    BY <1>1 DEF IInv, TypeOK, GotTyped
  <1> HIDE DEF value, r, m
  <1>6. GotTyped'
    <2>1. got'.at \in 0..Len(Plan)
      BY <1>1, <1>4, PlanIs
    <2>2. got'.origin \in [Compared -> Value \cup {Unread, Mixed}]
      BY <1>3, <1>4, <1>5 DEF GotTyped
    <2>3. got'.counter \in [Counters -> Value]
      BY <1>3, <1>4, <1>5 DEF GotTyped
    <2>4. DOMAIN got'.status = 1..MaxCurrent
      BY <1>4, <1>5, StoredIs DEF GotTyped
    <2>5. DOMAIN got'.phases = DOMAIN PhaseFields
      BY <1>4, <1>5 DEF GotTyped, Phases
    <2>6. got'.blind \subseteq ToSet(Devices) /\ got'.ready \in BOOLEAN
      BY <1>2, <1>4, <1>5 DEF GotTyped
    <2> QED
      BY <2>1, <2>2, <2>3, <2>4, <2>5, <2>6 DEF GotTyped
  <1>7. TypeOK'
    BY <1>1, <1>6 DEF IInv, TypeOK, GotTyped
  <1>8. StoppedFirst' /\ CycleHeld' /\ Taken'
    BY <1>1, <1>4 DEF IInv, StoppedFirst, CycleHeld, Taken, Started, Alive, CycleDone
  <1>9. BlindLost'
    <2>1. ASSUME value = Garbage, got.ready PROVE client[r.block[1]] \in {"failed", "gone"}
      BY <1>1, <1>2, <1>3, <2>1 DEF IInv, TypeOK, Taken, Started
    <2> QED
      BY <1>1, <1>4, <2>1 DEF IInv, BlindLost
  <1>10. OneCycle'
    <2> SUFFICES ASSUME by = "log", got.ready, NEW b \in Compared
                 PROVE  got'.origin[b] \in {Unread, Found(b)}
      BY <1>1, <1>4 DEF OneCycle, Found
    <2>1. got.origin[b] \in {Unread, Found(b)}
      BY DEF IInv, OneCycle
    <2> QED
      BY <1>4, <2>1 DEF value
  <1>11. BytesSoFar'
    <2> SUFFICES ASSUME "NRGKICK" \notin got'.blind, NEW n \in 1..got'.at
                 PROVE  LET s == Plan[n].register
                        IN  /\ s \in DOMAIN StatusByte =>
                                 got'.status[StatusByte[s]] \in {Zeroed, <<s, "low">>}
                            /\ s = 257 => got'.status[MaxCurrent] \in {Zeroed, <<257, "high">>}
      BY DEF BytesSoFar
    <2> DEFINE s == Plan[n].register
    <2>1. /\ n \in 1..m /\ m \in 1..35 /\ n \in 1..35 /\ (n # m => n < m /\ n \in 1..got.at)
          /\ r = Plan[m]
      BY <1>1, <1>4 DEF r, m
    <2>2. DOMAIN got.status = 1..MaxCurrent /\ got'.status = Stored(r.register, value)
      BY <1>4, <1>5 DEF GotTyped
    <2>3. CASE n = m
      <3>1. CASE s \in DOMAIN StatusByte
        <4>1. r.block[1] = "NRGKICK" /\ r.register = s
          BY <2>1, <2>3, <3>1, StatusPlan, StatusBytesAre
        <4>2. value # Garbage
          BY <1>4, <4>1
        <4>3. /\ got'.status[StatusByte[s]] \in {Zeroed, <<s, "low">>}
              /\ got'.status[StatusByte[s] + 1] \in {Zeroed, <<s, "high">>}
          BY <2>2, <3>1, <4>1, <4>2, StoredIs
        <4>4. s = 257 => StatusByte[s] + 1 = MaxCurrent
          BY StatusBytesAre DEF MaxCurrent
        <4> HIDE DEF s
        <4> QED
          BY <4>3, <4>4 DEF s
      <3>2. CASE s \notin DOMAIN StatusByte
        BY <3>2, StatusBytesAre
      <3> QED
        BY <3>1, <3>2
    <2>4. CASE n # m /\ s \in DOMAIN StatusByte
      <3>1. /\ got.status[StatusByte[s]] \in {Zeroed, <<s, "low">>}
            /\ s = 257 => got.status[MaxCurrent] \in {Zeroed, <<257, "high">>}
        <4>1. "NRGKICK" \notin got.blind
          BY <1>4
        <4> QED
          BY <2>1, <2>4, <4>1 DEF IInv, BytesSoFar
      <3>2. StatusByte[s] \in 1..4 /\ 1..4 \subseteq 1..MaxCurrent /\ StatusByte[s] # MaxCurrent
        BY <2>4, StatusBytesAre DEF MaxCurrent
      <3>3. r.register # 206
        <4>1. n \in 27..30
          BY <2>1, <2>4, StatusPlan, StatusBytesAre
        <4> QED
          BY <2>1, <2>4, <4>1, StatusPlan
      <3>4. CASE value = Garbage \/ r.register \notin DOMAIN StatusByte
        <4>1. \A i \in 1..MaxCurrent : got'.status[i] = got.status[i]
          BY <2>2, <3>3, <3>4, StoredIs
        <4>2. MaxCurrent \in 1..MaxCurrent
          BY DEF MaxCurrent
        <4> QED
          BY <3>1, <3>2, <4>1, <4>2
      <3>5. CASE value # Garbage /\ r.register \in DOMAIN StatusByte
        <4>1. s # 257 /\ StatusByte[s] < StatusByte[r.register]
          <5>1. n \in 1..35 /\ m \in 1..35 /\ n < m
            BY <2>1, <2>4
          <5>2. Plan[n].register \in DOMAIN StatusByte /\ Plan[m].register \in DOMAIN StatusByte
            BY <2>1, <2>4, <3>5
          <5>3. Plan[n].register # 257 /\ StatusByte[Plan[n].register] < StatusByte[Plan[m].register]
            BY <5>1, <5>2, StatusOrder
          <5> QED
            BY <2>1, <5>3
        <4>2. \A i \in 1..MaxCurrent : i < StatusByte[r.register] => got'.status[i] = got.status[i]
          BY <2>2, <3>5, StoredIs
        <4> QED
          BY <3>1, <3>2, <4>1, <4>2
      <3> QED
        BY <3>4, <3>5
    <2>5. CASE n # m /\ s \notin DOMAIN StatusByte
      BY <2>5, StatusBytesAre
    <2> QED
      BY <2>3, <2>4, <2>5
  <1> QED
    BY <1>7, <1>8, <1>9, <1>10, <1>11 DEF IInv

(* Every step keeps the invariant. *)
LEMMA NextIInv == IInv /\ [Next]_vars => IInv'
  <1> SUFFICES ASSUME IInv, [Next]_vars PROVE IInv'
    OBVIOUS
  <1>1. CASE UNCHANGED vars
    BY <1>1 DEF vars, envVars, snapVars, IInv, TypeOK, StoppedFirst, CycleHeld, Taken,
           Started, Alive, CycleDone, BlindLost, OneCycle, Found, BytesSoFar
  <1> QED
    BY <1>1, TickKeeps, BeginsKeep, LogUnseenKeeps, LookUpKeeps, FinishKeeps,
       PollHuaweiKeeps, PollOtherKeeps, ComesKeeps, StopKeeps
       DEF Next

(* The invariant holds in every reachable state. *)
LEMMA Inductive == Spec => []IInv
  BY InitIInv, NextIInv, PTL DEF Spec

-----------------------------------------------------------------------------
(* Variables keep their types: a look-up brings what a poll has saved,     *)
(* zeros, or leaves the caller's buffer (modbus_tcp_poll.c:130-160).       *)
THEOREM TypeCorrect == Spec => []TypeOK
  <1>1. IInv => TypeOK
    BY DEF IInv
  <1> QED
    BY <1>1, Inductive, PTL

(* A sample that was begun after all were started and is logged, or sent   *)
(* while the process runs, lacks only devices that could not be started,   *)
(* whenever clients go between its look-ups (modbus_tcp_poll.c:379-387).   *)
THEOREM SamplesAreComplete == Spec => []Complete
  <1>1. IInv => Complete
    <2> SUFFICES ASSUME IInv, Done, got.ready,
                        by = "log" \/ \A k \in ToSet(Devices) : client[k] # "gone",
                        NEW k \in got.blind
                 PROVE  client[k] = "failed"
      BY DEF Complete
    <2>1. client[k] \in {"failed", "gone"} /\ k \in ToSet(Devices)
      BY DEF IInv, BlindLost, TypeOK
    <2>2. CASE by = "log"
      <3>1. next > 1
        BY <2>2, Started3 DEF IInv, Taken, CycleDone, TypeOK
      <3>2. Alive("HUAWEI")
        BY <3>1 DEF IInv, CycleHeld, Alive
      <3> QED
        BY <2>1, <3>2 DEF IInv, StoppedFirst
    <2>3. CASE \A d \in ToSet(Devices) : client[d] # "gone"
      BY <2>1, <2>3
    <2> QED
      BY <2>2, <2>3
  <1> QED
    BY <1>1, Inductive, PTL

(* The values of a block in a logged sample are of one poll, whatever the  *)
(* other threads poll and whoever stops meanwhile (258-268).               *)
THEOREM LogIsCoherent == Spec => []LoggedCoherent
  <1>1. IInv => LoggedCoherent
    <2> SUFFICES ASSUME IInv, Logged, NEW b \in Compared PROVE got.origin[b] # Mixed
      BY DEF LoggedCoherent
    <2>1. got.origin[b] \in {Unread, Found(b)}
      BY DEF IInv, OneCycle, Logged
    <2>2. Found(b) # Mixed
      BY ComparedAre, FoundIs DEF IInv
    <2> QED
      BY <2>1, <2>2, SpecialAssumption
  <1> QED
    BY <1>1, Inductive, PTL

(* Each status byte of the charger ends as the low byte of its own         *)
(* register, though every look-up spills into the byte behind it           *)
(* (nrgkick_modbus_converter.c:27-72).                                     *)
THEOREM StatusIsOwn == Spec => []StatusBytesOwn
  <1>1. IInv => StatusBytesOwn
    <2> SUFFICES ASSUME IInv, Done, "NRGKICK" \notin got.blind
                 PROVE  /\ \A s \in DOMAIN StatusByte :
                             got.status[StatusByte[s]] \in {Zeroed, <<s, "low">>}
                        /\ got.status[MaxCurrent] \in {Zeroed, <<257, "high">>}
      BY DEF StatusBytesOwn
    <2>1. got.at = 35
      BY PlanIs DEF Done
    <2>2. ASSUME NEW n \in 27..30
          PROVE  LET s == Plan[n].register
                 IN  /\ s \in DOMAIN StatusByte => got.status[StatusByte[s]] \in {Zeroed, <<s, "low">>}
                     /\ s = 257 => got.status[MaxCurrent] \in {Zeroed, <<257, "high">>}
      <3>1. n \in 1..got.at
        BY <2>1
      <3> QED
        BY <3>1 DEF IInv, BytesSoFar
    <2>3. \A s \in DOMAIN StatusByte : \E n \in 27..30 : Plan[n].register = s
      BY StatusPlan, StatusBytesAre
    <2> QED
      BY <2>2, <2>3, StatusBytesAre
  <1> QED
    BY <1>1, Inductive, PTL

-----------------------------------------------------------------------------
(* A snapshot for the log has read the daily counters as the cache holds   *)
(* them, the two of the battery from one block.                            *)
CountersHeld ==
  by = "log" /\ got.ready =>
    /\ got.at >= 8 => got.counter[32114] = Found(Inverter)
    /\ got.at >= 14 => got.counter[37784] = Found(Battery)
    /\ got.at >= 15 => got.counter[37786] = Found(Battery)

(* The counters are the 8th, 14th and 15th look-up, and no other.          *)
LEMMA CounterPlan ==
  /\ Plan[8].register = 32114 /\ Plan[8].block = Inverter
  /\ Plan[14].register = 37784 /\ Plan[14].block = Battery
  /\ Plan[15].register = 37786 /\ Plan[15].block = Battery
  /\ \A n \in 1..35 : /\ Plan[n].register = 32114 => n = 8
                      /\ Plan[n].register = 37784 => n = 14
                      /\ Plan[n].register = 37786 => n = 15
  <1>1. /\ HuaweiReads[8] = <<32114, 2>> /\ HuaweiReads[14] = <<37784, 2>>
        /\ HuaweiReads[15] = <<37786, 2>>
        /\ \A p \in 1..16 : /\ HuaweiReads[p][1] = 32114 => p = 8
                            /\ HuaweiReads[p][1] = 37784 => p = 14
                            /\ HuaweiReads[p][1] = 37786 => p = 15
    BY DEF HuaweiReads
  <1>2. \A p \in 1..15 : NrgkickReads[p][1] \notin {32114, 37784, 37786}
    BY DEF NrgkickReads
  <1>3. \A p \in 1..4 : CanReads[p][1] \notin {32114, 37784, 37786}
    BY DEF CanReads
  <1>4. 8 \in 1..16 /\ 14 \in 1..16 /\ 15 \in 1..16
    OBVIOUS
  <1>5. ASSUME NEW p \in 1..16
        PROVE  /\ Plan[p].block = BlockOf("HUAWEI", HuaweiReads[p])
               /\ Plan[p].register = HuaweiReads[p][1]
    <2>1. Plan[p] = Reads("HUAWEI", HuaweiReads)[p] /\ Plan[p].register = HuaweiReads[p][1]
      BY PlanIs
    <2> QED
      BY <2>1, ReadsOfDevices DEF Reads
  <1>6. BlockOf("HUAWEI", <<37786, 2>>) = Battery
    <2> DEFINE fits(i, a) == /\ HuaweiRegisters[i][1] <= a
                             /\ a + 2 <= HuaweiRegisters[i][1] + HuaweiRegisters[i][2]
               those(a) == {i \in 1..8 : fits(i, a)}
    <2>1. \A i \in 1..8 : fits(i, 37786) <=> fits(i, 37784)
      BY DEF HuaweiRegisters
    <2>2. those(37786) = those(37784)
      BY <2>1
    <2>3. Table["HUAWEI"] = HuaweiRegisters /\ Len(HuaweiRegisters) = 8
      BY DEF Table, HuaweiRegisters
    <2> HIDE DEF fits
    <2>4. ASSUME NEW a
          PROVE  BlockOf("HUAWEI", <<a, 2>>) =
                   <<"HUAWEI", IF those(a) # {} THEN Min(those(a)) ELSE 0>>
      BY <2>3 DEF BlockOf, SelectInSeq, fits
    <2> HIDE DEF those
    <2> QED
      BY <2>2, <2>4 DEF Battery
  <1>7. /\ Plan[8].register = 32114 /\ Plan[8].block = Inverter
        /\ Plan[14].register = 37784 /\ Plan[14].block = Battery
        /\ Plan[15].register = 37786 /\ Plan[15].block = Battery
    <2>1. /\ Plan[8].block = BlockOf("HUAWEI", <<32114, 2>>) /\ Plan[8].register = <<32114, 2>>[1]
          /\ Plan[14].block = BlockOf("HUAWEI", <<37784, 2>>) /\ Plan[14].register = <<37784, 2>>[1]
          /\ Plan[15].block = BlockOf("HUAWEI", <<37786, 2>>) /\ Plan[15].register = <<37786, 2>>[1]
      BY <1>1, <1>4, <1>5
    <2> QED
      BY <2>1, <1>6 DEF Inverter, Battery
  <1>8. ASSUME NEW n \in 1..35
        PROVE  /\ Plan[n].register = 32114 => n = 8
               /\ Plan[n].register = 37784 => n = 14
               /\ Plan[n].register = 37786 => n = 15
    <2>1. CASE n \in 1..16
      BY <1>1, <1>5, <2>1
    <2>2. CASE n \in 17..31
      <3>1. n - 16 \in 1..15 /\ n = 16 + (n - 16)
        BY <2>2
      <3>2. Plan[n].register = NrgkickReads[n - 16][1]
        BY <3>1, PlanIs
      <3> QED
        BY <1>2, <3>1, <3>2
    <2>3. CASE n \in 32..35
      <3>1. n - 31 \in 1..4 /\ n = 31 + (n - 31)
        BY <2>3
      <3>2. Plan[n].register = CanReads[n - 31][1]
        BY <3>1, PlanIs
      <3> QED
        BY <1>3, <3>1, <3>2
    <2> QED
      BY <2>1, <2>2, <2>3
  <1> QED
    BY <1>7, <1>8

(* At the start no snapshot is being taken. *)
LEMMA InitCounters == Init => CountersHeld
  BY SpecialAssumption DEF Init, CountersHeld, Fresh

(* While a snapshot for the log is taken, nothing but its own look-ups and *)
(* blocks of other devices change, and the inverter stays.                 *)
LEMMA InverterHeld ==
  ASSUME IInv, [Next]_vars, by = "log", by' = "log", got.ready
  PROVE  /\ Found(Inverter)' = Found(Inverter) /\ Found(Battery)' = Found(Battery)
         /\ got' = got \/ LookUp
  <1>1. next > 1 /\ next = 9 /\ client["HUAWEI"] = "registered" /\ Started
    <2>1. next > 1 /\ next = 9 /\ Started /\ Alive("HUAWEI")
      BY Started3 DEF IInv, Taken, CycleDone, CycleHeld, TypeOK
    <2> QED
      BY <2>1, Started3 DEF Alive, Started
  <1>2. /\ Inverter \in Used /\ Battery \in Used
        /\ Inverter[1] = "HUAWEI" /\ Battery[1] = "HUAWEI"
    BY ComparedAre DEF Compared
  <1> SUFFICES /\ client'["HUAWEI"] = client["HUAWEI"]
               /\ cache'[Inverter] = cache[Inverter] /\ cache'[Battery] = cache[Battery]
               /\ got' = got \/ LookUp
    BY <1>2 DEF Found
  <1>3. CASE UNCHANGED vars \/ Tick \/ LogUnseen \/ LookUp
    BY <1>3 DEF vars, envVars, snapVars, Tick, LogUnseen, LookUp
  <1>4. CASE HttpBegins \/ LogBegins \/ Finish
    BY <1>4, SpecialAssumption DEF HttpBegins, LogBegins, Finish
  <1>5. CASE PollHuawei
    BY <1>1, <1>5, Started3 DEF PollHuawei, BlocksLeft
  <1>6. ASSUME NEW b \in Used, PollOther(b)
        PROVE  /\ client' = client /\ got' = got
               /\ cache'[Inverter] = cache[Inverter] /\ cache'[Battery] = cache[Battery]
    <2>1. b[1] # "HUAWEI" /\ PollBlock(b) /\ client' = client /\ got' = got
      BY <1>6 DEF PollOther, snapVars
    <2>2. b # Inverter /\ b # Battery
      BY <1>2, <2>1
    <2> QED
      BY <1>2, <2>1, <2>2, PollBlockKeeps DEF IInv
  <1>7. ASSUME NEW k \in ToSet(Devices), Create(k) \/ Register(k)
        PROVE  FALSE
    BY <1>1, <1>7 DEF Create, Register, Started
  <1>8. ASSUME NEW k \in ToSet(Devices), Stop(k)
        PROVE  FALSE
    <2>1. Alive(k) /\ Stops(k) /\ (k = "HUAWEI" => next = 1)
      BY <1>8 DEF Stop
    <2>2. Alive("HUAWEI")
      BY <1>1 DEF Alive
    <2> QED
      BY <1>1, <2>1, <2>2, Started3 DEF Stops
  <1> QED
    BY <1>3, <1>4, <1>5, <1>6, <1>7, <1>8 DEF Next

(* Only its own look-up sets a counter of a snapshot for the log. *)
LEMMA NextCounters == IInv /\ CountersHeld /\ [Next]_vars => CountersHeld'
  <1> SUFFICES ASSUME IInv, CountersHeld, [Next]_vars, by' = "log", got'.ready
               PROVE  /\ got'.at >= 8 => got'.counter[32114] = Found(Inverter)'
                      /\ got'.at >= 14 => got'.counter[37784] = Found(Battery)'
                      /\ got'.at >= 15 => got'.counter[37786] = Found(Battery)'
    BY DEF CountersHeld
  <1>1. CASE by # "log"
    <2>1. LogBegins
      BY <1>1, SpecialAssumption DEF Next, vars, envVars, snapVars, Tick, LogUnseen, LookUp,
         HttpBegins, Finish, PollHuawei, PollOther, Create, Register, Stop
    <2>2. got = Fresh /\ got' = [got EXCEPT !.ready = Started]
      BY <2>1 DEF LogBegins, IInv, Taken
    <2>3. got'.at = 0
      BY <2>2 DEF Fresh
    <2> QED
      BY <2>3
  <1>4. by = "log" => got.ready
    BY SpecialAssumption DEF Next, vars, envVars, snapVars, Tick, LogUnseen, LookUp, LogBegins,
       HttpBegins, Finish, PollHuawei, PollOther, Create, Register, Stop
  <1>2. CASE by = "log" /\ got' = got
    BY <1>2, <1>4, InverterHeld DEF CountersHeld
  <1>3. CASE by = "log" /\ LookUp
    <2>0. got.ready
      BY <1>3, <1>4
    <2> DEFINE m == got.at + 1
    <2>1. /\ m \in 1..35 /\ got.at \in 0..34 /\ got'.at = m
          /\ got'.counter = [c \in Counters |->
               IF Plan[m].register = c THEN Found(Plan[m].block) ELSE got.counter[c]]
      <3>1. got.at < Len(Plan) /\ got.at \in 0..Len(Plan) /\ Len(Plan) = 35
        <4>1. got.at < Len(Plan)
          BY <1>3 DEF LookUp
        <4>2. got.at \in 0..Len(Plan)
          BY DEF IInv, TypeOK
        <4> QED
          BY <4>1, <4>2, PlanIs
      <3> QED
        BY <1>3, <3>1 DEF LookUp
    <2>2. /\ got'.counter[32114] = IF Plan[m].register = 32114 THEN Found(Plan[m].block) ELSE got.counter[32114]
          /\ got'.counter[37784] = IF Plan[m].register = 37784 THEN Found(Plan[m].block) ELSE got.counter[37784]
          /\ got'.counter[37786] = IF Plan[m].register = 37786 THEN Found(Plan[m].block) ELSE got.counter[37786]
      BY <2>1 DEF Counters
    <2>3. Found(Inverter)' = Found(Inverter) /\ Found(Battery)' = Found(Battery)
      BY <1>3, <2>0, InverterHeld
    <2>4. got'.at >= 8 => got'.counter[32114] = Found(Inverter)
      BY <1>3, <2>0, <2>1, <2>2, CounterPlan DEF CountersHeld
    <2>5. got'.at >= 14 => got'.counter[37784] = Found(Battery)
      BY <1>3, <2>0, <2>1, <2>2, CounterPlan DEF CountersHeld
    <2>6. got'.at >= 15 => got'.counter[37786] = Found(Battery)
      BY <1>3, <2>0, <2>1, <2>2, CounterPlan DEF CountersHeld
    <2> QED
      BY <2>3, <2>4, <2>5, <2>6
  <1> QED
    BY <1>1, <1>2, <1>3, <1>4, InverterHeld

(* The energies of a day up to moment m: what the battery is charged with  *)
(* is produced, what it gives has passed the inverter.                     *)
LEMMA Balance ==
  ASSUME NEW m \in Nat
  PROVE  /\ Yield(m) \in Nat /\ Produced(m) \in Nat
         /\ Charged(m) \in Nat /\ Discharged(m) \in Nat
         /\ Yield(m) <= m /\ Produced(m) <= m /\ Charged(m) <= m /\ Discharged(m) <= m
         /\ Yield(m) - Discharged(m) + Charged(m) = Produced(m)
  <1> DEFINE p == {i \in 1..m : day[i] \in {"produce"}}
             c == {i \in 1..m : day[i] \in {"charge"}}
             d == {i \in 1..m : day[i] \in {"discharge"}}
  <1>1. IsFiniteSet(1..m) /\ Cardinality(1..m) = m
    BY FS_Interval
  <1>2. IsFiniteSet(p) /\ IsFiniteSet(c) /\ IsFiniteSet(d)
    BY <1>1, FS_Subset
  <1>3. IsFiniteSet(p \cup c) /\ IsFiniteSet(p \cup d)
        /\ Cardinality(p \cup c) = Cardinality(p) + Cardinality(c) - Cardinality(p \cap c)
        /\ Cardinality(p \cup d) = Cardinality(p) + Cardinality(d) - Cardinality(p \cap d)
    BY <1>2, FS_Union
  <1>4. Cardinality(p \cap c) = 0 /\ Cardinality(p \cap d) = 0
    <2>1. p \cap c = {} /\ p \cap d = {}
      OBVIOUS
    <2> HIDE DEF p, c, d
    <2> QED
      BY <2>1, FS_EmptySet
  <1>5. /\ Cardinality(p) \in Nat /\ Cardinality(c) \in Nat /\ Cardinality(d) \in Nat
        /\ Cardinality(p \cup c) \in Nat /\ Cardinality(p \cup d) \in Nat
    BY <1>2, <1>3, FS_CardinalityType
  <1>6. /\ Cardinality(p \cup c) <= m /\ Cardinality(p \cup d) <= m
        /\ Cardinality(c) <= m /\ Cardinality(d) <= m
    <2>1. /\ p \cup c \in SUBSET (1..m) /\ p \cup d \in SUBSET (1..m)
          /\ c \in SUBSET (1..m) /\ d \in SUBSET (1..m)
      OBVIOUS
    <2> HIDE DEF p, c, d
    <2> QED
      BY <1>1, <2>1, FS_Subset
  <1>7. /\ Produced(m) = Cardinality(p \cup c) /\ Yield(m) = Cardinality(p \cup d)
        /\ Charged(m) = Cardinality(c) /\ Discharged(m) = Cardinality(d)
    <2>1. /\ {i \in 1..m : day[i] \in {"produce", "charge"}} = p \cup c
          /\ {i \in 1..m : day[i] \in {"produce", "discharge"}} = p \cup d
      OBVIOUS
    <2> QED
      BY <2>1 DEF Produced, Yield, Charged, Discharged, Count
  <1> HIDE DEF p, c, d
  <1>8. /\ Cardinality(p \cup c) = Cardinality(p) + Cardinality(c)
        /\ Cardinality(p \cup d) = Cardinality(p) + Cardinality(d)
    BY <1>3, <1>4, <1>5
  <1>9. Yield(m) - Discharged(m) + Charged(m) = Produced(m)
    BY <1>5, <1>7, <1>8
  <1> QED
    BY <1>5, <1>6, <1>7, <1>9

(* A sum of an unsigned type, at most once too large or too small. *)
LEMMA Wrapped ==
  ASSUME NEW n \in Nat \ {0}, NEW x \in Int, -n < x, x < n
  PROVE  x % n = IF x < 0 THEN x + n ELSE x
  OBVIOUS

(* Moments, and the sum of two of them, are less than a counter can hold.  *)
LEMMA MomentsFit ==
  ASSUME NEW y \in Moments, NEW b \in Moments
  PROVE  y \in Nat /\ b \in Nat /\ y + b < Modulus /\ Modulus \in Nat \ {0}
  <1>1. PICK d \in Days : y \in 0..Len(d)
    BY DEF Moments
  <1>2. PICK e \in Days : b \in 0..Len(e)
    BY DEF Moments
  <1>3. Len(d) \in Nat /\ Len(e) \in Nat /\ 2 * Len(d) < Modulus /\ 2 * Len(e) < Modulus
    BY MomentsAre, ModulusAssumption
  <1> QED
    BY <1>1, <1>2, <1>3, ModulusAssumption

(* The daily energy of the panels that is logged, for every course of the  *)
(* day and every failed poll: what they have produced, less what the yield *)
(* has moved between the two polls, wrapped exactly when that is below 0;  *)
(* and what they had produced at the inverter's poll when the battery has  *)
(* been idle in between (huawei_modbus_converter.c:168).                   *)
THEOREM DailyEnergyIsLogged == Spec => []DailyPvLogged
  <1>1. ASSUME IInv, CountersHeld PROVE DailyPvLogged
    <2> DEFINE y == got.counter[32114]
               b == got.counter[37786]
               value == Produced(b) - (Yield(b) - Yield(y))
    <2> SUFFICES ASSUME Logged, \A c \in Counters : got.counter[c] \in Moments
                 PROVE  /\ DailyPv = IF value < 0 THEN value + Modulus ELSE value
                        /\ Charged(b) = Charged(y) /\ Discharged(b) = Discharged(y)
                             => DailyPv = Produced(y)
      BY DEF DailyPvLogged
    <2>1. got.at = 35
      BY PlanIs DEF Logged, Done
    <2>2. got.counter[37784] = b
      BY <1>1, <2>1 DEF CountersHeld, Logged
    <2>3. y \in Moments /\ b \in Moments
      BY DEF Counters
    <2>4. DailyPv = (Yield(y) - Discharged(b) + Charged(b)) % Modulus
      BY <2>2, <2>3 DEF DailyPv, Shown
    <2>5. y \in Nat /\ b \in Nat /\ y + b < Modulus /\ Modulus \in Nat \ {0}
      BY <2>3, MomentsFit
    <2>6. /\ Yield(y) \in Nat /\ Produced(y) \in Nat /\ Charged(y) \in Nat
          /\ Discharged(y) \in Nat /\ Yield(y) <= y
          /\ Yield(y) - Discharged(y) + Charged(y) = Produced(y)
      BY <2>5, Balance
    <2>7. /\ Yield(b) \in Nat /\ Produced(b) \in Nat /\ Charged(b) \in Nat
          /\ Discharged(b) \in Nat /\ Charged(b) <= b /\ Discharged(b) <= b
          /\ Yield(b) - Discharged(b) + Charged(b) = Produced(b)
      BY <2>5, Balance
    <2> HIDE DEF y, b
    <2>8. Yield(y) - Discharged(b) + Charged(b) = value
      BY <2>6, <2>7
    <2>9. value \in Int /\ -Modulus < value /\ value < Modulus
      BY <2>5, <2>6, <2>7
    <2> HIDE DEF value
    <2>10. DailyPv = IF value < 0 THEN value + Modulus ELSE value
      <3>1. value % Modulus = IF value < 0 THEN value + Modulus ELSE value
        BY <2>5, <2>9, Wrapped
      <3> QED
        BY <2>4, <2>8, <3>1
    <2>11. ASSUME Charged(b) = Charged(y), Discharged(b) = Discharged(y)
           PROVE  DailyPv = Produced(y)
      <3>1. value = Produced(y)
        BY <2>6, <2>8, <2>11
      <3> QED
        BY <2>6, <2>10, <3>1
    <2> QED
      BY <2>10, <2>11
  <1>2. Spec => []CountersHeld
    BY Inductive, InitCounters, NextCounters, PTL DEF Spec
  <1> QED
    BY <1>1, <1>2, Inductive, PTL

-----------------------------------------------------------------------------
(* The phases shown are those of one look-up of the meter's block. *)
PhasesSoFar == \E value \in Value : got.phases = Phases(value)

(* The register of a field, counted from the end of the block, is that of  *)
(* the last place in the layout that has its name.                         *)
LEMMA LastIs ==
  ASSUME NEW name, NEW k \in 1..37, EmLayout[k] = name,
         \A i \in 1..37 : i > k => EmLayout[i] # name
  PROVE  EmRegister(name) = 37138 - k
  <1> DEFINE I == {i \in 1..37 : EmLayout[i] = name}
  <1>1. Len(EmLayout) = 37
    BY DEF EmLayout
  <1>2. k \in I /\ \A i \in I : i \in Int /\ k >= i
    OBVIOUS
  <1>3. I # {} /\ Max(I) = k
    <2> HIDE DEF I
    <2>1. \A x \in I : (\A y \in I : x >= y) => x = k
      BY <1>2
    <2> QED
      BY <1>2, <2>1 DEF Max
  <1>4. SelectLastInSeq(EmLayout, LAMBDA field : field = name) = k
    BY <1>1, <1>3 DEF SelectLastInSeq
  <1> QED
    BY <1>1, <1>4 DEF EmRegister

(* The registers of current, power and voltage of each phase. *)
LEMMA RegistersAre ==
  /\ EmRegister("current_l1") = 37107 /\ EmRegister("current_l2") = 37109
  /\ EmRegister("current_l3") = 37111
  /\ EmRegister("power_l1") = 37132 /\ EmRegister("power_l2") = 37134
  /\ EmRegister("power_l3") = 37136
  /\ EmRegister("voltage_l1") = 37101 /\ EmRegister("voltage_l2") = 37103
  <1>1. EmRegister("current_l1") = 37138 - 31
    <2>1. EmLayout[31] = "current_l1" /\ \A i \in 1..37 : i > 31 => EmLayout[i] # "current_l1"
      BY DEF EmLayout
    <2> QED
      BY <2>1, LastIs
  <1>2. EmRegister("current_l2") = 37138 - 29
    <2>1. EmLayout[29] = "current_l2" /\ \A i \in 1..37 : i > 29 => EmLayout[i] # "current_l2"
      BY DEF EmLayout
    <2> QED
      BY <2>1, LastIs
  <1>3. EmRegister("current_l3") = 37138 - 27
    <2>1. EmLayout[27] = "current_l3" /\ \A i \in 1..37 : i > 27 => EmLayout[i] # "current_l3"
      BY DEF EmLayout
    <2> QED
      BY <2>1, LastIs
  <1>4. EmRegister("power_l1") = 37138 - 6
    <2>1. EmLayout[6] = "power_l1" /\ \A i \in 1..37 : i > 6 => EmLayout[i] # "power_l1"
      BY DEF EmLayout
    <2> QED
      BY <2>1, LastIs
  <1>5. EmRegister("power_l2") = 37138 - 4
    <2>1. EmLayout[4] = "power_l2" /\ \A i \in 1..37 : i > 4 => EmLayout[i] # "power_l2"
      BY DEF EmLayout
    <2> QED
      BY <2>1, LastIs
  <1>6. EmRegister("power_l3") = 37138 - 2
    <2>1. EmLayout[2] = "power_l3" /\ \A i \in 1..37 : i > 2 => EmLayout[i] # "power_l3"
      BY DEF EmLayout
    <2> QED
      BY <2>1, LastIs
  <1>7. EmRegister("voltage_l1") = 37138 - 37
    <2>1. EmLayout[37] = "voltage_l1" /\ \A i \in 1..37 : i > 37 => EmLayout[i] # "voltage_l1"
      BY DEF EmLayout
    <2> QED
      BY <2>1, LastIs
  <1>8. EmRegister("voltage_l2") = 37138 - 35
    <2>1. EmLayout[35] = "voltage_l2" /\ \A i \in 1..37 : i > 35 => EmLayout[i] # "voltage_l2"
      BY DEF EmLayout
    <2> QED
      BY <2>1, LastIs
  <1> QED
    BY <1>1, <1>2, <1>3, <1>4, <1>5, <1>6, <1>7, <1>8

(* What the caller's buffer held stays on all phases alike. *)
LEMMA NoPhasesAre == Garbage \in Value /\ Phases(Garbage) = NoPhases
  <1>1. ASSUME NEW q \in DOMAIN PhaseFields, NEW p \in 1..3
        PROVE  Phases(Garbage)[q][p] = Garbage
    BY DEF Phases
  <1>2. Phases(Garbage) = [q \in DOMAIN PhaseFields |-> [p \in 1..3 |-> Garbage]]
    BY <1>1 DEF Phases
  <1> QED
    BY <1>2 DEF NoPhases, Value

(* No phases at first, nor in a new snapshot. *)
LEMMA FreshPhases == got = Fresh => PhasesSoFar
  <1>1. Fresh.phases = NoPhases
    BY DEF Fresh
  <1> QED
    BY <1>1, NoPhasesAre DEF PhasesSoFar

(* The look-up of the meter's block fills them in, all at once. *)
LEMMA NextPhases == IInv /\ PhasesSoFar /\ [Next]_vars => PhasesSoFar'
  <1> SUFFICES ASSUME IInv, PhasesSoFar, [Next]_vars PROVE PhasesSoFar'
    OBVIOUS
  <1> USE DEF PhasesSoFar
  <1>1. ASSUME got'.phases = got.phases PROVE PhasesSoFar'
    BY <1>1 DEF Value, Moments
  <1>2. CASE LookUp
    <2> DEFINE r == Plan[got.at + 1]
               value == Found(r.block)
    <2>1. got'.phases = IF r.register = 37101 THEN Phases(value) ELSE got.phases
      BY <1>2 DEF LookUp
    <2>2. TypeOK /\ got.at + 1 \in 1..35
      <3>1. TypeOK /\ Len(Plan) = 35
        BY PlanIs DEF IInv
      <3>2. got.at \in 0..35 /\ got.at < 35
        BY <1>2, <3>1 DEF TypeOK, LookUp
      <3> QED
        BY <3>1, <3>2
    <2>3. value \in Value
      BY <2>2, BlocksRead, FoundIs
    <2> HIDE DEF r, value
    <2> QED
      BY <2>1, <2>3
  <1>3. CASE Finish
    BY <1>3, FreshPhases, NoPhasesAre DEF Finish, Fresh
  <1>4. CASE ~LookUp /\ ~Finish
    <2>1. got'.phases = got.phases
      <3>1. CASE HttpBegins \/ LogBegins
        <4>1. got' = [got EXCEPT !.ready = Started]
          BY <3>1 DEF HttpBegins, LogBegins
        <4> QED
          BY <4>1
      <3>2. CASE ~(HttpBegins \/ LogBegins)
        BY <1>4, <3>2 DEF Next, vars, snapVars, Tick, LogUnseen, PollHuawei, Create, Register,
                          Stop, PollOther
      <3> QED
        BY <3>1, <3>2
    <2> QED
      BY <1>1, <2>1
  <1> QED
    BY <1>2, <1>3, <1>4

(* Every phase shows the registers the document gives for it, but the      *)
(* third the voltage of the first (186), at every moment of the day and    *)
(* whether or not the block could be polled, though the block is copied    *)
(* back to front over the structure (174-197).                             *)
THEOREM PhasesAreShown == Spec => []PhasesShown
  <1>1. ASSUME PhasesSoFar PROVE PhasesShown
    <2> SUFFICES ASSUME got.phases # NoPhases, got.phases # Phases(Zeroed), NEW p \in 1..3
                 PROVE  IF p = 1 \/ ThreePhase
                        THEN /\ got.phases.current[p] = 37105 + 2 * p
                             /\ got.phases.power[p] = 37130 + 2 * p
                             /\ got.phases.voltage[p] = IF p = 3 THEN 37101 ELSE 37099 + 2 * p
                        ELSE \A q \in DOMAIN PhaseFields : got.phases[q][p] = Zeroed
      BY DEF PhasesShown
    <2>1. PICK v \in Value : got.phases = Phases(v)
      BY <1>1 DEF PhasesSoFar
    <2>2. v \notin {Zeroed, Garbage}
      BY <2>1, NoPhasesAre
    <2>3. \A q \in DOMAIN PhaseFields :
            got.phases[q][p] = IF p = 1 \/ ThreePhase THEN EmRegister(PhaseFields[q][p]) ELSE Zeroed
      BY <2>1, <2>2 DEF Phases
    <2>4. CASE p = 1 \/ ThreePhase
      <3>1. /\ got.phases.current[p] = EmRegister(PhaseFields.current[p])
            /\ got.phases.power[p] = EmRegister(PhaseFields.power[p])
            /\ got.phases.voltage[p] = EmRegister(PhaseFields.voltage[p])
        BY <2>3, <2>4 DEF PhaseFields
      <3>2. p = 1 \/ p = 2 \/ p = 3
        OBVIOUS
      <3> QED
        BY <2>4, <3>1, <3>2, RegistersAre DEF PhaseFields
    <2>5. CASE ~(p = 1 \/ ThreePhase)
      BY <2>3, <2>5
    <2> QED
      BY <2>4, <2>5
  <1>2. Init => PhasesSoFar
    BY FreshPhases DEF Init
  <1>3. Spec => []PhasesSoFar
    BY <1>2, Inductive, NextPhases, PTL DEF Spec
  <1> QED
    BY <1>1, <1>3, PTL

=============================================================================
