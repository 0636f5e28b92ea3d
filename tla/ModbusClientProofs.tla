-------------------------- MODULE ModbusClientProofs --------------------------
(***************************************************************************)
(* The polling cycle of a client, for every register table: where the      *)
(* answers lie in the stream of bytes, and that a device in step with the  *)
(* client is never misunderstood.                                          *)
(***************************************************************************)
EXTENDS ModbusClient, WellFoundedInduction, SequenceTheorems, TLAPS

(* The last register a request was sent for in this cycle. *)
Sent == IF pc = "send" THEN reg - 1 ELSE reg

(* The answers lie one behind the other; the first may have lost its        *)
(* beginning.                                                              *)
InSocket == [reg : Regs, exc : BOOLEAN, upto : Nat \ {0}]
Placed(s) ==
  /\ s \in Seq(InSocket)
  /\ s # <<>> => s[1].upto <= Size(s[1])
  /\ \A i \in 2..Len(s) : s[i].upto = s[i - 1].upto + Size(s[i])

(* What the device has not dealt with are the last requests, and what it   *)
(* answered are earlier ones, in their order.                              *)
InOrder ==
  /\ pc = "connect" => conn = "closed"
  /\ conn = "closed" => stream = <<>>
  /\ conn # "open" => asked = <<>>
  /\ \A i \in 1..Len(asked) : asked[i] = Sent - Len(asked) + i
  /\ \A i \in 1..Len(stream) : stream[i].reg <= Sent - Len(asked)
  /\ \A i, j \in 1..Len(stream) : i < j => stream[i].reg < stream[j].reg

(* While an answer is waited for, all that is to come belongs to the last  *)
(* requests, as many as the client has seen the device behind.             *)
Recent ==
  /\ behind <= reg
  /\ pc = "recv" =>
       /\ Len(asked) <= behind
       /\ \A i \in 1..Len(stream) : reg < stream[i].reg + behind

IInv == TypeOK /\ InOrder /\ Recent

-----------------------------------------------------------------------------
(* The table and the sizes of answers. *)
LEMMA Sizes ==
  /\ Regs = 1..Len(Quantity) /\ Len(Quantity) \in Nat \ {0} /\ Regs \subseteq Nat \ {0}
  /\ \A r \in Regs : Quantity[r] \in Nat \ {0}
  /\ MinLength \in Nat \ {0} /\ BufSize \in Nat
  /\ \A r \in Regs, exc \in BOOLEAN : Length(r, exc) \in Nat \ {0}
  /\ \A a \in InSocket : Size(a) \in Nat \ {0} /\ Size(a) = Length(a.reg, a.exc)
  <1>1. Regs = 1..Len(Quantity) /\ Len(Quantity) \in Nat \ {0}
    BY TableAssumption DEF Regs
  <1>2. \A r \in Regs : Quantity[r] \in Nat \ {0}
    BY TableAssumption, <1>1
  <1>3. MinLength \in Nat \ {0} /\ BufSize \in Nat
    BY SizesAssumption
  <1>4. \A r \in Regs, exc \in BOOLEAN : Length(r, exc) \in Nat \ {0}
    <2> SUFFICES ASSUME NEW r \in Regs, NEW exc \in BOOLEAN
                 PROVE  Length(r, exc) \in Nat \ {0}
      OBVIOUS
    <2>1. MinLength + 2 * Quantity[r] \in Nat \ {0}
      BY <1>2, <1>3
    <2> QED
      BY <2>1, <1>3 DEF Length
  <1>5. \A a \in InSocket : a.reg \in Regs /\ a.exc \in BOOLEAN
    BY DEF InSocket
  <1>6. Regs \subseteq Nat \ {0}
    BY <1>1
  <1>7. \A a \in InSocket : Size(a) \in Nat \ {0} /\ Size(a) = Length(a.reg, a.exc)
    BY <1>4, <1>5 DEF Size
  <1> QED
    BY <1>1, <1>2, <1>3, <1>4, <1>6, <1>7

(* The type invariant, with the stream apart. *)
Plain ==
  /\ pc \in {"connect", "send", "recv"}
  /\ reg \in Regs
  /\ conn \in {"closed", "open", "fin", "late", "error", "reset"}
  /\ asked \in Seq(Regs)
  /\ saved \in [for : Regs, of : Regs \cup {Never, Mixed}]
  /\ behind \in Nat /\ cut \in BOOLEAN
  /\ alive \in BOOLEAN

LEMMA Types == TypeOK <=> Plain /\ Placed(stream)
  BY DEF TypeOK, Plain, Placed, InSocket

LEMMA TypesNext == TypeOK' <=> Plain' /\ Placed(stream')
  BY DEF TypeOK, Plain, Placed, InSocket

(* Of a set of numbers one is the least. *)
LEMMA Least ==
  ASSUME NEW S \in SUBSET Nat, S # {}
  PROVE  \E x \in S : \A y \in S : x <= y
  <1>1. PICK x \in S : \A y \in S : ~(<<y, x>> \in OpToRel(<, Nat))
    BY WFMin, NatLessThanWellFounded
  <1>2. \A y \in S : x <= y
    <2> SUFFICES ASSUME NEW y \in S, y < x PROVE FALSE
      OBVIOUS
    <2>1. <<y, x>> \in Nat \X Nat /\ <<y, x>>[1] < <<y, x>>[2]
      OBVIOUS
    <2>2. <<y, x>> \in {ss \in Nat \X Nat : ss[1] < ss[2]}
      BY <2>1
    <2>3. <<y, x>> \in OpToRel(<, Nat)
      BY <2>2 DEF OpToRel
    <2> QED
      BY <1>1, <2>3
  <1> QED
    BY <1>2

(* A recv of n bytes uses up the answers that end within them. *)
LEMMA UsedUpIs ==
  ASSUME Placed(stream), NEW n \in Nat
  PROVE  /\ UsedUp(n) \in 0..Len(stream)
         /\ \A i \in 1..UsedUp(n) : stream[i].upto <= n
         /\ \A i \in (UsedUp(n) + 1)..Len(stream) : stream[i].upto > n
  <1> DEFINE L == Len(stream)
             Beyond == {i \in 1..L : stream[i].upto > n}
             Good(k) == /\ \A i \in 1..k : stream[i].upto <= n
                        /\ k < L => stream[k + 1].upto > n
  <1>1. L \in Nat /\ \A i \in 1..L : stream[i] \in InSocket
    BY DEF Placed
  <1>2. \A i \in 1..L : stream[i].upto \in Nat
    BY <1>1 DEF InSocket
  <1>3. \E k \in 0..L : Good(k)
    <2>1. CASE Beyond = {}
      <3>1. \A i \in 1..L : stream[i].upto <= n
        BY <2>1, <1>2
      <3>2. L \in 0..L /\ ~(L < L)
        BY <1>1
      <3> QED
        BY <3>1, <3>2
    <2>2. CASE Beyond # {}
      <3>1. Beyond \in SUBSET Nat
        OBVIOUS
      <3>2. PICK m \in Beyond : \A y \in Beyond : m <= y
        BY <2>2, <3>1, Least
      <3>3. m \in 1..L /\ stream[m].upto > n
        OBVIOUS
      <3>4. \A i \in 1..(m - 1) : i \in 1..L /\ ~(m <= i)
        BY <1>1, <3>3
      <3>5. \A i \in 1..(m - 1) : stream[i].upto <= n
        BY <3>2, <3>4, <1>2
      <3>6. m - 1 \in 0..L /\ (m - 1) + 1 = m
        BY <1>1, <3>3
      <3>7. Good(m - 1)
        BY <3>3, <3>5, <3>6
      <3> QED
        BY <3>6, <3>7
    <2> QED
      BY <2>1, <2>2
  <1>4. UsedUp(n) \in 0..L /\ Good(UsedUp(n))
    <2>1. UsedUp(n) = CHOOSE k \in 0..L : Good(k)
      BY DEF UsedUp
    <2> HIDE DEF Good
    <2> QED
      BY <2>1, <1>3
  <1>5. \A i \in (UsedUp(n) + 1)..L : stream[i].upto > n
    <2> DEFINE k == UsedUp(n)
               Below == {i \in (k + 1)..L : stream[i].upto <= n}
    <2>1. k \in 0..L /\ Good(k)
      BY <1>4
    <2> HIDE DEF k
    <2>2. \A i \in (k + 1)..L : i \in 1..L
      BY <2>1, <1>1
    <2> SUFFICES ASSUME Below # {} PROVE FALSE
      BY <2>2, <1>2 DEF k
    <2>3. Below \in SUBSET Nat
      BY <2>1, <1>1
    <2>4. PICK m \in Below : \A y \in Below : m <= y
      BY <2>3, Least
    <2>5. m \in (k + 1)..L /\ stream[m].upto <= n
      OBVIOUS
    <2>6. m # k + 1
      <3>1. k + 1 <= L => stream[k + 1].upto > n
        BY <2>1, <1>1
      <3>2. k + 1 \in 1..L => stream[k + 1].upto \in Nat
        BY <1>2
      <3> QED
        BY <2>5, <3>1, <3>2, <2>1, <1>1
    <2>7. m - 1 \in (k + 1)..L /\ m \in 2..L /\ ~(m <= m - 1)
      BY <2>5, <2>6, <2>1, <1>1
    <2>8. stream[m - 1].upto > n
      BY <2>4, <2>7, <2>2, <1>2
    <2>9. stream[m].upto = stream[m - 1].upto + Size(stream[m])
      BY <2>7 DEF Placed
    <2>10. Size(stream[m]) \in Nat \ {0}
      BY <2>5, <2>2, <1>1, Sizes
    <2> QED
      BY <2>5, <2>7, <2>8, <2>9, <2>10, <2>2, <1>2
  <1> QED
    BY <1>4, <1>5

-----------------------------------------------------------------------------
(* What a recv leaves are the answers behind those used up, each nearer to *)
(* the front by n bytes.                                                   *)
LEMMA LeftIs ==
  ASSUME Placed(stream), NEW n \in Nat
  PROVE  /\ Placed(Left(n))
         /\ Len(Left(n)) = Len(stream) - UsedUp(n) /\ Len(Left(n)) <= Len(stream)
         /\ \A i \in 1..Len(Left(n)) :
              /\ UsedUp(n) + i \in 1..Len(stream)
              /\ Left(n)[i].reg = stream[UsedUp(n) + i].reg
  <1> DEFINE k == UsedUp(n)
             L == Len(stream)
             s == Left(n)
  <1>1. L \in Nat /\ k \in 0..L /\ L - k \in Nat /\ L - k <= L
    <2>1. L \in Nat
      BY DEF Placed
    <2>2. k \in 0..L
      BY UsedUpIs
    <2> HIDE DEF k, L
    <2> QED
      BY <2>1, <2>2
  <1>2. s = [i \in 1..(L - k) |-> [stream[k + i] EXCEPT !.upto = @ - n]]
    BY DEF Left
  <1>3. \A i \in (k + 1)..L : stream[i].upto > n
    BY UsedUpIs
  <1>4. \A i \in 1..k : stream[i].upto <= n
    BY UsedUpIs
  <1>5. \A i \in 1..L : stream[i] \in InSocket
    BY DEF Placed
  <1>6. \A i \in 1..L : stream[i].upto \in Nat /\ Size(stream[i]) \in Nat
    BY <1>5, Sizes DEF InSocket
  <1> HIDE DEF k, s
  <1>7. \A i \in 1..(L - k) : k + i \in (k + 1)..L /\ k + i \in 1..L
    BY <1>1
  <1>8. \A i \in 1..(L - k) : /\ s[i] \in InSocket
                              /\ s[i].reg = stream[k + i].reg /\ s[i].exc = stream[k + i].exc
                              /\ s[i].upto = stream[k + i].upto - n
    <2> SUFFICES ASSUME NEW i \in 1..(L - k)
                 PROVE  /\ s[i] \in InSocket
                        /\ s[i].reg = stream[k + i].reg /\ s[i].exc = stream[k + i].exc
                        /\ s[i].upto = stream[k + i].upto - n
      OBVIOUS
    <2> DEFINE a == stream[k + i]
    <2>1. a \in InSocket /\ a.upto > n /\ a.upto \in Nat
      BY <1>3, <1>5, <1>6, <1>7
    <2>2. a.upto - n \in Nat \ {0}
      BY <2>1
    <2>3. s[i] = [a EXCEPT !.upto = @ - n]
      BY <1>2
    <2> HIDE DEF a
    <2>4. s[i] = [a EXCEPT !.upto = a.upto - n]
      BY <2>3
    <2>5. a \in [reg : Regs, exc : BOOLEAN, upto : Nat \ {0}]
      BY <2>1 DEF InSocket
    <2>6. [a EXCEPT !.upto = a.upto - n] \in [reg : Regs, exc : BOOLEAN, upto : Nat \ {0}]
      BY <2>2, <2>5
    <2>7. /\ s[i].reg = a.reg /\ s[i].exc = a.exc /\ s[i].upto = a.upto - n
      BY <2>4, <2>5
    <2>8. s[i] \in InSocket
      BY <2>4, <2>6 DEF InSocket
    <2> QED
      BY <2>7, <2>8 DEF a
  <1>9. s \in Seq(InSocket) /\ Len(s) = L - k
    <2>1. s \in [1..(L - k) -> InSocket]
      BY <1>2, <1>8
    <2> QED
      BY <2>1, <1>1, ElementOfSeq, IsASeq, LenProperties
  <1>10. \A i \in 1..(L - k) : Size(s[i]) = Size(stream[k + i])
    BY <1>8 DEF Size
  <1>11. s # <<>> => s[1].upto <= Size(s[1])
    <2> SUFFICES ASSUME s # <<>> PROVE s[1].upto <= Size(s[1])
      OBVIOUS
    <2>1. 1 \in 1..(L - k) /\ k + 1 \in 1..L
      BY <1>1, <1>7, <1>9, EmptySeq
    <2>2. CASE k = 0
      <3>1. stream # <<>> /\ k + 1 = 1
        BY <2>1, <2>2, <1>1
      <3>2. stream[1].upto <= Size(stream[1])
        BY <3>1 DEF Placed
      <3> QED
        BY <2>1, <3>1, <3>2, <1>6, <1>8, <1>10
    <2>3. CASE k # 0
      <3>1. k + 1 \in 2..L /\ (k + 1) - 1 = k /\ k \in 1..k /\ k \in 1..L
        BY <2>1, <2>3, <1>1
      <3>2. stream[k + 1].upto = stream[k].upto + Size(stream[k + 1])
        BY <3>1 DEF Placed
      <3>3. stream[k].upto <= n
        BY <3>1, <1>4
      <3>4. stream[k + 1].upto - n <= Size(stream[k + 1])
        BY <3>1, <3>2, <3>3, <2>1, <1>6
      <3> QED
        BY <2>1, <3>4, <1>8, <1>10
    <2> QED
      BY <2>2, <2>3
  <1>12. \A i \in 2..Len(s) : s[i].upto = s[i - 1].upto + Size(s[i])
    <2> SUFFICES ASSUME NEW i \in 2..(L - k) PROVE s[i].upto = s[i - 1].upto + Size(s[i])
      BY <1>9
    <2>1. /\ i \in 1..(L - k) /\ i - 1 \in 1..(L - k)
          /\ k + i \in 2..L /\ (k + i) - 1 = k + (i - 1) /\ k + i \in 1..L /\ k + (i - 1) \in 1..L
      BY <1>1
    <2>2. stream[k + i].upto = stream[k + (i - 1)].upto + Size(stream[k + i])
      BY <2>1 DEF Placed
    <2>3. /\ s[i].upto = stream[k + i].upto - n
          /\ s[i - 1].upto = stream[k + (i - 1)].upto - n
          /\ Size(s[i]) = Size(stream[k + i])
      BY <2>1, <1>8, <1>10
    <2>4. /\ stream[k + i].upto \in Nat /\ stream[k + (i - 1)].upto \in Nat
          /\ Size(stream[k + i]) \in Nat
      BY <2>1, <1>6
    <2> QED
      BY <2>2, <2>3, <2>4
  <1>13. Placed(s)
    BY <1>9, <1>11, <1>12 DEF Placed
  <1> QED
    BY <1>1, <1>7, <1>8, <1>9, <1>13 DEF k, s

(* An answer is appended behind what is there. *)
LEMMA ThereIs ==
  ASSUME Placed(stream)
  PROVE  There \in Nat /\ (stream # <<>> => There = stream[Len(stream)].upto)
  <1>1. CASE stream = <<>>
    BY <1>1 DEF There
  <1>2. CASE stream # <<>>
    <2>1. Len(stream) \in 1..Len(stream) /\ stream[Len(stream)] \in InSocket
      BY <1>2, EmptySeq DEF Placed
    <2>2. There = stream[Len(stream)].upto
      BY <1>2 DEF There, Last
    <2> QED
      BY <2>1, <2>2 DEF InSocket
  <1> QED
    BY <1>1, <1>2

LEMMA AppendPlaced ==
  ASSUME Placed(stream), NEW r \in Regs, NEW exc \in BOOLEAN
  PROVE  Placed(Append(stream, [reg |-> r, exc |-> exc, upto |-> There + Length(r, exc)]))
  <1> DEFINE a == [reg |-> r, exc |-> exc, upto |-> There + Length(r, exc)]
             s == Append(stream, a)
             L == Len(stream)
  <1>1. There \in Nat /\ (stream # <<>> => There = stream[L].upto) /\ Length(r, exc) \in Nat \ {0}
    BY ThereIs, Sizes
  <1>2. a \in InSocket /\ a.upto = There + Length(r, exc) /\ Size(a) = Length(r, exc)
    <2>1. There + Length(r, exc) \in Nat \ {0}
      BY <1>1
    <2> QED
      BY <2>1 DEF InSocket, Size
  <1> HIDE DEF a
  <1>3. L \in Nat /\ \A i \in 1..L : stream[i] \in InSocket
    BY DEF Placed
  <1>4. /\ s \in Seq(InSocket) /\ Len(s) = L + 1
        /\ \A i \in 1..L : s[i] = stream[i]
        /\ s[L + 1] = a
    <2>1. stream \in Seq(InSocket)
      BY DEF Placed
    <2> QED
      BY <2>1, <1>2, AppendProperties
  <1> HIDE DEF s
  <1>5. s[1].upto <= Size(s[1])
    <2>1. CASE L = 0
      <3>1. stream = <<>> /\ There = 0
        BY <2>1, EmptySeq DEF Placed, There
      <3> QED
        BY <2>1, <3>1, <1>1, <1>2, <1>4
    <2>2. CASE L # 0
      <3>1. 1 \in 1..L /\ stream # <<>>
        BY <2>2, <1>3, EmptySeq
      <3> QED
        BY <3>1, <1>4 DEF Placed
    <2> QED
      BY <2>1, <2>2
  <1>6. \A i \in 2..(L + 1) : s[i].upto = s[i - 1].upto + Size(s[i])
    <2> SUFFICES ASSUME NEW i \in 2..(L + 1) PROVE s[i].upto = s[i - 1].upto + Size(s[i])
      OBVIOUS
    <2>1. i - 1 \in 1..L /\ s[i - 1] = stream[i - 1]
      BY <1>3, <1>4
    <2>2. CASE i = L + 1
      <3>1. i - 1 = L /\ stream # <<>>
        BY <2>1, <2>2, <1>3, EmptySeq
      <3> QED
        BY <2>1, <2>2, <3>1, <1>1, <1>2, <1>4
    <2>3. CASE i # L + 1
      <3>1. i \in 2..L /\ i \in 1..L
        BY <2>3, <1>3
      <3> QED
        BY <2>1, <3>1, <1>4 DEF Placed
    <2> QED
      BY <2>2, <2>3
  <1>7. Placed(s)
    BY <1>4, <1>5, <1>6 DEF Placed
  <1> QED
    BY <1>7 DEF s, a

-----------------------------------------------------------------------------
(* A cycle goes on with the next register and what is left in the socket,  *)
(* which keeps the order of the answers, or it ends.                       *)
Ordered(s) ==
  /\ Placed(s) /\ Len(s) <= Len(stream)
  /\ \A i \in 1..Len(s) : s[i].reg <= Sent - Len(asked)
  /\ \A i, j \in 1..Len(s) : i < j => s[i].reg < s[j].reg

LEMMA StreamOrdered == ASSUME IInv PROVE Ordered(stream)
  BY Types DEF IInv, InOrder, Ordered, Placed

LEMMA LeftOrdered ==
  ASSUME IInv, NEW n \in Nat
  PROVE  Ordered(Left(n))
  <1> DEFINE k == UsedUp(n)
             s == Left(n)
  <1>1. Placed(stream)
    BY Types DEF IInv
  <1>2. /\ Placed(s) /\ Len(s) <= Len(stream)
        /\ \A i \in 1..Len(s) : k + i \in 1..Len(stream) /\ s[i].reg = stream[k + i].reg
    BY <1>1, LeftIs
  <1>3. k \in Nat /\ Len(s) \in Nat /\ Len(stream) \in Nat
    <2>1. Len(stream) \in Nat /\ Len(s) \in Nat
      BY <1>1, <1>2 DEF Placed
    <2>2. k \in 0..Len(stream)
      BY <1>1, UsedUpIs
    <2> QED
      BY <2>1, <2>2
  <1> HIDE DEF k, s
  <1>4. \A i \in 1..Len(s) : s[i].reg <= Sent - Len(asked)
    BY <1>2 DEF IInv, InOrder
  <1>5. ASSUME NEW i \in 1..Len(s), NEW j \in 1..Len(s), i < j
        PROVE  s[i].reg < s[j].reg
    <2>1. k + i \in 1..Len(stream) /\ k + j \in 1..Len(stream) /\ k + i < k + j
      BY <1>2, <1>3, <1>5
    <2> QED
      BY <2>1, <1>2 DEF IInv, InOrder
  <1> QED
    BY <1>2, <1>4, <1>5 DEF Ordered, s

(* What the conjuncts about numbers say of, in one place. *)
LEMMA Numbers ==
  ASSUME IInv
  PROVE  /\ reg \in Nat \ {0} /\ reg \in Regs /\ Sent \in Nat /\ behind \in Nat
         /\ Len(asked) \in Nat /\ Len(stream) \in Nat
         /\ asked \in Seq(Regs) /\ stream \in Seq(InSocket)
         /\ \A i \in 1..Len(stream) : stream[i] \in InSocket /\ stream[i].reg \in Nat \ {0}
         /\ Sent = IF pc = "send" THEN reg - 1 ELSE reg
  <1>1. Plain /\ Placed(stream)
    BY Types DEF IInv
  <1>2. reg \in Regs /\ behind \in Nat /\ asked \in Seq(Regs) /\ stream \in Seq(InSocket)
    BY <1>1 DEF Plain, Placed
  <1>3. reg \in Nat \ {0}
    BY <1>2, Sizes
  <1>4. Sent \in Nat
    BY <1>3 DEF Sent
  <1>5. Len(stream) \in Nat /\ Len(asked) \in Nat
    BY <1>2
  <1>6. \A i \in 1..Len(stream) : stream[i] \in InSocket
    BY <1>2
  <1>7. \A a \in InSocket : a.reg \in Regs
    BY DEF InSocket
  <1>8. \A r \in Regs : r \in Nat \ {0}
    BY Sizes
  <1>9. \A i \in 1..Len(stream) : stream[i] \in InSocket /\ stream[i].reg \in Nat \ {0}
    BY <1>6, <1>7, <1>8
  <1> QED
    BY <1>2, <1>3, <1>4, <1>5, <1>9, Zenon DEF Sent

(* The same connection goes on, or one whose abort has been reported; only *)
(* after that report nothing has been asked for the present register.      *)
LEMMA NextKeeps ==
  ASSUME IInv, NEW s, Ordered(s), NEW found, NextRegister(s, found),
         found = conn \/ (found = "reset" /\ conn # "open"),
         pc = "recv" \/ (pc = "send" /\ conn # "open"),
         saved' \in [for : Regs, of : Regs \cup {Never, Mixed}], cut' \in BOOLEAN,
         UNCHANGED <<behind, alive>>
  PROVE  IInv'
  <1>1. /\ reg \in Regs /\ reg \in Nat \ {0} /\ Regs = 1..Len(Quantity)
        /\ Len(Quantity) \in Nat /\ behind \in Nat /\ Sent \in Nat
        /\ Len(asked) \in Nat /\ Len(stream) \in Nat /\ asked \in Seq(Regs)
    BY Numbers, Sizes
  <1>2. Plain /\ Placed(s) /\ InOrder /\ behind <= reg
    BY Types DEF IInv, Ordered, Recent
  <1>3. Len(s) \in Nat /\ \A i \in 1..Len(s) : s[i].reg \in Nat
    <2>1. \A a \in InSocket : a.reg \in Nat
      BY Sizes DEF InSocket
    <2> QED
      BY <1>2, <2>1 DEF Placed
  <1>4. /\ \A i \in 1..Len(s) : s[i].reg <= reg - Len(asked)
        /\ \A i \in 1..Len(asked) : asked[i] = reg - Len(asked) + i
    <2>1. CASE pc = "recv"
      <3>1. Sent = reg
        BY <2>1 DEF Sent
      <3> QED
        BY <1>2, <3>1 DEF InOrder, Ordered
    <2>2. CASE pc = "send" /\ conn # "open"
      <3>1. asked = <<>> /\ Len(asked) = 0 /\ Sent = reg - 1
        BY <1>2, <2>2 DEF InOrder, Sent
      <3>2. \A i \in 1..Len(s) : s[i].reg <= (reg - 1) - 0
        BY <3>1 DEF Ordered
      <3>3. \A i \in 1..Len(s) : s[i].reg <= reg - 0
        BY <1>1, <1>3, <3>2
      <3> QED
        BY <3>1, <3>3
    <2> QED
      BY <2>1, <2>2
  <1>5. CASE MoreRegisters
    <2>1. /\ reg' = reg + 1 /\ pc' = "send" /\ stream' = s
          /\ conn' = found /\ asked' = asked
      BY <1>5 DEF NextRegister
    <2>2. reg + 1 \in Regs /\ Sent' = reg
      BY <1>1, <1>5, <2>1 DEF MoreRegisters, Sent
    <2>3. Plain'
      BY <1>2, <2>1, <2>2 DEF Plain
    <2>4. TypeOK'
      BY <1>2, <2>1, <2>3, TypesNext
    <2>5. conn # "closed" \/ stream = <<>>
      BY <1>2 DEF InOrder
    <2>6. found = "closed" => s = <<>>
      <3>1. found = "closed" => Len(stream) = 0
        BY <2>5
      <3>2. Len(s) <= Len(stream)
        BY DEF Ordered
      <3> QED
        BY <3>1, <3>2, <1>2, <1>3, EmptySeq DEF Placed
    <2>7. found # "open" => asked = <<>>
      BY <1>2 DEF InOrder
    <2>8. \A i, j \in 1..Len(s) : i < j => s[i].reg < s[j].reg
      BY DEF Ordered
    <2>9. InOrder'
      BY <2>1, <2>2, <2>6, <2>7, <2>8, <1>4 DEF InOrder
    <2>10. Recent'
      <3>1. behind <= reg + 1
        BY <1>1, <1>2
      <3> QED
        BY <3>1, <2>1 DEF Recent
    <2> QED
      BY <2>4, <2>9, <2>10 DEF IInv
  <1>6. CASE ~MoreRegisters
    <2>1. /\ reg' = reg /\ pc' = "connect" /\ stream' = <<>>
          /\ conn' = "closed" /\ asked' = <<>>
      BY <1>6 DEF NextRegister
    <2>2. Plain'
      BY <1>2, <2>1 DEF Plain
    <2>3. Placed(<<>>)
      BY EmptySeq DEF Placed
    <2>4. TypeOK'
      BY <2>1, <2>2, <2>3, TypesNext
    <2>5. InOrder'
      BY <2>1 DEF InOrder
    <2>6. Recent'
      BY <2>1, <1>2 DEF Recent
    <2> QED
      BY <2>4, <2>5, <2>6 DEF IInv
  <1> QED
    BY <1>5, <1>6

-----------------------------------------------------------------------------
(* Every step keeps the types, the order and what is recent. *)
LEMMA InitIInv == ASSUME Init PROVE IInv
  <1>1. /\ pc = "connect" /\ reg = 1 /\ alive = TRUE /\ conn = "closed" /\ cut = FALSE
        /\ asked = <<>> /\ stream = <<>> /\ behind = 0 /\ saved = [for |-> 1, of |-> Never]
    BY DEF Init
  <1>2. 1 \in Regs
    BY Sizes
  <1>3. Plain
    BY <1>1, <1>2, EmptySeq DEF Plain
  <1>4. Placed(stream)
    BY <1>1, EmptySeq DEF Placed
  <1>5. InOrder
    BY <1>1 DEF InOrder
  <1>6. Recent
    BY <1>1 DEF Recent
  <1> QED
    BY <1>3, <1>4, <1>5, <1>6, Types DEF IInv

LEMMA ConnectIInv == ASSUME IInv, Connect PROVE IInv'
  <1>1. /\ pc = "connect" /\ conn' = "open" /\ pc' = "send" /\ reg' = 1 /\ behind' = 0
        /\ saved' = [for |-> 1, of |-> Never] /\ cut' = FALSE
        /\ asked' = asked /\ stream' = stream /\ alive' = alive
    BY DEF Connect
  <1>2. asked = <<>> /\ stream = <<>>
    BY <1>1 DEF IInv, InOrder
  <1>3. 1 \in Regs /\ Plain
    BY Sizes, Types DEF IInv
  <1>4. Plain'
    BY <1>1, <1>3 DEF Plain
  <1>5. Placed(stream')
    BY <1>1, <1>2, EmptySeq DEF Placed
  <1>6. InOrder'
    BY <1>1, <1>2 DEF InOrder
  <1>7. Recent'
    BY <1>1, <1>2 DEF Recent
  <1> QED
    BY <1>4, <1>5, <1>6, <1>7, TypesNext DEF IInv

(* What all three ways of a send have in common: it counts from the oldest *)
(* request whose answer is still to come.                                  *)
LEMMA SendCounts ==
  ASSUME IInv, Send
  PROVE  /\ pc = "send" /\ reg' = reg /\ stream' = stream /\ saved' = saved /\ cut' = cut
         /\ behind' \in Nat /\ behind <= behind' /\ behind' <= reg /\ 1 <= behind'
         /\ Sent = reg - 1
         /\ Len(asked) + 1 <= behind'
         /\ \A i \in 1..Len(stream) : reg < stream[i].reg + behind'
         /\ \A i \in 1..Len(stream) : stream[i].reg < reg
  <1>1. /\ pc = "send" /\ reg' = reg /\ stream' = stream /\ saved' = saved /\ cut' = cut
        /\ behind' = IF reg - Oldest + 1 > behind THEN reg - Oldest + 1 ELSE behind
    BY DEF Send
  <1>2. Sent = reg - 1
    BY <1>1 DEF Sent
  <1>3. /\ reg \in Nat \ {0} /\ behind \in Nat /\ Len(asked) \in Nat /\ Len(stream) \in Nat
        /\ asked \in Seq(Regs) /\ stream \in Seq(InSocket) /\ Sent \in Nat
        /\ \A i \in 1..Len(stream) : stream[i].reg \in Nat \ {0}
    BY Numbers
  <1>4. /\ \A i \in 1..Len(asked) : asked[i] = (reg - 1) - Len(asked) + i
        /\ \A i \in 1..Len(stream) : stream[i].reg <= (reg - 1) - Len(asked)
        /\ \A i, j \in 1..Len(stream) : i < j => stream[i].reg < stream[j].reg
    BY <1>2 DEF IInv, InOrder
  <1>5. behind <= reg
    BY DEF IInv, Recent
  <1>6. \A i \in 1..Len(stream) : stream[i].reg < reg
    BY <1>3, <1>4
  <1>7. /\ Oldest \in 1..reg /\ Len(asked) <= reg - Oldest
        /\ \A i \in 1..Len(stream) : Oldest <= stream[i].reg
    <2>1. CASE stream # <<>>
      <3>1. 1 \in 1..Len(stream) /\ Oldest = stream[1].reg
        BY <2>1, <1>3, EmptySeq, HeadTailProperties DEF Oldest
      <3>2. \A i \in 1..Len(stream) : stream[1].reg <= stream[i].reg
        <4> SUFFICES ASSUME NEW i \in 1..Len(stream) PROVE stream[1].reg <= stream[i].reg
          OBVIOUS
        <4>1. i = 1 \/ 1 < i
          BY <1>3
        <4>2. 1 < i => stream[1].reg < stream[i].reg
          BY <3>1, <1>4
        <4> QED
          BY <3>1, <4>1, <4>2, <1>3
      <3>3. stream[1].reg \in Nat \ {0} /\ stream[1].reg <= (reg - 1) - Len(asked)
        BY <3>1, <1>3, <1>4
      <3> QED
        BY <3>1, <3>2, <3>3, <1>3
    <2>2. CASE stream = <<>> /\ asked # <<>>
      <3>1. 1 \in 1..Len(asked) /\ Oldest = asked[1] /\ Len(stream) = 0
        BY <2>2, <1>3, EmptySeq, HeadTailProperties DEF Oldest
      <3>2. asked[1] = (reg - 1) - Len(asked) + 1 /\ asked[1] \in Regs
        BY <3>1, <1>3, <1>4
      <3>3. asked[1] \in Nat \ {0}
        BY <3>2, Sizes
      <3>4. asked[1] = reg - Len(asked) /\ asked[1] \in 1..reg
        BY <3>2, <3>3, <1>3
      <3> QED
        BY <3>1, <3>4, <1>3
    <2>3. CASE stream = <<>> /\ asked = <<>>
      <3>1. Oldest = reg /\ Len(asked) = 0 /\ Len(stream) = 0
        BY <2>3 DEF Oldest
      <3> QED
        BY <3>1, <1>3
    <2> QED
      BY <2>1, <2>2, <2>3
  <1> DEFINE open == reg - Oldest + 1
  <1>8. open \in Nat /\ 1 <= open /\ open <= reg /\ Len(asked) + 1 <= open /\ Oldest \in Nat
    BY <1>3, <1>7
  <1>9. /\ behind' \in Nat /\ open <= behind' /\ behind <= behind' /\ behind' <= reg
        /\ 1 <= behind' /\ Len(asked) + 1 <= behind'
    <2> HIDE DEF open
    <2>1. behind' = IF open > behind THEN open ELSE behind
      BY <1>1 DEF open
    <2> QED
      BY <2>1, <1>3, <1>5, <1>8
  <1>10. \A i \in 1..Len(stream) : reg < stream[i].reg + behind'
    BY <1>3, <1>7, <1>8, <1>9
  <1> HIDE DEF open
  <1> QED
    BY <1>1, <1>2, <1>6, <1>9, <1>10

LEMMA SendIInv == ASSUME IInv, Send PROVE IInv'
  <1>1. /\ pc = "send" /\ reg' = reg /\ stream' = stream /\ saved' = saved /\ cut' = cut
        /\ behind' \in Nat /\ behind <= behind' /\ behind' <= reg
        /\ Len(asked) + 1 <= behind' /\ Sent = reg - 1
        /\ \A i \in 1..Len(stream) : reg < stream[i].reg + behind'
        /\ \A i \in 1..Len(stream) : stream[i].reg < reg
    BY SendCounts
  <1>2. /\ reg \in Nat \ {0} /\ Len(asked) \in Nat /\ Len(stream) \in Nat
        /\ asked \in Seq(Regs) /\ reg \in Regs /\ stream \in Seq(InSocket)
        /\ \A j \in 1..Len(stream) : stream[j].reg \in Nat
    BY Numbers
  <1>3. Plain /\ Placed(stream) /\ InOrder
    BY Types DEF IInv
  <1>4. \A i \in 1..Len(stream) : stream[i].reg <= (reg - 1) - Len(asked)
    BY <1>1, <1>3 DEF InOrder
  <1>5. Placed(stream')
    BY <1>1, <1>3
  <1>6. CASE conn = "open" /\ asked' = Append(asked, reg) /\ pc' = "recv" /\ UNCHANGED <<conn, alive>>
    <2>1. Sent' = reg
      BY <1>1, <1>6 DEF Sent
    <2>2. /\ asked' \in Seq(Regs) /\ Len(asked') = Len(asked) + 1
          /\ \A i \in 1..Len(asked) : asked'[i] = asked[i]
          /\ asked'[Len(asked) + 1] = reg
      BY <1>2, <1>6, AppendProperties
    <2>3. Plain'
      BY <1>1, <1>3, <1>6, <2>2 DEF Plain
    <2>4. \A i \in 1..Len(asked') : asked'[i] = reg - Len(asked') + i
      <3> SUFFICES ASSUME NEW i \in 1..Len(asked') PROVE asked'[i] = reg - Len(asked') + i
        OBVIOUS
      <3>1. CASE i = Len(asked) + 1
        BY <3>1, <2>2, <1>2
      <3>2. CASE i # Len(asked) + 1
        <4>1. i \in 1..Len(asked)
          BY <3>2, <2>2, <1>2
        <4>2. asked[i] = (reg - 1) - Len(asked) + i
          BY <4>1, <1>1, <1>3 DEF InOrder
        <4>3. (reg - 1) - Len(asked) + i = reg - (Len(asked) + 1) + i
          BY <4>1, <1>2
        <4> QED
          BY <4>1, <4>2, <4>3, <2>2
      <3> QED
        BY <3>1, <3>2
    <2>5. \A i \in 1..Len(stream) : stream[i].reg <= reg - Len(asked')
      BY <1>2, <1>4, <2>2
    <2>6. conn' = "open" /\ pc' = "recv"
      BY <1>6
    <2>7. InOrder'
      BY <1>1, <1>3, <2>1, <2>4, <2>5, <2>6 DEF InOrder
    <2>8. Recent'
      BY <1>1, <2>2 DEF Recent
    <2> QED
      BY <1>5, <2>3, <2>7, <2>8, TypesNext DEF IInv
  <1>7. CASE conn \in {"fin", "late"} /\ conn' = "late" /\ pc' = "recv" /\ UNCHANGED <<asked, alive>>
    <2>1. Sent' = reg /\ asked = <<>> /\ asked' = <<>> /\ Len(asked) = 0
      <3>1. asked = <<>>
        BY <1>3, <1>7 DEF InOrder
      <3> QED
        BY <3>1, <1>1, <1>7 DEF Sent
    <2>2. Plain'
      BY <1>1, <1>3, <1>7 DEF Plain
    <2>3. \A i \in 1..Len(stream) : stream[i].reg <= reg - 0
      BY <1>2, <1>4, <2>1
    <2>4. InOrder'
      BY <1>1, <1>3, <1>7, <2>1, <2>3 DEF InOrder
    <2>5. Recent'
      BY <1>1, <2>1 DEF Recent
    <2> QED
      BY <1>5, <2>2, <2>4, <2>5, TypesNext DEF IInv
  <1>8. CASE conn = "reset" /\ alive' = FALSE /\ UNCHANGED <<pc, conn, asked>>
    <2>1. Sent' = reg - 1
      BY <1>1, <1>8 DEF Sent
    <2>2. Plain'
      BY <1>1, <1>3, <1>8 DEF Plain
    <2>3. InOrder'
      BY <1>1, <1>3, <1>8, <2>1 DEF InOrder
    <2>4. Recent'
      BY <1>1, <1>8 DEF Recent
    <2> QED
      BY <1>5, <2>2, <2>3, <2>4, TypesNext DEF IInv
  <1> QED
    BY <1>6, <1>7, <1>8 DEF Send

(* A recv takes a number of bytes that are there. *)
LEMMA AmountsAre ==
  ASSUME Placed(stream)
  PROVE  /\ Ends \subseteq Nat
         /\ \A n \in Amounts : n \in Nat /\ n <= There /\ n <= BufSize
  <1>1. \A i \in 1..Len(stream) : stream[i].upto \in Nat
    <2>1. \A a \in InSocket : a.upto \in Nat
      BY DEF InSocket
    <2> QED
      BY <2>1 DEF Placed
  <1>2. DOMAIN stream = 1..Len(stream)
    BY DEF Placed
  <1>3. Ends \subseteq Nat
    BY <1>1, <1>2 DEF Ends
  <1>4. Cuts \subseteq Nat /\ BufSize \in Nat
    BY CutsAssumption, Sizes
  <1> QED
    BY <1>3, <1>4 DEF Amounts

(* One recv: what it takes is checked, and the rest is left. *)
LEMMA RecvTakes ==
  ASSUME IInv, Recv
  PROVE  \E n \in Amounts, exception \in BOOLEAN :
           LET owner == IF Whole(stream[1]) /\ stream[1].upto = n
                        THEN stream[1].reg ELSE Mixed
           IN  /\ Whole(stream[1]) => exception = stream[1].exc
               /\ saved' = ReadRaw(n, exception, owner)
               /\ cut' = (cut \/ n \notin Ends \cup {BufSize})
               /\ NextRegister(Left(n), conn)
  <1>1. stream # <<>> /\ stream \in Seq(InSocket)
    BY Numbers DEF Recv
  <1>2. Head(stream) = stream[1] /\ stream[1] \in InSocket
    BY <1>1, EmptySeq, HeadTailProperties
  <1>3. stream[1].exc \in BOOLEAN
    BY <1>2 DEF InSocket
  <1>4. PICK n \in Amounts :
          /\ \E exception \in IF Whole(stream[1]) THEN {stream[1].exc} ELSE BOOLEAN :
               saved' = ReadRaw(n, exception, IF Whole(stream[1]) /\ stream[1].upto = n
                                              THEN stream[1].reg ELSE Mixed)
          /\ cut' = (cut \/ n \notin Ends \cup {BufSize})
          /\ NextRegister(Left(n), conn)
    BY <1>2 DEF Recv
  <1>5. PICK exception \in IF Whole(stream[1]) THEN {stream[1].exc} ELSE BOOLEAN :
          saved' = ReadRaw(n, exception, IF Whole(stream[1]) /\ stream[1].upto = n
                                         THEN stream[1].reg ELSE Mixed)
    BY <1>4
  <1>6. exception \in BOOLEAN /\ (Whole(stream[1]) => exception = stream[1].exc)
    BY <1>3, <1>5
  <1> QED
    BY <1>4, <1>5, <1>6

LEMMA RecvIInv == ASSUME IInv, Recv PROVE IInv'
  <1>1. PICK n \in Amounts, exception \in BOOLEAN :
           LET owner == IF Whole(stream[1]) /\ stream[1].upto = n
                        THEN stream[1].reg ELSE Mixed
           IN  /\ Whole(stream[1]) => exception = stream[1].exc
               /\ saved' = ReadRaw(n, exception, owner)
               /\ cut' = (cut \/ n \notin Ends \cup {BufSize})
               /\ NextRegister(Left(n), conn)
    BY RecvTakes
  <1>2. pc = "recv" /\ stream # <<>> /\ UNCHANGED <<behind, alive>> /\ cut' \in BOOLEAN
    BY <1>1, Types DEF Recv, IInv, Plain
  <1>3. Placed(stream) /\ n \in Nat
    BY Types, AmountsAre DEF IInv
  <1>4. stream[1].reg \in Regs
    <2>1. 1 \in 1..Len(stream)
      BY <1>2, <1>3, EmptySeq DEF Placed
    <2> QED
      BY <2>1, Numbers DEF InSocket
  <1>5. saved' \in [for : Regs, of : Regs \cup {Never, Mixed}]
    <2>1. reg \in Regs /\ saved \in [for : Regs, of : Regs \cup {Never, Mixed}]
      BY Types DEF IInv, Plain
    <2> QED
      BY <2>1, <1>1, <1>4 DEF ReadRaw
  <1>6. Ordered(Left(n)) /\ NextRegister(Left(n), conn)
    BY <1>1, <1>3, LeftOrdered
  <1> QED
    BY <1>2, <1>5, <1>6, NextKeeps

LEMMA NoneIInv == ASSUME IInv, SendFails \/ RecvTimeout \/ RecvClosed PROVE IInv'
  <1>1. saved' \in [for : Regs, of : Regs \cup {Never, Mixed}] /\ cut' \in BOOLEAN
    BY Types DEF IInv, Plain, SendFails, RecvTimeout, RecvClosed
  <1>2. CASE SendFails
    <2>1. NextRegister(stream, "reset") /\ pc = "send" /\ conn # "open" /\ UNCHANGED <<behind, alive>>
      BY <1>2 DEF SendFails
    <2> QED
      BY <1>1, <2>1, StreamOrdered, NextKeeps
  <1>3. CASE RecvTimeout
    <2>1. NextRegister(stream, conn) /\ pc = "recv" /\ UNCHANGED <<behind, alive>>
      BY <1>3 DEF RecvTimeout
    <2> QED
      BY <1>1, <2>1, StreamOrdered, NextKeeps
  <1>4. CASE RecvClosed
    <2> DEFINE found == IF conn = "error" THEN "reset" ELSE conn
    <2>1. /\ NextRegister(stream, found) /\ pc = "recv" /\ conn # "open"
          /\ UNCHANGED <<behind, alive>>
      BY <1>4 DEF RecvClosed
    <2>2. found = conn \/ (found = "reset" /\ conn # "open")
      BY <2>1
    <2> HIDE DEF found
    <2> QED
      BY <1>1, <2>1, <2>2, StreamOrdered, NextKeeps
  <1> QED
    BY <1>2, <1>3, <1>4

(* Without its first request, the rest are still the last ones. *)
LEMMA TailAsked ==
  ASSUME IInv, asked # <<>>
  PROVE  /\ Tail(asked) \in Seq(Regs) /\ Len(Tail(asked)) = Len(asked) - 1 /\ Len(asked) >= 1
         /\ Head(asked) \in Regs /\ Head(asked) = Sent - Len(Tail(asked))
         /\ \A i \in 1..Len(Tail(asked)) : Tail(asked)[i] = Sent - Len(Tail(asked)) + i
         /\ Len(Tail(asked)) \in Nat
  <1>1. asked \in Seq(Regs) /\ Len(asked) \in Nat /\ Sent \in Nat
    BY Numbers
  <1>2. Len(asked) >= 1
    BY <1>1, EmptySeq
  <1>3. /\ Tail(asked) \in Seq(Regs) /\ Len(Tail(asked)) = Len(asked) - 1
        /\ \A i \in 1..Len(Tail(asked)) : Tail(asked)[i] = asked[i + 1]
        /\ Head(asked) = asked[1] /\ Head(asked) \in Regs
    BY <1>1, HeadTailProperties
  <1>4. \A i \in 1..Len(asked) : asked[i] = Sent - Len(asked) + i
    BY DEF IInv, InOrder
  <1>5. Head(asked) = Sent - Len(Tail(asked))
    <2>1. asked[1] = Sent - Len(asked) + 1
      BY <1>1, <1>2, <1>4
    <2> QED
      BY <2>1, <1>1, <1>2, <1>3
  <1>6. \A i \in 1..Len(Tail(asked)) : Tail(asked)[i] = Sent - Len(Tail(asked)) + i
    <2> SUFFICES ASSUME NEW i \in 1..Len(Tail(asked))
                 PROVE  Tail(asked)[i] = Sent - Len(Tail(asked)) + i
      OBVIOUS
    <2>1. i + 1 \in 1..Len(asked)
      BY <1>1, <1>2, <1>3
    <2>2. Tail(asked)[i] = Sent - Len(asked) + (i + 1)
      BY <2>1, <1>3, <1>4
    <2> QED
      BY <2>1, <2>2, <1>1, <1>2, <1>3
  <1>7. Len(Tail(asked)) \in Nat
    BY <1>1, <1>2, <1>3
  <1> QED
    BY <1>2, <1>3, <1>5, <1>6, <1>7

LEMMA AnswerIInv == ASSUME IInv, Answer PROVE IInv'
  <1>1. /\ conn = "open" /\ asked # <<>> /\ asked' = Tail(asked)
        /\ UNCHANGED <<pc, reg, conn, saved, behind, cut, alive>>
    BY DEF Answer
  <1>2. PICK exc \in BOOLEAN :
          stream' = Append(stream, [reg |-> Head(asked), exc |-> exc,
                                    upto |-> There + Length(Head(asked), exc)])
    BY DEF Answer
  <1>3. Plain /\ Placed(stream) /\ InOrder /\ Recent
    BY Types DEF IInv
  <1> DEFINE L == Len(stream)
             a == [reg |-> Head(asked), exc |-> exc, upto |-> There + Length(Head(asked), exc)]
  <1>4. /\ Len(asked') \in Nat /\ Len(asked') = Len(asked) - 1
        /\ Head(asked) \in Regs /\ Head(asked) = Sent - Len(asked')
        /\ \A i \in 1..Len(asked') : asked'[i] = Sent - Len(asked') + i
        /\ asked' \in Seq(Regs)
    BY <1>1, TailAsked
  <1>5. Placed(stream')
    BY <1>2, <1>3, <1>4, AppendPlaced
  <1>6. /\ L \in Nat /\ Sent \in Nat /\ Len(asked) \in Nat /\ stream \in Seq(InSocket)
        /\ \A j \in 1..L : stream[j].reg \in Nat
    BY Numbers
  <1>7. /\ Len(stream') = L + 1 /\ \A j \in 1..L : stream'[j] = stream[j]
        /\ stream'[L + 1].reg = Sent - Len(asked')
    <2>1. a \in InSocket
      <3>1. There + Length(Head(asked), exc) \in Nat \ {0}
        <4>1. There \in Nat /\ Length(Head(asked), exc) \in Nat \ {0}
          BY <1>3, <1>4, ThereIs, Sizes
        <4> QED
          BY <4>1
      <3> QED
        BY <3>1, <1>4 DEF InSocket
    <2>2. a.reg = Head(asked)
      OBVIOUS
    <2> HIDE DEF a
    <2>3. /\ Len(stream') = L + 1 /\ \A j \in 1..L : stream'[j] = stream[j]
          /\ stream'[L + 1] = a
      <3>1. stream' = Append(stream, a)
        BY <1>2 DEF a
      <3> QED
        BY <2>1, <3>1, <1>6, AppendProperties
    <2> QED
      BY <2>2, <2>3, <1>4
  <1> HIDE DEF L
  <1>8. Sent' = Sent
    BY <1>1 DEF Sent
  <1>9. Plain'
    BY <1>1, <1>3, <1>4 DEF Plain
  <1>10. \A i \in 1..L : stream[i].reg <= Sent - Len(asked)
    BY <1>3 DEF InOrder, L
  <1>11. \A i \in 1..(L + 1) : stream'[i].reg <= Sent - Len(asked')
    <2> SUFFICES ASSUME NEW i \in 1..(L + 1) PROVE stream'[i].reg <= Sent - Len(asked')
      OBVIOUS
    <2>1. CASE i = L + 1
      BY <2>1, <1>4, <1>6, <1>7
    <2>2. CASE i # L + 1
      <3>1. i \in 1..L
        BY <2>2, <1>6
      <3>2. stream[i].reg <= Sent - Len(asked) /\ stream[i].reg \in Nat
        BY <3>1, <1>6, <1>10
      <3>3. stream[i].reg <= Sent - Len(asked')
        BY <3>2, <1>4, <1>6
      <3> QED
        BY <3>1, <3>3, <1>7
    <2> QED
      BY <2>1, <2>2
  <1>12. ASSUME NEW i \in 1..(L + 1), NEW j \in 1..(L + 1), i < j
         PROVE  stream'[i].reg < stream'[j].reg
    <2>1. i \in 1..L /\ stream'[i] = stream[i] /\ stream[i].reg \in Nat
      BY <1>6, <1>7, <1>12
    <2>2. CASE j = L + 1
      <3>1. stream[i].reg <= Sent - Len(asked)
        BY <2>1, <1>10
      <3>2. stream[i].reg < Sent - Len(asked')
        BY <2>1, <3>1, <1>4, <1>6
      <3> QED
        BY <2>1, <2>2, <3>2, <1>7
    <2>3. CASE j # L + 1
      <3>1. j \in 1..L
        BY <2>3, <1>6
      <3>2. stream[i].reg < stream[j].reg
        BY <2>1, <3>1, <1>12, <1>3 DEF InOrder, L
      <3> QED
        BY <2>1, <3>1, <3>2, <1>7
    <2> QED
      BY <2>2, <2>3
  <1>13. InOrder'
    BY <1>1, <1>3, <1>4, <1>7, <1>8, <1>11, <1>12 DEF InOrder
  <1>14. Recent'
    <2> SUFFICES ASSUME pc = "recv"
                 PROVE  /\ Len(asked') <= behind
                        /\ \A i \in 1..(L + 1) : reg < stream'[i].reg + behind
      BY <1>1, <1>3, <1>7 DEF Recent
    <2>1. Sent = reg /\ Len(asked) <= behind /\ behind \in Nat /\ reg \in Nat
      BY <1>3, Numbers DEF Sent, Recent
    <2>2. Len(asked') < behind
      BY <2>1, <1>4, <1>6
    <2>3. reg < stream'[L + 1].reg + behind
      BY <2>1, <2>2, <1>4, <1>7
    <2>4. ASSUME NEW i \in 1..(L + 1), i # L + 1 PROVE reg < stream'[i].reg + behind
      <3>1. i \in 1..L
        BY <2>4, <1>6
      <3> QED
        BY <3>1, <1>3, <1>7 DEF Recent, L
    <2> QED
      BY <2>1, <2>2, <2>3, <2>4, <1>4, <1>6
  <1> QED
    BY <1>5, <1>9, <1>13, <1>14, TypesNext DEF IInv

(* A request that is dropped, alone or with the connection, and with it,   *)
(* when that is aborted, what was on its way.                              *)
LEMMA DroppedIInv ==
  ASSUME IInv, conn = "open", conn' \in {"open", "fin", "error"},
         UNCHANGED <<pc, reg, saved, behind, cut, alive>>,
         stream' \in {stream, <<>>},
         \/ asked # <<>> /\ asked' = Tail(asked) /\ conn' = conn
         \/ asked' = <<>>
  PROVE  IInv'
  <1>1. Plain /\ Placed(stream) /\ InOrder /\ Recent
    BY Types DEF IInv
  <1>2. Sent' = Sent
    BY DEF Sent
  <1>3. Placed(stream')
    <2>1. Placed(<<>>)
      BY EmptySeq DEF Placed
    <2> QED
      BY <1>1, <2>1
  <1>4. /\ Len(asked') \in Nat /\ Len(asked') <= Len(asked) /\ asked' \in Seq(Regs)
        /\ \A i \in 1..Len(asked') : asked'[i] = Sent - Len(asked') + i
        /\ conn' # "open" => asked' = <<>>
    <2>1. CASE asked # <<>> /\ asked' = Tail(asked) /\ conn' = conn
      <3>1. /\ asked' \in Seq(Regs) /\ Len(asked') = Len(asked) - 1 /\ Len(asked') \in Nat
            /\ \A i \in 1..Len(asked') : asked'[i] = Sent - Len(asked') + i
        BY <2>1, TailAsked
      <3>2. Len(asked) \in Nat
        BY Numbers
      <3> QED
        BY <2>1, <3>1, <3>2
    <2>2. CASE asked' = <<>>
      <3>1. Len(asked) \in Nat
        BY Numbers
      <3>2. asked' \in Seq(Regs) /\ Len(asked') = 0
        BY <2>2, EmptySeq
      <3> QED
        BY <2>2, <3>1, <3>2
    <2> QED
      BY <2>1, <2>2
  <1>5. /\ Len(asked) \in Nat /\ Len(stream) \in Nat /\ Sent \in Nat /\ behind \in Nat
        /\ \A i \in 1..Len(stream) : stream[i].reg \in Nat
    BY Numbers
  <1>6. Plain'
    BY <1>1, <1>4 DEF Plain
  <1>7. \A i \in 1..Len(stream) : stream[i].reg <= Sent - Len(asked')
    <2> SUFFICES ASSUME NEW i \in 1..Len(stream) PROVE stream[i].reg <= Sent - Len(asked')
      OBVIOUS
    <2>1. stream[i].reg <= Sent - Len(asked)
      BY <1>1 DEF InOrder
    <2> QED
      BY <2>1, <1>4, <1>5
  <1>8. pc # "connect"
    BY <1>1 DEF InOrder
  <1>9. CASE stream' = stream
    <2>1. InOrder'
      BY <1>1, <1>2, <1>4, <1>7, <1>8, <1>9 DEF InOrder
    <2>2. Recent'
      <3>1. pc = "recv" => Len(asked') <= behind
        BY <1>1, <1>4, <1>5 DEF Recent
      <3> QED
        BY <1>1, <1>9, <3>1 DEF Recent
    <2> QED
      BY <1>3, <1>6, <2>1, <2>2, TypesNext DEF IInv
  <1>10. CASE stream' = <<>>
    <2>1. InOrder'
      BY <1>1, <1>2, <1>4, <1>8, <1>10 DEF InOrder
    <2>2. Recent'
      <3>1. pc = "recv" => Len(asked') <= behind
        BY <1>1, <1>4, <1>5 DEF Recent
      <3> QED
        BY <1>1, <1>10, <3>1 DEF Recent
    <2> QED
      BY <1>3, <1>6, <2>1, <2>2, TypesNext DEF IInv
  <1> QED
    BY <1>9, <1>10

LEMMA DeviceIInv == ASSUME IInv, Device PROVE IInv'
  <1>1. CASE Answer
    BY <1>1, AnswerIInv
  <1>2. CASE Ignore
    <2>1. /\ conn = "open" /\ conn' = conn /\ asked # <<>> /\ asked' = Tail(asked)
          /\ stream' = stream /\ UNCHANGED <<pc, reg, saved, behind, cut, alive>>
      BY <1>2 DEF Ignore
    <2> QED
      BY <2>1, DroppedIInv
  <1>3. CASE Close
    <2>1. /\ conn = "open" /\ conn' = "fin" /\ asked' = <<>>
          /\ stream' = stream /\ UNCHANGED <<pc, reg, saved, behind, cut, alive>>
      BY <1>3 DEF Close
    <2> QED
      BY <2>1, DroppedIInv
  <1>4. CASE Abort
    <2>1. /\ conn = "open" /\ conn' = "error" /\ asked' = <<>>
          /\ stream' \in {stream, <<>>} /\ UNCHANGED <<pc, reg, saved, behind, cut, alive>>
      BY <1>4 DEF Abort
    <2> QED
      BY <2>1, DroppedIInv
  <1>5. CASE Reset
    <2>1. /\ conn = "late" /\ conn' = "reset"
          /\ UNCHANGED <<pc, reg, asked, stream, saved, behind, cut, alive>>
      BY <1>5 DEF Reset
    <2>2. Plain /\ Placed(stream) /\ InOrder /\ Recent
      BY Types DEF IInv
    <2>3. pc # "connect" /\ asked = <<>>
      BY <2>1, <2>2 DEF InOrder
    <2>4. Sent' = Sent
      BY <2>1 DEF Sent
    <2>5. Plain' /\ Placed(stream')
      BY <2>1, <2>2 DEF Plain
    <2>6. InOrder'
      BY <2>1, <2>2, <2>3, <2>4 DEF InOrder
    <2>7. Recent'
      BY <2>1, <2>2 DEF Recent
    <2> QED
      BY <2>5, <2>6, <2>7, TypesNext DEF IInv
  <1> QED
    BY <1>1, <1>2, <1>3, <1>4, <1>5 DEF Device

LEMMA StepIInv == ASSUME IInv, [Next]_vars PROVE IInv'
  <1>1. CASE Connect
    BY <1>1, ConnectIInv
  <1>2. CASE Send
    BY <1>2, SendIInv
  <1>3. CASE Recv
    BY <1>3, RecvIInv
  <1>4. CASE SendFails \/ RecvTimeout \/ RecvClosed
    BY <1>4, NoneIInv
  <1>5. CASE Device
    BY <1>5, DeviceIInv
  <1>6. CASE UNCHANGED vars
    <2>1. UNCHANGED <<pc, reg, conn, asked, stream, saved, behind, cut, alive>>
      BY <1>6 DEF vars, socket
    <2>2. Plain' /\ Placed(stream')
      BY <2>1, Types DEF IInv, Plain
    <2>3. Sent' = Sent
      BY <2>1 DEF Sent
    <2>4. InOrder' /\ Recent'
      BY <2>1, <2>3 DEF IInv, InOrder, Recent
    <2> QED
      BY <2>2, <2>4, TypesNext DEF IInv
  <1> QED
    BY <1>1, <1>2, <1>3, <1>4, <1>5, <1>6 DEF Next, Client

-----------------------------------------------------------------------------
(* A device that has answered each request before the next one is          *)
(* understood, whatever the table and however its answers are cut; one     *)
(* that is a request behind is, while no answer has been cut, if the       *)
(* answers to neighbours in the table cannot be taken for each other.      *)
InStep ==
  behind <= 1 =>
    RightRegister /\ (pc = "recv" /\ stream # <<>> => Whole(stream[1]))
InPairs ==
  behind <= 2 /\ ~cut =>
    RightRegister /\ (stream # <<>> => Whole(stream[1]))

(* Even and odd. *)
LEMMA Parity ==
  ASSUME NEW m \in Nat, m % 2 = 1, NEW q \in Nat,
         NEW a \in Nat, NEW b \in Nat, NEW d \in BOOLEAN, NEW e \in BOOLEAN
  PROVE  (IF d THEN m ELSE m + 2 * a) + (IF e THEN m ELSE m + 2 * b) # m + 2 * q
  <1>1. PICK h \in Nat : m = 2 * h + 1
    <2>1. m = 2 * (m \div 2) + 1 /\ m \div 2 \in Nat
      OBVIOUS
    <2> QED
      BY <2>1
  <1>2. PICK x \in Nat : (IF d THEN m ELSE m + 2 * a) = m + 2 * x
    <2>1. (IF d THEN m ELSE m + 2 * a) = m + 2 * (IF d THEN 0 ELSE a)
      OBVIOUS
    <2> QED
      BY <2>1
  <1>3. PICK y \in Nat : (IF e THEN m ELSE m + 2 * b) = m + 2 * y
    <2>1. (IF e THEN m ELSE m + 2 * b) = m + 2 * (IF e THEN 0 ELSE b)
      OBVIOUS
    <2> QED
      BY <2>1
  <1>4. (m + 2 * x) + (m + 2 * y) # m + 2 * q
    BY <1>1
  <1> QED
    BY <1>2, <1>3, <1>4

(* What is there when a recv takes the whole answer at the front: those to *)
(* the last requests, at most as many as the device is behind.             *)
LEMMA FrontIs ==
  ASSUME IInv, pc = "recv", stream # <<>>
  PROVE  /\ Placed(stream) /\ Len(stream) \in Nat /\ Len(stream) >= 1
         /\ reg \in Regs /\ reg \in Nat /\ behind \in Nat
         /\ \A i \in 1..Len(stream) :
              /\ stream[i] \in InSocket /\ stream[i].reg \in Regs /\ stream[i].reg \in Nat
              /\ stream[i].reg <= reg /\ reg < stream[i].reg + behind
         /\ \A i, j \in 1..Len(stream) : i < j => stream[i].reg < stream[j].reg
  <1>1. Placed(stream)
    <2>1. TypeOK
      BY DEF IInv
    <2> QED
      BY <2>1, Types
  <1>2. /\ Len(stream) \in Nat /\ Len(asked) \in Nat /\ behind \in Nat /\ reg \in Regs
        /\ reg \in Nat
        /\ \A i \in 1..Len(stream) : stream[i] \in InSocket /\ stream[i].reg \in Nat
    BY Numbers
  <1>3. Len(stream) >= 1
    BY <1>1, <1>2, EmptySeq DEF Placed
  <1>4. \A a \in InSocket : a.reg \in Regs
    BY DEF InSocket
  <1>5. Sent = reg
    BY DEF Sent
  <1>6. \A i \in 1..Len(stream) : stream[i].reg <= reg
    BY <1>2, <1>5 DEF IInv, InOrder
  <1>7. \A i \in 1..Len(stream) : reg < stream[i].reg + behind
    BY DEF IInv, Recent
  <1>8. \A i, j \in 1..Len(stream) : i < j => stream[i].reg < stream[j].reg
    BY DEF IInv, InOrder
  <1> QED
    BY <1>1, <1>2, <1>3, <1>4, <1>6, <1>7, <1>8

(* The sizes of answers, and what an accepted answer of its own size is.   *)
LEMMA AnswerSizes ==
  ASSUME NEW a \in InSocket
  PROVE  /\ a.reg \in Regs /\ a.exc \in BOOLEAN /\ a.upto \in Nat
         /\ Quantity[a.reg] \in Nat /\ MinLength \in Nat
         /\ Size(a) \in Nat
         /\ Size(a) = IF a.exc THEN MinLength ELSE MinLength + 2 * Quantity[a.reg]
  <1>1. a.reg \in Regs /\ a.exc \in BOOLEAN /\ a.upto \in Nat
    BY DEF InSocket
  <1>2. Quantity[a.reg] \in Nat /\ MinLength \in Nat /\ Size(a) \in Nat
    BY <1>1, Sizes
  <1> QED
    BY <1>1, <1>2 DEF Size, Length

(* The check of the size lets a whole answer through only to a register of *)
(* its quantity.                                                           *)
LEMMA AcceptedOwn ==
  ASSUME NEW a \in InSocket, NEW exception \in BOOLEAN, exception = a.exc, reg \in Regs,
         Accept(Size(a), exception)
  PROVE  Quantity[a.reg] = Quantity[reg]
  <1>1. a.exc = FALSE /\ Size(a) = MinLength + 2 * Quantity[reg]
    BY DEF Accept
  <1>2. /\ Quantity[a.reg] \in Nat /\ MinLength \in Nat
        /\ Size(a) = MinLength + 2 * Quantity[a.reg]
    BY <1>1, AnswerSizes
  <1>3. Quantity[reg] \in Nat
    BY Sizes
  <1>4. \A m, x, y \in Nat : m + 2 * x = m + 2 * y => x = y
    OBVIOUS
  <1> QED
    BY <1>1, <1>2, <1>3, <1>4

(* In step: the only answer there is the one asked for, and nothing but    *)
(* all of it passes the check of the size.                                 *)
LEMMA RecvInStep ==
  ASSUME IInv, InStep, behind <= 1, Recv
  PROVE  RightRegister'
  <1>1. pc = "recv" /\ stream # <<>> /\ Whole(stream[1]) /\ RightRegister
    BY DEF Recv, InStep
  <1> DEFINE a == stream[1]
  <1>2. /\ a \in InSocket /\ a.reg = reg /\ reg \in Regs /\ Placed(stream)
    <2>1. /\ Placed(stream) /\ Len(stream) >= 1 /\ Len(stream) \in Nat /\ behind \in Nat
          /\ reg \in Regs /\ reg \in Nat
          /\ \A i \in 1..Len(stream) :
               /\ stream[i] \in InSocket /\ stream[i].reg \in Regs /\ stream[i].reg \in Nat
               /\ stream[i].reg <= reg /\ reg < stream[i].reg + behind
      BY <1>1, FrontIs
    <2>2. 1 \in 1..Len(stream)
      BY <2>1
    <2>3. a \in InSocket /\ a.reg \in Nat /\ a.reg <= reg /\ reg < a.reg + behind
      BY <2>1, <2>2
    <2> HIDE DEF a
    <2>4. a.reg = reg
      BY <2>1, <2>3
    <2> QED
      BY <2>1, <2>3, <2>4
  <1>3. PICK n \in Amounts, exception \in BOOLEAN :
          /\ exception = a.exc
          /\ saved' = ReadRaw(n, exception, IF a.upto = n THEN a.reg ELSE Mixed)
    BY <1>1, RecvTakes
  <1>4. a.upto = Size(a)
    BY <1>1 DEF Whole
  <1> HIDE DEF a
  <1>5. CASE ~Accept(n, exception)
    <2>1. saved' = saved
      BY <1>3, <1>5 DEF ReadRaw
    <2> QED
      BY <1>1, <2>1 DEF RightRegister
  <1>6. CASE Accept(n, exception)
    <2>1. n = MinLength + 2 * Quantity[reg] /\ exception = FALSE
      BY <1>6 DEF Accept
    <2>2. Size(a) = MinLength + 2 * Quantity[reg]
      BY <1>2, <1>3, <2>1, AnswerSizes
    <2>3. saved' = [for |-> reg, of |-> reg]
      BY <1>2, <1>3, <1>4, <1>6, <2>1, <2>2 DEF ReadRaw
    <2> QED
      BY <2>3 DEF RightRegister
  <1> QED
    BY <1>5, <1>6

(* A request behind, uncut answers, neighbours apart: one answer, or the   *)
(* two to neighbours; all of it is taken, or the first of the two.         *)
LEMMA PairsFound ==
  ASSUME IInv, InPairs, behind <= 2, ~cut, Fits(Quantity), Apart(Quantity),
         pc = "recv", stream # <<>>, NEW n \in Amounts, n \in Ends \cup {BufSize}
  PROVE  /\ \/ n = There
            \/ Len(stream) = 2 /\ n = Size(stream[1]) /\ stream[1].upto = n
         /\ \/ n = Size(stream[1]) /\ (Quantity[stream[1].reg] = Quantity[reg] => stream[1].reg = reg)
            \/ n # MinLength + 2 * Quantity[reg]
  <1> DEFINE a == stream[1]
             b == stream[2]
             L == Len(stream)
  <1>1. /\ Placed(stream) /\ L \in Nat /\ L >= 1
        /\ reg \in Regs /\ reg \in Nat /\ behind \in Nat
        /\ \A i \in 1..L :
             /\ stream[i] \in InSocket /\ stream[i].reg \in Regs /\ stream[i].reg \in Nat
             /\ stream[i].reg <= reg /\ reg < stream[i].reg + behind
        /\ \A i, j \in 1..L : i < j => stream[i].reg < stream[j].reg
    BY FrontIs
  <1>2. /\ n \in Nat /\ n <= There /\ n <= BufSize
        /\ (n = BufSize \/ \E i \in 1..L : n = stream[i].upto)
        /\ There = stream[L].upto
    <2>1. DOMAIN stream = 1..L
      BY <1>1 DEF Placed
    <2> QED
      BY <1>1, <2>1, AmountsAre, ThereIs DEF Ends
  <1>3. /\ MinLength \in Nat /\ BufSize \in Nat /\ Regs = 1..Len(Quantity)
        /\ Len(Quantity) \in Nat /\ MinLength <= BufSize /\ DOMAIN Quantity = Regs
    BY Sizes, SizesAssumption DEF Regs
  <1>4. /\ a \in InSocket /\ a.reg \in Regs /\ a.reg \in Nat /\ a.reg <= reg /\ reg < a.reg + 2
        /\ a.upto = Size(a)
    <2>1. 1 \in 1..L
      BY <1>1
    <2>2. a.upto = Size(a)
      BY DEF InPairs, Whole
    <2>3. a \in InSocket /\ a.reg \in Regs /\ a.reg \in Nat /\ a.reg <= reg /\ reg < a.reg + behind
      BY <1>1, <2>1
    <2> QED
      BY <1>1, <2>2, <2>3
  <1>5. /\ a.exc \in BOOLEAN /\ Quantity[a.reg] \in Nat /\ Size(a) \in Nat
        /\ Size(a) = IF a.exc THEN MinLength ELSE MinLength + 2 * Quantity[a.reg]
    BY <1>4, AnswerSizes
  <1>6. Size(a) <= BufSize
    <2>1. MinLength + 2 * Quantity[a.reg] <= BufSize
      BY <1>3, <1>4 DEF Fits
    <2> QED
      BY <2>1, <1>3, <1>5
  <1>7. Quantity[a.reg] = Quantity[reg] => a.reg = reg
    <2> SUFFICES ASSUME a.reg # reg PROVE Quantity[a.reg] # Quantity[reg]
      OBVIOUS
    <2> HIDE DEF a
    <2>1. reg \in 2..Len(Quantity) /\ reg - 1 = a.reg
      BY <1>1, <1>3, <1>4
    <2> QED
      BY <2>1 DEF Apart
  <1>8. CASE L = 1
    <2>1. There = Size(a)
      BY <1>2, <1>4, <1>8
    <2>2. n = BufSize \/ n = Size(a)
      <3>1. \A i \in 1..L : i = 1
        BY <1>8
      <3> QED
        BY <3>1, <1>2, <1>4
    <2>3. n = There
      <3> HIDE DEF a
      <3> QED
        BY <2>1, <2>2, <1>2, <1>3, <1>5, <1>6
    <2> QED
      BY <2>1, <2>3, <1>7
  <1>9. CASE L # 1
    <2>1. /\ 2 \in 1..L /\ b \in InSocket /\ b.reg \in Regs /\ b.reg \in Nat
          /\ b.reg <= reg /\ a.reg < b.reg
      <3>1. 1 \in 1..L /\ 2 \in 1..L
        <4>1. L \in Nat /\ L >= 1
          BY <1>1
        <4> HIDE DEF L
        <4> QED
          BY <4>1, <1>9
      <3> QED
        BY <3>1, <1>1
    <2>2. b.reg = reg /\ a.reg = reg - 1 /\ reg \in 2..Len(Quantity)
      <3> HIDE DEF a, b
      <3> QED
        BY <2>1, <1>1, <1>3, <1>4
    <2>3. L = 2
      <3> SUFFICES ASSUME L # 2 PROVE FALSE
        OBVIOUS
      <3>1. 3 \in 1..L /\ 2 < 3
        <4>1. L \in Nat /\ L >= 1
          BY <1>1
        <4> HIDE DEF L
        <4> QED
          BY <4>1, <1>9
      <3>2. stream[3].reg \in Nat /\ stream[3].reg <= reg /\ b.reg < stream[3].reg
        BY <3>1, <2>1, <1>1
      <3> QED
        BY <3>2, <2>2, <1>1
    <2>4. b.upto = a.upto + Size(b)
      <3>1. 2 \in 2..L /\ 2 - 1 = 1
        BY <2>3
      <3> QED
        BY <3>1, <1>1 DEF Placed
    <2>5. /\ b.exc \in BOOLEAN /\ Quantity[b.reg] \in Nat /\ Size(b) \in Nat
          /\ Size(b) = IF b.exc THEN MinLength ELSE MinLength + 2 * Quantity[b.reg]
      BY <2>1, AnswerSizes
    <2>6. There = Size(a) + Size(b) /\ b.upto = There
      BY <2>3, <2>4, <1>2, <1>4
    <2>7. n = BufSize \/ n = Size(a) \/ n = There
      <3>1. \A i \in 1..L : i = 1 \/ i = 2
        BY <2>3
      <3> QED
        BY <3>1, <2>6, <1>2, <1>4
    <2> DEFINE q == Quantity[a.reg]
               r == Quantity[b.reg]
    <2>8. q \in Nat /\ r \in Nat /\ r = Quantity[reg] /\ 2 * (MinLength + q + r) <= BufSize
          /\ MinLength % 2 = 1
      <3>1. 2 * (MinLength + Quantity[reg - 1] + Quantity[reg]) <= BufSize /\ MinLength % 2 = 1
        BY <2>2 DEF Apart
      <3> QED
        BY <3>1, <2>2, <2>5, <1>5
    <2>9. /\ Size(a) = (IF a.exc THEN MinLength ELSE MinLength + 2 * q)
          /\ Size(b) = (IF b.exc THEN MinLength ELSE MinLength + 2 * r)
      BY <2>5, <1>5
    <2>10. Size(a) + Size(b) # MinLength + 2 * r
      <3> HIDE DEF q, r, a, b
      <3>1. (IF a.exc THEN MinLength ELSE MinLength + 2 * q)
            + (IF b.exc THEN MinLength ELSE MinLength + 2 * r) # MinLength + 2 * r
        <4>1. MinLength % 2 = 1 /\ MinLength \in Nat /\ q \in Nat /\ r \in Nat
          BY <2>8, <1>3
        <4>2. a.exc \in BOOLEAN /\ b.exc \in BOOLEAN
          BY <2>5, <1>5
        <4> QED
          BY <4>1, <4>2, Parity
      <3> QED
        BY <3>1, <2>9
    <2>11. There <= BufSize
      <3> HIDE DEF q, r, a, b
      <3>1. Size(a) <= MinLength + 2 * q /\ Size(b) <= MinLength + 2 * r
        BY <2>8, <2>9, <1>3
      <3>2. MinLength \in Nat /\ q \in Nat /\ r \in Nat /\ BufSize \in Nat
        BY <2>8, <1>3
      <3>3. 2 * (MinLength + q + r) = (MinLength + 2 * q) + (MinLength + 2 * r)
        BY <3>2
      <3>4. (MinLength + 2 * q) + (MinLength + 2 * r) <= BufSize
        BY <3>3, <2>8
      <3>5. Size(a) \in Nat /\ Size(b) \in Nat /\ There = Size(a) + Size(b)
        BY <2>5, <2>6, <1>5

      <3> QED
        BY <3>1, <3>2, <3>4, <3>5
    <2>12. n = Size(a) \/ n = There
      <3> HIDE DEF q, r, a, b
      <3> QED
        BY <2>5, <2>6, <2>7, <2>11, <1>2, <1>3, <1>5
    <2> HIDE DEF q, r
    <2> QED
      BY <2>3, <2>6, <2>8, <2>10, <2>12, <1>4, <1>7
  <1> QED
    BY <1>8, <1>9

(* All that is there is taken, or the first of two answers: the next one   *)
(* is whole.                                                               *)
LEMMA LeftWhole ==
  ASSUME Placed(stream), stream # <<>>, NEW n \in Nat,
         n = There \/ (Len(stream) = 2 /\ stream[1].upto = n)
  PROVE  Left(n) # <<>> => Whole(Left(n)[1])
  <1> SUFFICES ASSUME Left(n) # <<>> PROVE Whole(Left(n)[1])
    OBVIOUS
  <1> DEFINE L == Len(stream)
             k == UsedUp(n)
             s == Left(n)
  <1>1. /\ k \in 0..L /\ \A i \in (k + 1)..L : stream[i].upto > n
    BY UsedUpIs
  <1>2. /\ Placed(s) /\ Len(s) = L - k
    BY LeftIs
  <1>3. L \in Nat /\ L >= 1 /\ \A i \in 1..L : stream[i] \in InSocket /\ stream[i].upto \in Nat
    <2>1. L \in Nat /\ \A i \in 1..L : stream[i] \in InSocket
      BY DEF Placed
    <2>2. L # 0
      BY EmptySeq DEF Placed
    <2> QED
      BY <2>1, <2>2 DEF InSocket
  <1>4. Len(s) # 0
    BY <1>2, EmptySeq DEF Placed
  <1>5. n # There
    <2> SUFFICES ASSUME n = There PROVE FALSE
      OBVIOUS
    <2>1. L \in (k + 1)..L /\ L \in 1..L
      <3> HIDE DEF k, L, s
      <3> QED
        BY <1>1, <1>2, <1>3, <1>4
    <2>2. stream[L].upto > n /\ stream[L].upto = There
      BY <2>1, <1>1, ThereIs
    <2> QED
      BY <2>1, <2>2, <1>3
  <1>6. L = 2 /\ stream[1].upto = n
    BY <1>5
  <1>7. k = 1
    <2>1. k # 0
      <3> SUFFICES ASSUME k = 0 PROVE FALSE
        OBVIOUS
      <3>1. 1 \in (k + 1)..L /\ 1 \in 1..L
        BY <1>6
      <3>2. stream[1].upto > n /\ stream[1].upto \in Nat
        BY <3>1, <1>1, <1>3
      <3> QED
        BY <3>2, <1>6
    <2> HIDE DEF k, L, s
    <2> QED
      BY <2>1, <1>1, <1>2, <1>4, <1>6
  <1>8. s[1] = [stream[2] EXCEPT !.upto = @ - n]
    <2>1. s = [i \in 1..(L - k) |-> [stream[k + i] EXCEPT !.upto = @ - n]]
      BY DEF Left
    <2>2. L - k = 1 /\ k + 1 = 2
      BY <1>6, <1>7
    <2> HIDE DEF k, L, s
    <2> QED
      BY <2>1, <2>2
  <1>9. stream[2].upto = n + Size(stream[2]) /\ stream[2] \in InSocket
    <2>1. 2 \in 2..L /\ 2 - 1 = 1 /\ 2 \in 1..L
      BY <1>6
    <2> QED
      BY <2>1, <1>3, <1>6 DEF Placed
  <1> HIDE DEF s
  <1> DEFINE b == stream[2]
  <1>10. /\ b.upto = n + Size(b) /\ b \in InSocket /\ Size(b) \in Nat
         /\ s[1] = [b EXCEPT !.upto = b.upto - n]
    BY <1>8, <1>9, AnswerSizes
  <1> HIDE DEF b
  <1>11. s[1].upto = b.upto - n /\ s[1].reg = b.reg /\ s[1].exc = b.exc
    BY <1>10 DEF InSocket
  <1>12. Size(s[1]) = Size(b)
    BY <1>11 DEF Size
  <1>13. s[1].upto = Size(b)
    BY <1>10, <1>11
  <1> QED
    BY <1>12, <1>13 DEF Whole, s

LEMMA RecvInPairs ==
  ASSUME IInv, InPairs, behind <= 2, ~cut', Fits(Quantity), Apart(Quantity), Recv
  PROVE  RightRegister' /\ (stream' # <<>> => Whole(stream'[1]))
  <1> DEFINE a == stream[1]
  <1>1. PICK n \in Amounts, exception \in BOOLEAN :
          /\ Whole(a) => exception = a.exc
          /\ saved' = ReadRaw(n, exception, IF Whole(a) /\ a.upto = n THEN a.reg ELSE Mixed)
          /\ cut' = (cut \/ n \notin Ends \cup {BufSize})
          /\ NextRegister(Left(n), conn)
    BY RecvTakes
  <1>2. pc = "recv" /\ stream # <<>> /\ ~cut /\ n \in Ends \cup {BufSize} /\ Placed(stream)
    BY <1>1, Types DEF Recv, IInv
  <1>3. Whole(a) /\ RightRegister /\ a.upto = Size(a)
    BY <1>2 DEF InPairs, Whole
  <1>4. /\ \/ n = There
           \/ Len(stream) = 2 /\ n = Size(a) /\ a.upto = n
        /\ \/ n = Size(a) /\ (Quantity[a.reg] = Quantity[reg] => a.reg = reg)
           \/ n # MinLength + 2 * Quantity[reg]
    BY <1>2, PairsFound
  <1>5. a \in InSocket /\ reg \in Regs /\ n \in Nat
    <2>1. 1 \in 1..Len(stream)
      BY <1>2, EmptySeq DEF Placed
    <2> QED
      BY <2>1, <1>2, Numbers, AmountsAre
  <1>6. stream' # <<>> => Whole(stream'[1])
    <2>1. Left(n) # <<>> => Whole(Left(n)[1])
      BY <1>2, <1>4, <1>5, LeftWhole
    <2>2. stream' = Left(n) \/ stream' = <<>>
      BY <1>1 DEF NextRegister
    <2>3. CASE stream' = Left(n)
      BY <2>1, <2>3 DEF Whole, Size, Length
    <2> QED
      BY <2>2, <2>3
  <1> HIDE DEF a
  <1>7. RightRegister'
    <2>1. CASE ~Accept(n, exception)
      <3>1. saved' = saved
        BY <2>1, <1>1 DEF ReadRaw
      <3> QED
        BY <3>1, <1>3 DEF RightRegister
    <2>2. CASE Accept(n, exception)
      <3>1. n = MinLength + 2 * Quantity[reg]
        BY <2>2 DEF Accept
      <3>2. n = Size(a) /\ (Quantity[a.reg] = Quantity[reg] => a.reg = reg)
        BY <3>1, <1>4
      <3>3. Quantity[a.reg] = Quantity[reg]
        BY <2>2, <3>2, <1>1, <1>3, <1>5, AcceptedOwn
      <3>4. saved' = [for |-> reg, of |-> reg]
        BY <2>2, <3>2, <3>3, <1>1, <1>3 DEF ReadRaw
      <3> QED
        BY <3>4 DEF RightRegister
    <2> QED
      BY <2>1, <2>2
  <1> QED
    BY <1>6, <1>7

-----------------------------------------------------------------------------
(* Steps but a send and a recv leave what is at the front, or nothing; the *)
(* first answer to come is whole.                                          *)
LEMMA FrontKept ==
  ASSUME IInv, [Next]_vars, ~Connect, ~Send, ~Recv
  PROVE  /\ behind' = behind /\ cut' = cut /\ saved' = saved
         /\ pc' = "recv" => pc = "recv"
         /\ (stream # <<>> => Whole(stream[1])) => (stream' # <<>> => Whole(stream'[1]))
  <1>1. CASE SendFails \/ RecvTimeout \/ RecvClosed
    <2>1. PICK found : NextRegister(stream, found)
      BY <1>1 DEF SendFails, RecvTimeout, RecvClosed
    <2>2. (stream' = stream \/ stream' = <<>>) /\ pc' # "recv"
      BY <2>1 DEF NextRegister
    <2>3. UNCHANGED <<saved, behind, cut>>
      BY <1>1 DEF SendFails, RecvTimeout, RecvClosed
    <2> QED
      BY <2>2, <2>3 DEF Whole, Size, Length
  <1>2. CASE Answer
    <2>1. UNCHANGED <<pc, saved, behind, cut>>
      BY <1>2 DEF Answer
    <2>2. PICK exc \in BOOLEAN :
            stream' = Append(stream, [reg |-> Head(asked), exc |-> exc,
                                      upto |-> There + Length(Head(asked), exc)])
      BY <1>2 DEF Answer
    <2> DEFINE a == [reg |-> Head(asked), exc |-> exc, upto |-> There + Length(Head(asked), exc)]
    <2>3. Head(asked) \in Regs
      BY <1>2, TailAsked DEF Answer
    <2>4. There \in Nat /\ Length(Head(asked), exc) \in Nat /\ Placed(stream)
      BY <2>3, ThereIs, Sizes, Types DEF IInv
    <2>5. a.upto = There + Length(Head(asked), exc) /\ Size(a) = Length(Head(asked), exc)
      BY DEF Size
    <2>6. CASE stream = <<>>
      <3>1. There = 0 /\ stream' = <<a>>
        BY <2>2, <2>6 DEF There
      <3>2. Whole(a)
        BY <3>1, <2>4, <2>5 DEF Whole
      <3> HIDE DEF a
      <3>3. stream'[1] = a
        BY <3>1
      <3> QED
        BY <3>2, <3>3, <2>1 DEF Whole, Size, Length
    <2>7. CASE stream # <<>>
      <3>1. 1 \in 1..Len(stream) /\ stream \in Seq(InSocket)
        BY <2>4, <2>7, EmptySeq DEF Placed
      <3>2. stream'[1] = stream[1]
        <4>1. a \in [reg : {a.reg}, exc : {a.exc}, upto : {a.upto}]
          OBVIOUS
        <4>2. stream \in Seq(InSocket \cup {a})
          BY <3>1, SeqMonotonic
        <4> HIDE DEF a
        <4>3. stream' = Append(stream, a)
          BY <2>2 DEF a
        <4> QED
          BY <3>1, <4>2, <4>3, AppendProperties
      <3> QED
        BY <3>2, <2>1, <2>7 DEF Whole, Size, Length
    <2> QED
      BY <2>6, <2>7
  <1>3. CASE Ignore \/ Close \/ Abort \/ Reset \/ UNCHANGED vars
    <2>1. UNCHANGED <<pc, saved, behind, cut>> /\ stream' \in {stream, <<>>}
      BY <1>3 DEF Ignore, Close, Abort, Reset, vars, socket
    <2> QED
      BY <2>1 DEF Whole, Size, Length
  <1> QED
    BY <1>1, <1>2, <1>3 DEF Next, Client, Device

LEMMA StepInStep ==
  ASSUME IInv, InStep, [Next]_vars
  PROVE  InStep'
  <1> DEFINE Front1 == stream # <<>> => Whole(stream[1])
  <1>1. InStep' <=> (behind' <= 1 => RightRegister' /\ (pc' = "recv" => Front1'))
    BY DEF InStep, Whole, Size, Length
  <1> SUFFICES ASSUME behind' <= 1
               PROVE  RightRegister' /\ (pc' = "recv" => Front1')
    BY <1>1
  <1>2. CASE Connect
    <2>1. saved' = [for |-> 1, of |-> Never] /\ pc' = "send"
      BY <1>2 DEF Connect
    <2> QED
      BY <2>1 DEF RightRegister
  <1>3. CASE Send
    <2>1. /\ behind' \in Nat /\ behind <= behind' /\ stream' = stream /\ saved' = saved
          /\ \A i \in 1..Len(stream) : reg < stream[i].reg + behind' /\ stream[i].reg < reg
      BY <1>3, SendCounts
    <2>2. behind <= 1 /\ behind \in Nat
      BY <2>1, Numbers
    <2>3. stream = <<>>
      <3> SUFFICES ASSUME stream # <<>> PROVE FALSE
        OBVIOUS
      <3>1. 1 \in 1..Len(stream) /\ stream[1].reg \in Nat /\ reg \in Nat
        BY Numbers, EmptySeq
      <3> QED
        BY <3>1, <2>1
    <2> QED
      BY <2>1, <2>2, <2>3 DEF InStep, RightRegister
  <1>4. CASE Recv
    <2>1. behind' = behind /\ pc' # "recv"
      BY <1>4 DEF Recv, NextRegister
    <2> QED
      BY <2>1, <1>4, RecvInStep
  <1>5. CASE ~Connect /\ ~Send /\ ~Recv
    <2>1. /\ behind' = behind /\ saved' = saved /\ (pc' = "recv" => pc = "recv")
          /\ Front1 => Front1'
      BY <1>5, FrontKept DEF Whole, Size, Length
    <2>2. RightRegister /\ (pc = "recv" => Front1)
      BY <2>1 DEF InStep
    <2> HIDE DEF Front1
    <2> QED
      BY <2>1, <2>2 DEF RightRegister
  <1> QED
    BY <1>2, <1>3, <1>4, <1>5

LEMMA StepInPairs ==
  ASSUME IInv, InPairs, Fits(Quantity), Apart(Quantity), [Next]_vars
  PROVE  InPairs'
  <1> DEFINE Front1 == stream # <<>> => Whole(stream[1])
  <1>1. InPairs' <=> (behind' <= 2 /\ ~cut' => RightRegister' /\ Front1')
    BY DEF InPairs, Whole, Size, Length
  <1> SUFFICES ASSUME behind' <= 2, ~cut' PROVE RightRegister' /\ Front1'
    BY <1>1
  <1>2. CASE Connect
    <2>1. saved' = [for |-> 1, of |-> Never] /\ stream' = <<>>
      BY <1>2 DEF Connect, IInv, InOrder
    <2> QED
      BY <2>1 DEF RightRegister
  <1>3. CASE Send
    <2>1. behind' \in Nat /\ behind <= behind' /\ stream' = stream /\ saved' = saved /\ cut' = cut
      BY <1>3, SendCounts
    <2>2. behind <= 2 /\ behind \in Nat
      BY <2>1, Numbers
    <2>3. RightRegister /\ Front1
      BY <2>1, <2>2 DEF InPairs
    <2> QED
      BY <2>1, <2>3 DEF RightRegister, Whole, Size, Length
  <1>4. CASE Recv
    <2>1. behind' = behind
      BY <1>4 DEF Recv
    <2>2. RightRegister' /\ (stream' # <<>> => Whole(stream'[1]))
      BY <2>1, <1>4, RecvInPairs
    <2> QED
      BY <2>2 DEF Whole, Size, Length
  <1>5. CASE ~Connect /\ ~Send /\ ~Recv
    <2>1. /\ behind' = behind /\ saved' = saved /\ cut' = cut
          /\ Front1 => Front1'
      BY <1>5, FrontKept DEF Whole, Size, Length
    <2>2. RightRegister /\ Front1
      BY <2>1 DEF InPairs
    <2> HIDE DEF Front1
    <2> QED
      BY <2>1, <2>2 DEF RightRegister
  <1> QED
    BY <1>2, <1>3, <1>4, <1>5

LEMMA InitInStep == ASSUME Init PROVE InStep /\ InPairs
  BY DEF Init, InStep, InPairs, RightRegister

-----------------------------------------------------------------------------
(* The theorems. *)

(* For every table, every state of the client is of its type, and what is  *)
(* in the socket are answers one behind the other (modbus_tcp_client.c:86). *)
THEOREM TypesKept == Spec => []TypeOK
  <1>1. Init => IInv
    BY InitIInv
  <1>2. IInv /\ [Next]_vars => IInv'
    BY StepIInv
  <1>3. IInv => TypeOK
    BY DEF IInv
  <1> QED
    BY <1>1, <1>2, <1>3, PTL DEF Spec

(* Whatever the table and wherever TCP cuts the stream of bytes: a device  *)
(* whose answer to each request has been taken whole before the next one   *)
(* goes out is never misunderstood, though a size is all that is compared  *)
(* (modbus_tcp_client.c:80-108).  With no answer cut the same holds for a  *)
(* device one request later, if the answers to neighbours in the table     *)
(* cannot be taken for each other.                                         *)
THEOREM PromptIsRight ==
  ASSUME Prompt \in 0..2, Prompt = 2 => Fits(Quantity) /\ Apart(Quantity)
  PROVE  Spec => []RightWhenPrompt
  <1>1. CASE Prompt = 2
    <2>1. Init => IInv /\ InStep /\ InPairs
      BY InitIInv, InitInStep
    <2>2. IInv /\ InStep /\ InPairs /\ [Next]_vars => IInv' /\ InStep' /\ InPairs'
      BY <1>1, StepIInv, StepInStep, StepInPairs
    <2>3. InStep /\ InPairs => RightWhenPrompt
      BY <1>1 DEF InStep, InPairs, RightWhenPrompt
    <2> QED
      BY <2>1, <2>2, <2>3, PTL DEF Spec
  <1>2. CASE Prompt # 2
    <2>1. Init => IInv /\ InStep
      BY InitIInv, InitInStep
    <2>2. IInv /\ InStep /\ [Next]_vars => IInv' /\ InStep'
      BY StepIInv, StepInStep
    <2>3. IInv /\ InStep => RightWhenPrompt
      <3> SUFFICES ASSUME IInv, InStep, behind <= 1 \/ behind <= Prompt PROVE RightRegister
        BY DEF RightWhenPrompt
      <3>1. behind \in Nat /\ Prompt \in {0, 1}
        BY <1>2, Numbers
      <3>2. behind <= 1
        BY <3>1
      <3> QED
        BY <3>2 DEF InStep
    <2> QED
      BY <2>1, <2>2, <2>3, PTL DEF Spec
  <1> QED
    BY <1>1, <1>2

(* A table of at most two registers, as those of the charger and of the    *)
(* temperature sensors (modbus_tcp_poll.c:64-72): whatever is late or lost, *)
(* what the cache shows for a register is its own answer, until a recv of  *)
(* the connection has ended inside an answer.                              *)
THEOREM ShortTableIsRight ==
  ASSUME Fits(Quantity), Apart(Quantity), Len(Quantity) <= 2
  PROVE  Spec => [](cut \/ RightRegister)
  <1>1. Init => IInv /\ InPairs
    BY InitIInv, InitInStep
  <1>2. IInv /\ InPairs /\ [Next]_vars => IInv' /\ InPairs'
    BY StepIInv, StepInPairs
  <1>3. IInv /\ InPairs => cut \/ RightRegister
    <2> SUFFICES ASSUME IInv, InPairs, ~cut PROVE RightRegister
      OBVIOUS
    <2>1. behind <= reg /\ reg \in 1..Len(Quantity) /\ behind \in Nat /\ Len(Quantity) \in Nat
      BY Numbers, Sizes DEF IInv, Recent
    <2>2. behind <= 2
      BY <2>1
    <2> QED
      BY <2>2 DEF InPairs
  <1> QED
    BY <1>1, <1>2, <1>3, PTL DEF Spec

=============================================================================
