---------------------------- MODULE FroniusProofs ----------------------------
(***************************************************************************)
(* What pv_values_t holds between and after calls of fronius_get_values,   *)
(* for any number of calls and every way one of them fails.                *)
(***************************************************************************)
EXTENDS Fronius, TLAPS

(* A document is looked through from its first value on. *)
FromTheFirst == at \in {"idle", "get", "status", "parse"} => next = 1

(* The values the current call has come past, whether by storing them or,  *)
(* if they are optional, by leaving them out.                              *)
Passed(v) ==
  CASE at = "idle" -> call > 0 /\ rc = "ok"
    [] at = "exit" -> rc = "ok" /\ Place(v)[1] <= part
    [] OTHER -> Place(v)[1] < part \/ (Place(v)[1] = part /\ Place(v)[2] < next)
PassedIsNew == \A v \in Values \ Optional : Passed(v) => values[v] = call

NoneFromLater == \A v \in Values : values[v] <= call

IInv == TypeOK /\ FromTheFirst /\ PassedIsNew /\ NoneFromLater /\ MixIsPrefix

-----------------------------------------------------------------------------
(* The three documents, and where each value is in them. *)
LEMMA Documents ==
  /\ Parts = 1..3
  /\ \A p \in 1..3 : Len(Stores[p]) \in 1..6 /\ DOMAIN Stores[p] = 1..Len(Stores[p])
  <1>1. /\ Len(InverterStores) = 6 /\ DOMAIN InverterStores = 1..6
        /\ Len(MeterStores) = 6 /\ DOMAIN MeterStores = 1..6
        /\ Len(PowerflowStores) = 2 /\ DOMAIN PowerflowStores = 1..2
    BY DEF InverterStores, MeterStores, PowerflowStores
  <1>2. /\ Parts = 1..3
        /\ Stores[1] = InverterStores /\ Stores[2] = MeterStores /\ Stores[3] = PowerflowStores
    BY DEF Parts, Stores
  <1> QED
    BY <1>1, <1>2

(* No value is stored at two places. *)
LEMMA PlacesDiffer ==
  ASSUME NEW p \in 1..3, NEW i \in DOMAIN Stores[p], NEW q \in 1..3, NEW j \in DOMAIN Stores[q],
         Stores[p][i] = Stores[q][j]
  PROVE  p = q /\ i = j
  <1>1. /\ Stores[1] = InverterStores /\ Stores[2] = MeterStores /\ Stores[3] = PowerflowStores
    BY DEF Stores
  <1>2. /\ DOMAIN InverterStores = 1..6 /\ DOMAIN MeterStores = 1..6
        /\ DOMAIN PowerflowStores = 1..2
    BY DEF InverterStores, MeterStores, PowerflowStores
  <1>3. CASE p = 1
    BY <1>1, <1>2, <1>3 DEF InverterStores, MeterStores, PowerflowStores
  <1>4. CASE p = 2
    BY <1>1, <1>2, <1>4 DEF InverterStores, MeterStores, PowerflowStores
  <1>5. CASE p = 3
    BY <1>1, <1>2, <1>5 DEF InverterStores, MeterStores, PowerflowStores
  <1> QED
    BY <1>3, <1>4, <1>5

(* Each value has one place in the documents. *)
LEMMA PlaceOf ==
  ASSUME NEW p \in 1..3, NEW i \in DOMAIN Stores[p]
  PROVE  Stores[p][i] \in Values /\ Place(Stores[p][i]) = <<p, i>>
  <1> DEFINE v == Stores[p][i]
             Is(q) == q[2] \in DOMAIN Stores[q[1]] /\ Stores[q[1]][q[2]] = v
  <1>1. Stores[p][i] \in Values
    BY Documents DEF Values
  <1>2. <<p, i>> \in Parts \X (1..6) /\ Is(<<p, i>>)
    BY Documents
  <1>3. \A q \in Parts \X (1..6) : Is(q) => q = <<p, i>>
    BY Documents, PlacesDiffer
  <1>4. Place(v) = CHOOSE q \in Parts \X (1..6) : Is(q)
    BY DEF Place
  <1> QED
    BY <1>1, <1>2, <1>3, <1>4

(* A value stands at its place. *)
LEMMA PlaceTyped ==
  ASSUME NEW v \in Values
  PROVE  /\ Place(v)[1] \in 1..3 /\ Place(v)[2] \in 1..Len(Stores[Place(v)[1]])
         /\ Stores[Place(v)[1]][Place(v)[2]] = v
  <1>1. PICK p \in 1..3 : \E i \in DOMAIN Stores[p] : v = Stores[p][i]
    BY Documents DEF Values
  <1>2. PICK i \in DOMAIN Stores[p] : v = Stores[p][i]
    BY <1>1
  <1> QED
    BY <1>2, PlaceOf, Documents

-----------------------------------------------------------------------------
(* Before the first call. *)
LEMMA InitIInv == Init => IInv
  <1> SUFFICES ASSUME Init PROVE IInv
    OBVIOUS
  <1>1. 1 \in 1..Len(Stores[1])
    BY Documents
  <1>2. TypeOK
    <2>1. call \in 0..MaxCalls /\ values \in [Values -> 0..MaxCalls]
      BY BoundsAssumption DEF Init
    <2>2. part \in Parts /\ next \in 1..Len(Stores[part])
      BY <1>1, Documents DEF Init
    <2> QED
      BY <2>1, <2>2 DEF Init, TypeOK, Responses
  <1> QED
    BY <1>2 DEF Init, IInv, FromTheFirst, PassedIsNew, Passed, NoneFromLater, MixIsPrefix

(* No value is stored: what the call has passed is still new, if it has    *)
(* not passed more than it had.                                            *)
LEMMA NothingStored ==
  ASSUME IInv, TypeOK', FromTheFirst', UNCHANGED values, call' \in {call, call + 1},
         \A v \in Values \ Optional : Passed(v)' => Passed(v) /\ call' = call
  PROVE  IInv'
  <1>1. PassedIsNew'
    BY DEF IInv, PassedIsNew
  <1>2. NoneFromLater'
    <2>1. call \in Nat /\ \A v \in Values : values[v] \in Nat
      BY BoundsAssumption DEF IInv, TypeOK
    <2> QED
      BY <2>1 DEF IInv, NoneFromLater
  <1>3. MixIsPrefix'
    BY DEF IInv, MixIsPrefix
  <1> QED
    BY <1>1, <1>2, <1>3 DEF IInv

(* A call begins with the first document. *)
LEMMA BeginKeeps ==
  ASSUME IInv, Begin PROVE IInv'
  <1>1. TypeOK'
    <2>1. call + 1 \in 0..MaxCalls
      BY BoundsAssumption DEF IInv, TypeOK, Begin
    <2>2. next = 1 /\ 1 \in Parts /\ 1 \in 1..Len(Stores[1])
      <3>1. next = 1
        BY DEF IInv, FromTheFirst, Begin
      <3>2. 1 \in 1..3 /\ Parts = 1..3
        BY Documents
      <3>3. Len(Stores[1]) \in 1..6
        BY <3>2, Documents
      <3>4. \A n \in 1..6 : 1 \in 1..n
        OBVIOUS
      <3>5. 1 \in 1..Len(Stores[1])
        BY <3>3, <3>4
      <3> QED
        BY <3>1, <3>2, <3>5
    <2> QED
      BY <2>1, <2>2 DEF IInv, TypeOK, Begin
  <1>2. FromTheFirst'
    BY DEF IInv, FromTheFirst, Begin
  <1>3. \A v \in Values \ Optional : ~Passed(v)'
    <2>1. at' = "get" /\ part' = 1 /\ next' = 1
      BY DEF IInv, FromTheFirst, Begin
    <2> QED
      BY <2>1, PlaceTyped, Documents DEF Passed
  <1> QED
    BY <1>1, <1>2, <1>3, NothingStored DEF Begin

(* Up to the values, the call only comes nearer to them, or gives up. *)
LEMMA AskingKeeps ==
  ASSUME IInv, Get \/ Status \/ Parse PROVE IInv'
  <1>1. /\ at \in {"get", "status", "parse"}
        /\ at' \in {"status", "parse", "store"} \/ (at' = "exit" /\ rc' = "error")
        /\ UNCHANGED <<call, part, next, values>>
    BY DEF Get, Status, Parse
  <1>2. /\ response' \in Responses /\ json' \in BOOLEAN /\ rc' \in {"ok", "error"}
    BY DEF Get, Status, Parse, IInv, TypeOK
  <1>3. TypeOK'
    BY <1>1, <1>2 DEF IInv, TypeOK
  <1>4. FromTheFirst'
    BY <1>1 DEF IInv, FromTheFirst
  <1>5. \A v \in Values \ Optional : Passed(v)' => Passed(v)
    BY <1>1 DEF Passed
  <1> QED
    BY <1>1, <1>3, <1>4, <1>5, NothingStored

(* A value that is missing ends the call. *)
LEMMA StoreFailsKeeps ==
  ASSUME IInv, StoreFails PROVE IInv'
  <1>1. at' = "exit" /\ rc' = "error" /\ UNCHANGED <<call, part, next, response, json, values>>
    BY DEF StoreFails, StoreFailsExit
  <1>2. TypeOK' /\ FromTheFirst'
    BY <1>1 DEF IInv, TypeOK, FromTheFirst
  <1>3. \A v \in Values \ Optional : ~Passed(v)'
    BY <1>1 DEF Passed
  <1> QED
    BY <1>1, <1>2, <1>3, NothingStored

(* From one document to the next, or out of the call. *)
LEMMA ExitKeeps ==
  ASSUME IInv, Exit PROVE IInv'
  <1>1. /\ at = "exit" /\ next' = 1 /\ json' = FALSE /\ response' = "null"
        /\ UNCHANGED <<call, rc, values>>
    BY DEF Exit, Freed
  <1>2. /\ part' \in Parts
        /\ \/ at' = "get" /\ part' = part + 1 /\ rc = "ok"
           \/ at' = "idle" /\ part' = part /\ (rc = "ok" => part = 3)
    <2>1. part \in 1..3 /\ Len(Stores) = 3
      BY Documents DEF IInv, TypeOK, Stores
    <2> QED
      BY <2>1, Documents DEF Exit, GoesOn
  <1>3. TypeOK'
    <2>1. 1 \in 1..Len(Stores[part'])
      <3>1. part' \in 1..3
        BY <1>2, Documents
      <3>2. Len(Stores[part']) \in 1..6
        BY <3>1, Documents
      <3> QED
        BY <3>2
    <2> QED
      BY <1>1, <1>2, <2>1 DEF IInv, TypeOK, Responses
  <1>4. FromTheFirst'
    BY <1>1, <1>2 DEF FromTheFirst
  <1>5. ASSUME NEW v \in Values \ Optional, Passed(v)' PROVE Passed(v)
    <2>1. Place(v)[1] \in 1..3 /\ Place(v)[2] >= 1 /\ Place(v)[2] \in Int /\ part \in 1..3
      BY PlaceTyped, Documents DEF IInv, TypeOK
    <2>2. CASE at' = "get"
      <3>1. Place(v)[1] < part + 1
        BY <1>1, <1>2, <1>5, <2>1, <2>2 DEF Passed
      <3> QED
        BY <1>1, <1>2, <2>1, <2>2, <3>1 DEF Passed
    <2>3. CASE at' = "idle"
      BY <1>1, <1>2, <1>5, <2>1, <2>3 DEF Passed
    <2> QED
      BY <1>2, <2>2, <2>3
  <1> QED
    BY <1>1, <1>3, <1>4, <1>5, NothingStored

(* A value is stored, or left out: with it the call has passed one more.   *)
LEMMA StoreKeeps ==
  ASSUME IInv, Store PROVE IInv'
  <1> DEFINE here == <<part, next>>
  <1>1. /\ part \in 1..3 /\ next \in 1..Len(Stores[part]) /\ call \in 0..MaxCalls
        /\ Value \in Values /\ Place(Value) = <<part, next>>
    BY Documents, PlaceOf DEF IInv, TypeOK, Value
  <1>2. PICK stored \in {{Value}, {}} :
          Stored(stored) /\ (Value \notin Optional => stored = {Value})
    BY DEF Store
  <1>3. /\ values' = [v \in Values |-> IF v \in stored THEN call ELSE values[v]]
        /\ at = "store" /\ UNCHANGED <<call, part, response, json>>
        /\ \/ next < Len(Stores[part]) /\ next' = next + 1 /\ at' = at /\ rc' = rc
           \/ next = Len(Stores[part]) /\ next' = next /\ at' = "exit" /\ rc' = "ok"
    BY <1>1, <1>2, Documents DEF Store, Stored, StoresLeft
  <1>4. TypeOK'
    <2>1. values' \in [Values -> 0..MaxCalls]
      BY <1>1, <1>3 DEF IInv, TypeOK
    <2>2. next' \in 1..Len(Stores[part])
      BY <1>1, <1>3, Documents
    <2> QED
      BY <1>3, <2>1, <2>2 DEF IInv, TypeOK
  <1>5. FromTheFirst'
    BY <1>3 DEF FromTheFirst
  <1>6. \A v \in Values : values[v] \in Nat /\ values[v] <= call /\ values'[v] \in {values[v], call}
    BY <1>3, BoundsAssumption DEF IInv, TypeOK, NoneFromLater
  <1>7. NoneFromLater'
    BY <1>1, <1>3, <1>6 DEF NoneFromLater
  <1>8. \A v \in Values \ Optional : Place(v)[1] < part \/ (Place(v)[1] = part /\ Place(v)[2] <= next)
                                       => values'[v] = call
    <2> SUFFICES ASSUME NEW v \in Values \ Optional,
                        Place(v)[1] < part \/ (Place(v)[1] = part /\ Place(v)[2] <= next)
                 PROVE  values'[v] = call
      OBVIOUS
    <2>1. Place(v)[1] \in Int /\ Place(v)[2] \in Int /\ Stores[Place(v)[1]][Place(v)[2]] = v
      BY PlaceTyped, Documents
    <2>2. CASE Place(v)[1] = part /\ Place(v)[2] = next
      BY <1>2, <1>3, <2>1, <2>2 DEF Value
    <2>3. CASE ~(Place(v)[1] = part /\ Place(v)[2] = next)
      <3>1. Passed(v)
        BY <1>1, <1>3, <2>1, <2>3 DEF Passed
      <3>2. values[v] = call
        BY <3>1 DEF IInv, PassedIsNew
      <3> QED
        BY <1>6, <3>2
    <2> QED
      BY <2>2, <2>3
  <1>9. PassedIsNew'
    <2> SUFFICES ASSUME NEW v \in Values \ Optional, Passed(v)' PROVE values'[v] = call
      BY <1>3 DEF PassedIsNew
    <2>1. Place(v)[1] \in Int /\ Place(v)[2] \in 1..Len(Stores[Place(v)[1]])
      BY PlaceTyped, Documents
    <2>2. Place(v)[1] < part \/ (Place(v)[1] = part /\ Place(v)[2] <= next)
      BY <1>1, <1>3, <2>1, Documents DEF Passed
    <2> QED
      BY <1>8, <2>2
  <1>10. MixIsPrefix'
    <2> SUFFICES ASSUME NEW v \in Values \ Optional, NEW w \in Values, Before(v, w)
                 PROVE  values'[v] >= values'[w]
      BY DEF MixIsPrefix, Before
    <2>1. /\ Place(v)[1] \in Int /\ Place(v)[2] \in Int
          /\ Place(w)[1] \in Int /\ Place(w)[2] \in Int
      BY PlaceTyped, Documents
    <2>2. CASE w \in stored
      <3>1. Place(w) = <<part, next>>
        BY <1>1, <1>2, <2>2
      <3>2. Place(v)[1] < part \/ (Place(v)[1] = part /\ Place(v)[2] <= next)
        BY <1>1, <2>1, <3>1 DEF Before
      <3>3. values'[v] = call
        BY <1>8, <3>2
      <3> QED
        BY <1>1, <1>6, <3>3
    <2>3. CASE w \notin stored
      <3>1. values'[w] = values[w]
        BY <1>3, <2>3
      <3>2. values[v] >= values[w]
        BY DEF IInv, MixIsPrefix
      <3> QED
        BY <1>1, <1>6, <3>1, <3>2
    <2> QED
      BY <2>2, <2>3
  <1> QED
    BY <1>4, <1>5, <1>7, <1>9, <1>10 DEF IInv

(* Every step keeps the invariant. *)
LEMMA NextIInv == IInv /\ [Next]_vars => IInv'
  <1> SUFFICES ASSUME IInv, [Next]_vars PROVE IInv'
    OBVIOUS
  <1>1. CASE UNCHANGED vars
    BY <1>1 DEF vars, IInv, TypeOK, FromTheFirst, PassedIsNew, Passed, NoneFromLater,
           MixIsPrefix
  <1> QED
    BY <1>1, BeginKeeps, AskingKeeps, StoreKeeps, StoreFailsKeeps, ExitKeeps DEF Next

(* The invariant holds in every reachable state. *)
LEMMA Inductive == Spec => []IInv
  BY InitIInv, NextIInv, PTL DEF Spec

-----------------------------------------------------------------------------
(* Variables keep their types: what is looked for is always one of the     *)
(* values of the document asked for (fronius_solar_api.c:69-312).          *)
THEOREM TypeCorrect == Spec => []TypeOK
  <1>1. IInv => TypeOK
    BY DEF IInv
  <1> QED
    BY <1>1, Inductive, PTL

(* However many calls have failed, and where, no value is newer than one   *)
(* the code stores before it, but for what may be missing (69-337).        *)
THEOREM MixesArePrefixes == Spec => []MixIsPrefix
  <1>1. IInv => MixIsPrefix
    BY DEF IInv
  <1> QED
    BY <1>1, Inductive, PTL

(* A call that returns FRONIUS_OK has stored all values of the inverter    *)
(* and the meter itself (278-300).                                         *)
THEOREM OkIsNew == Spec => []OkMeansNew
  <1>1. IInv => OkMeansNew
    BY DEF IInv, PassedIsNew, Passed, OkMeansNew
  <1> QED
    BY <1>1, Inductive, PTL

=============================================================================
