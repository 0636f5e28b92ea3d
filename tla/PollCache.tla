------------------------------ MODULE PollCache ------------------------------
(***************************************************************************)
(* What a polling client promises to those who read its cache, without     *)
(* locks, buffers and copying: a value is stored and read in one step, is  *)
(* stored only right after the device has confirmed it, is zeroed only     *)
(* when the device has failed often enough, and may be lost for want of    *)
(* memory; a reader gets what is cached at that moment, or nothing.        *)
(***************************************************************************)
EXTENDS Naturals

CONSTANTS
  Registers,   \* entries of the register table
  Reported,    \* what the device may report, numbers other than 0
  Limit,       \* MAX_NUM_FAILED_REQ
  Clients,     \* threads that read
  Nothing

VARIABLES
  value,       \* register -> what is cached, 0 when zeroed, or Nothing
  missed,      \* register -> polls failed in a row, up to Limit
  served       \* client -> what it was given last

vars == <<value, missed, served>>

Init ==
  /\ value = [r \in Registers |-> Nothing]
  /\ missed = [r \in Registers |-> 0]
  /\ served = [t \in Clients |-> Nothing]

Confirm(r) == missed' = [missed EXCEPT ![r] = 0] /\ UNCHANGED <<value, served>>
Miss(r) ==
  /\ missed' = [missed EXCEPT ![r] = IF @ < Limit THEN @ + 1 ELSE @]
  /\ UNCHANGED <<value, served>>

Store(r, v) ==
  /\ missed[r] = 0
  /\ value' = [value EXCEPT ![r] = v]
  /\ UNCHANGED <<missed, served>>
Expire(r) ==
  /\ missed[r] >= Limit
  /\ value' = [value EXCEPT ![r] = 0]
  /\ UNCHANGED <<missed, served>>
Lose(r) == value' = [value EXCEPT ![r] = Nothing] /\ UNCHANGED <<missed, served>>

Serve(t, r) ==
  /\ served' \in {[served EXCEPT ![t] = v] : v \in {value[r], Nothing}}
  /\ UNCHANGED <<value, missed>>

Next ==
  \/ \E r \in Registers : Confirm(r) \/ Miss(r) \/ Expire(r) \/ Lose(r)
  \/ \E r \in Registers, v \in Reported : Store(r, v)
  \/ \E r \in Registers, t \in Clients : Serve(t, r)

Spec == Init /\ [][Next]_vars
=============================================================================
