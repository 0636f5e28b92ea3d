------------------------------ MODULE Fronius ------------------------------
(***************************************************************************)
(* components/fronius_solar_api/fronius_solar_api.c: a call of             *)
(* fronius_get_values asks the inverter's web interface for three JSON     *)
(* documents, one after the other, and stores their values in pv_values_t  *)
(* as it finds them.  No part of the program calls it at present: the call *)
(* in http_server.c:67 is commented out.                                   *)
(***************************************************************************)
EXTENDS Integers, Sequences

CONSTANT MaxCalls   \* bound: calls

ASSUME BoundsAssumption == MaxCalls \in Nat

(* What is stored, in order: one step for all values that are stored       *)
(* together, after a check of their keys, named for the first of them.     *)
InverterStores ==
  <<"pv1_current", "pv2_current", "pv1_voltage", "pv2_voltage", "inv_ac_w", "total_pv_energy_wh">>
MeterStores ==
  <<"p_grid_w", "L1", "L2", "L3", "energy_real_cons_wh", "grid_freq_hz">>
PowerflowStores == <<"battery_soc", "battery_power_w">>
Stores == <<InverterStores, MeterStores, PowerflowStores>>
Parts == DOMAIN Stores
Values == UNION {{Stores[p][s] : s \in DOMAIN Stores[p]} : p \in Parts}
Place(v) == CHOOSE q \in Parts \X (1..6) : q[2] \in DOMAIN Stores[q[1]] /\ Stores[q[1]][q[2]] = v

(* Objects that may be missing, with all they hold: Inverters and Site. *)
Optional == {"battery_soc", "battery_power_w"}

VARIABLES
  call,       \* number of the current or the last call
  at,         \* "idle", "get", "status", "parse", "store" or "exit"
  part, next, \* the document asked for, and the value stored next
  response,   \* "null", "whole", or "piece": the last piece of several
  json,       \* a parsed document is held
  rc,
  values      \* v -> the call that has stored it

vars == <<call, at, part, next, response, json, rc, values>>

Init ==
  /\ call = 0 /\ at = "idle" /\ part = 1 /\ next = 1
  /\ response = "null" /\ json = FALSE /\ rc = "error"
  /\ values = [v \in Values |-> 0]

Begin ==
  /\ at = "idle" /\ call < MaxCalls
  /\ call' = call + 1 /\ at' = "get" /\ part' = 1
  /\ UNCHANGED <<next, response, json, rc, values>>

-----------------------------------------------------------------------------
(* write_callback allocates anew for each piece curl hands over and        *)
(* forgets the one before.                                                 *)
Responses == {"null", "whole", "piece"}
(* http_get: curl may fail, or memory, after any piece. *)
Get ==
  /\ at = "get"
  /\ response' \in Responses
  /\ \/ at' = "status" /\ UNCHANGED rc
     \/ at' = "exit" /\ rc' = "error"
  /\ UNCHANGED <<call, part, next, json, values>>

(* status_code is not set if there is no curl handle. *)
Status ==
  /\ at = "status"
  /\ \/ at' = "parse" /\ UNCHANGED rc
     \/ at' = "exit" /\ rc' = "error"
  /\ UNCHANGED <<call, part, next, response, json, values>>

(* The last piece of a document is no document with a body; nor may a      *)
(* whole one be.                                                           *)
Parse ==
  /\ at = "parse"
  /\ \/ response = "whole" /\ json' = TRUE /\ at' = "store" /\ UNCHANGED rc
     \/ json' \in {FALSE, response # "null"} /\ at' = "exit" /\ rc' = "error"
  /\ UNCHANGED <<call, part, next, response, values>>

-----------------------------------------------------------------------------
Value == Stores[part][next]
\* mutant: one value too many is looked for
StoresLeftOff == next <= Len(Stores[part])
StoresLeft == next < Len(Stores[part])
Stored(stored) ==
  /\ values' = [v \in Values |-> IF v \in stored THEN call ELSE values[v]]
  /\ IF StoresLeft THEN next' = next + 1 /\ UNCHANGED <<at, rc>>
     ELSE at' = "exit" /\ rc' = "ok" /\ UNCHANGED next

Store ==
  /\ at = "store"
  /\ Stored({Value}) \/ (Value \in Optional /\ Stored({}))
  /\ UNCHANGED <<call, part, response, json>>

\* mutant: the error is noted, and the next key is looked for
StoreFailsOn == rc' = "error" /\ IF StoresLeft THEN next' = next + 1 /\ UNCHANGED at
                                 ELSE at' = "exit" /\ UNCHANGED next
StoreFailsExit == rc' = "error" /\ at' = "exit" /\ UNCHANGED next
(* A key is missing, or, of the inverter's, no number. *)
StoreFails ==
  /\ at = "store"
  /\ StoreFailsExit
  /\ UNCHANGED <<call, part, response, json, values>>

Freed == response' = "null"

\* mutant: an answer of the inverter ends the call
GoesOnNever == FALSE
GoesOn == rc = "ok" /\ part < Len(Stores)

(* cJSON_free gives back the root alone.  Then the next document, or the   *)
(* end of the call with the rc of the last one.                            *)
Exit ==
  /\ at = "exit"
  /\ Freed /\ json' = FALSE /\ next' = 1
  /\ IF GoesOn THEN at' = "get" /\ part' = part + 1 ELSE at' = "idle" /\ UNCHANGED part
  /\ UNCHANGED <<call, rc, values>>

Next == Begin \/ Get \/ Status \/ Parse \/ Store \/ StoreFails \/ Exit
Spec == Init /\ [][Next]_vars

-----------------------------------------------------------------------------
(* Type invariant. *)
TypeOK ==
  /\ call \in 0..MaxCalls /\ at \in {"idle", "get", "status", "parse", "store", "exit"}
  /\ part \in Parts /\ next \in 1..Len(Stores[part])
  /\ response \in Responses /\ json \in BOOLEAN /\ rc \in {"ok", "error"}
  /\ values \in [Values -> 0..MaxCalls]

Before(v, w) == Place(v)[1] < Place(w)[1] \/ (Place(v)[1] = Place(w)[1] /\ Place(v)[2] < Place(w)[2])

(* After a call that has failed pv_values_t mixes values of several calls, *)
(* but only so that what is stored first is the newest: no value is newer  *)
(* than one the code stores before it, unless that one's object may be     *)
(* missing (69-312, 315-337).                                              *)
MixIsPrefix ==
  \A v \in Values \ Optional, w \in Values : Before(v, w) => values[v] >= values[w]

(* A call that returns FRONIUS_OK has stored all values of the inverter    *)
(* and the meter itself; those of the battery and the load only if their   *)
(* objects were there (278-300).                                           *)
OkMeansNew ==
  at = "idle" /\ call > 0 /\ rc = "ok" => \A v \in Values \ Optional : values[v] = call
=============================================================================
