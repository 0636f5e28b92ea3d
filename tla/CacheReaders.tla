---------------------------- MODULE CacheReaders ----------------------------
(* All that reads the cache of the inverter while it fills: converters, a  *)
(* connection of the Modbus server, a request for /info.  Readers do not   *)
(* change what they read; one of them is followed in a behaviour.          *)
EXTENDS ModbusRequests, DeviceInfo

allVars == <<vars, peerVars, infoVars>>

ReadersInit == ServerInit /\ InfoInit

Filling == (\E i \in Blocks : Save(i)) /\ UNCHANGED <<peerVars, infoVars>>
Converting ==
  /\ sent = <<>> /\ step = "idle" /\ request = None
  /\ \E r \in Requests : Serve(r)
  /\ UNCHANGED <<peerVars, infoVars>>
ServingOne ==
  /\ step = "idle" /\ (sent = <<>> => request = None)
  /\ Serving /\ UNCHANGED infoVars
InformingOne ==
  /\ sent = <<>> /\ request = None
  /\ Informing /\ UNCHANGED peerVars

ReadersNext == Filling \/ Converting \/ ServingOne \/ InformingOne
ReadersSpec == ReadersInit /\ [][ReadersNext]_allVars

(* Type invariant. *)
ReadersTypeOK ==
  /\ TypeOK
  /\ sent \in Seq([id : FirstId..(FirstId + MaxSent), function : Functions, read : Asked])
  /\ stream \in Seq(Byte) /\ smooth \in BOOLEAN
  /\ replies \in Seq([id : Nat, unit : Byte, exception : BOOLEAN, read : Nat \X Nat])
  /\ step \in {"idle", "model", "unique_id", "status1", "battery1", "status2", "battery2", "done"}
  /\ len \in 0..(LenModulus - 1) /\ unique_len \in Byte /\ listed \subseteq Batteries
  /\ found_text # None => found_text.size <= found_text.text.size
=============================================================================
