---------------------------- MODULE EloadDrivers ----------------------------
(***************************************************************************)
(* The methods of the electronic-load drivers, as scripts.  The state that *)
(* a client polls is the relay, the mode, the setpoints of all modes and   *)
(* the measurement, asked for in one batch.                                *)
(***************************************************************************)
EXTENDS Scripts

Setpoints == <<"CURR", "VOLT", "RES", "POW">>

Measurement == <<"MEAS:VOLT", "MEAS:CURR", "MEAS:POW", "MEAS:RES">>

State(measurement) ==
  Gets(<<"INP", "FUNC">> \o Setpoints \o measurement) \union Gets(Setpoints) \union Gets(measurement)

----------------------------------------------------------------------------
\* Rigol DL3000.
Dl3000State ==
  State(Measurement) \union EachPut({"INP", "FUNC"}) \union Checked(EachPut({"CURR", "VOLT", "RES", "POW"}))

\* Protection against heat cannot be set; to clear its trip switches the input off.
Dl3000Protection ==
  Get("SYST:OTP") \union Gets(<<"PROT:STAT", "PROT:LEV", "PROT:TRIP">>)
    \union Checked(EachPut({"PROT:STAT", "PROT:LEV"})) \union EachPut({"PROT:CLE", "INP"})

\* Levels and widths are those of the mode that the instrument has answered.
Dl3000Dynamic ==
  (Get("FUNC:TRAN") ++ Gets(<<"INP:TRAN", "ALEV", "BLEV", "AWID", "BWID", "SRAT">>))
    \union ( Get("FUNC:TRAN") ++ PutInTurn(<<"ALEV", "BLEV", "AWID", "BWID">>) ++ Maybe(Put("SRAT"))
               ++ Put("INP:TRAN") )

Dl3000BatteryAndPresets ==
  Gets(<<"BATT:STAT", "BATT:FUNC", "BATT:LEV", "BATT:VOLT", "BATT:CAP", "BATT:TIM", "BATT:ELAP",
         "BATT:DCAP", "BATT:DENE", "BATT:STOP">>)
    \union PutInTurn(<<"BATT:FUNC", "BATT:LEV", "BATT:VOLT", "BATT:CAP", "BATT:TIM", "BATT:STAT">>)
    \union Put("BATT:STAT") \union SlotPresets

RigolDl3000 == Dl3000State \union Dl3000Protection \union Dl3000Dynamic \union Dl3000BatteryAndPresets

----------------------------------------------------------------------------
\* Keysight EL3 and Siglent SDL: setpoints go out unchecked, the protection against
\* heat is fixed, and to switch it or to clear it is accepted and does nothing.
FixedHeatProtection ==
  Maybe(SoftGets(<<"PROT:STAT", "PROT:LEV", "PROT:TRIP">>)) \union Maybe(EachPut({"PROT:STAT", "PROT:CLE"}))
    \union Checked(Put("PROT:LEV"))

\* The resistance is computed from the measured voltage and current.
KeysightEl3 ==
  State(<<"MEAS:VOLT", "MEAS:CURR", "MEAS:POW">>)
    \union EachPut({"INP", "FUNC", "CURR", "VOLT", "RES", "POW"}) \union FixedHeatProtection \union SlotPresets

SiglentSdl ==
  State(Measurement)
    \union EachPut({"INP", "FUNC", "CURR", "VOLT", "RES", "POW"}) \union FixedHeatProtection \union SlotPresets

ElectronicLoads == { RigolDl3000, KeysightEl3, SiglentSdl }
=============================================================================
