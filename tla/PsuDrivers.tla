----------------------------- MODULE PsuDrivers -----------------------------
(***************************************************************************)
(* The methods of the power-supply drivers, as scripts.  Some instruments  *)
(* take the channel with every command; others have one selected channel,  *)
(* which the driver selects before each command or remembers.  getChannels *)
(* does for each channel what is written here for the caller's.            *)
(***************************************************************************)
EXTENDS Scripts

----------------------------------------------------------------------------
\* Channels are addressed.  Rigol DP900.
Dp900Outputs ==
  EachPut({"OUTP", "VOLT", "CURR", "OUTP:PAIR", "OUTP:TRAC"}) \union EachGet({"OUTP:PAIR", "OUTP:TRAC"})

Dp900Protection ==
  Gets(<<"PROT", "PROT:VAL", "PROT:QUES">>) \union EachPut({"PROT", "PROT:VAL", "PROT:CLE"})

Dp900PresetsAndReadings ==
  Gets(<<"MEM:VAL1", "MEM:VAL2">>) \union SlotPresets \union Get("MEAS:ALL")
    \union Gets(<<"VOLT", "CURR", "MEAS:ALL", "OUTP">>)

RigolDp900 == Dp900Outputs \union Dp900Protection \union Dp900PresetsAndReadings

\* Siglent SPD: series, parallel and tracking are one setting of the instrument.
SpdOutputs ==
  EachPut({"OUTP", "VOLT", "CURR"}) \union Gets(<<"MEAS:VOLT", "MEAS:CURR", "MEAS:POWE">>)
    \union Maybe(EachGet({"OUTP:TRAC"}) \union Put("OUTP:TRAC"))

SpdProtectionAndPresets ==
  Gets(<<"PROT:STAT", "PROT">>) \union Gets(<<"PROT:STAT", "PROT", "SYST:STAT">>)
    \union EachPut({"PROT:STAT", "PROT", "PROT:CLE"}) \union SlotPresets
    \union Gets(<<"VOLT", "CURR", "MEAS:VOLT", "MEAS:CURR", "OUTP">>)

SiglentSpd == SpdOutputs \union SpdProtectionAndPresets

\* GW Instek GPP and PSW: an unknown channel is refused before anything is sent.
GppOutputs ==
  Checked(EachPut({"OUTP", "VOLT", "CURR"}) \union SoftGets(<<"MEAS:VOLT", "MEAS:CURR">>))

GppProtectionAndPresets ==
  Checked(SoftGets(<<"PROT:LEV", "PROT:STAT", "PROT:TRIP">>) \union EachPut({"PROT:STAT", "PROT:LEV", "MEM:SAVE", "MEM:REC"}))
    \union Maybe(Checked(Put("PROT:CLE")))

GppReadings == SoftGets(<<"VOLT", "CURR", "MEAS:VOLT", "MEAS:CURR", "OUTP">>)

GwInstekGpp == GppOutputs \union GppProtectionAndPresets \union GppReadings

----------------------------------------------------------------------------
\* Keysight E36: every method selects its channel first.
E36Outputs ==
  Selected("INST:NSEL", EachPut({"OUTP", "VOLT", "CURR"}) \union Gets(<<"MEAS:VOLT", "MEAS:CURR">>))
    \union Maybe(SoftGet("OUTP:PAIR") \union SoftGet("OUTP:TRAC") \union EachPut({"OUTP:PAIR", "OUTP:TRAC"}))

E36Protection ==
  Selected("INST:NSEL", Queries(<<"PROT:STAT", "PROT:LEV", "PROT:TRIP">>, {"PROT:TRIP"})
                          \union EachPut({"PROT:STAT", "PROT:LEV", "PROT:CLE"}))

E36PresetsAndReadings ==
  SlotPresets
    \union Selected("INST:NSEL", Gets(<<"VOLT", "CURR", "MEAS:VOLT", "MEAS:CURR", "OUTP">>))

KeysightE36 == E36Outputs \union E36Protection \union E36PresetsAndReadings

\* Rohde & Schwarz NGE: the selection is remembered.
NgeSelected(A) == Checked(Remembered("INST:SEL", "lastSelected", A))

NgeOutputs ==
  NgeSelected(EachPut({"OUTP", "VOLT", "CURR"}) \union SoftGets(<<"MEAS:VOLT", "MEAS:CURR">>))

NgeProtectionAndPresets ==
  NgeSelected(SoftGets(<<"PROT:LEV", "PROT:STAT", "PROT:TRIP">>) \union EachPut({"PROT:STAT", "PROT:LEV", "PROT:CLE"}))
    \union SlotPresets

NgeReadings == NgeSelected(SoftGets(<<"VOLT", "CURR", "MEAS:VOLT", "MEAS:CURR", "OUTP">>))

RndsNge == NgeOutputs \union NgeProtectionAndPresets \union NgeReadings

\* Owon SPE and Tektronix PWS, with more than one channel.
SpeSelected(A) == Checked(Remembered("INST:NSEL", "lastSelected", A))

OwonSpe ==
  SpeSelected(EachPut({"OUTP", "VOLT", "CURR"}) \union Gets(<<"MEAS:VOLT", "MEAS:CURR">>)
                \union Gets(<<"VOLT", "CURR", "MEAS:VOLT", "MEAS:CURR", "OUTP">>))

PwsSelected(A) == Checked(Remembered("INST:SEL", "lastSelected", A))

TektronixPws ==
  PwsSelected(EachPut({"OUTP", "VOLT", "CURR"}) \union SoftGets(<<"MEAS:VOLT", "MEAS:CURR">>)
                \union SoftGets(<<"VOLT", "CURR", "MEAS:VOLT", "MEAS:CURR", "OUTP">>))

----------------------------------------------------------------------------
\* Fluke calibrator: one output, a voltage or a current; the driver keeps what it has
\* set before it sends it, and takes the magnitude from the instrument when it can.
FlukeCalibrator ==
  (SoftGets(<<"OUT", "OPER">>) ++ Maybe(Learn("setpoint", "OUT")))
    \union Checked(Put("OPER") \union (Keep("setpoint") ++ Keep("mode") ++ Put("OUT")) \union SoftGet("OUT"))

PowerSupplies ==
  { RigolDp900, SiglentSpd, GwInstekGpp, KeysightE36, RndsNge, OwonSpe, TektronixPws, FlukeCalibrator }
=============================================================================
