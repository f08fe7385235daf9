----------------------------- MODULE DmmDrivers -----------------------------
(***************************************************************************)
(* The methods of the multimeter drivers, as scripts.  FUNC is the         *)
(* measurement function: a reading is taken under it, and a preset brings  *)
(* its own.  Some drivers ask for it with every reading, others answer     *)
(* with the mode they remember.                                            *)
(***************************************************************************)
EXTENDS Scripts

\* Parts that the drivers share.
SetMode == Checked(Put("FUNC") ++ Mirror("currentMode", "FUNC"))

SetRange == Checked(Put("RANG:AUTO") \union PutInTurn(<<"RANG:AUTO", "RANG">>))

DmmPresets == Checked(Put("*SAV") \union Puts(<<"*RCL", "FUNC">>))

Trigger ==
  Gets(<<"TRIG:SOUR", "TRIG:DEL", "SAMP:COUN">>)
    \union PutInTurn(<<"TRIG:SOUR", "TRIG:DEL", "SAMP:COUN">>) \union Put("*TRG")

ReadingUnderMode == Through("FUNC", GetInTurn(<<"FUNC", "READ">>))

----------------------------------------------------------------------------
\* Rigol DM800.  dB and dBm are known to the driver only; a change of the function
\* ends them.
Dm800Reading ==
  Get("FUNC")
    \union Checked(Put("FUNC") ++ Maybe(Forget("mathConfig")) ++ Mirror("lastMode", "FUNC"))
    \union Through("FUNC", Gets(<<"READ", "FUNC">>))

Dm800Ranging ==
  (Get("FUNC") ++ Maybe(SoftGets(<<"RANG", "RANG:AUTO">>)))
    \union Checked(Put("RANG:AUTO") \union PutInTurn(<<"RANG:AUTO", "RANG">>))
    \union (Get("FUNC") ++ Checked(SoftGet("NPLC") \union Put("NPLC")))

Dm800Trigger ==
  SoftGets(<<"TRIG:SOUR", "SAMP:COUN">>)
    \union PutInTurn(<<"TRIG:SOUR", "SAMP:COUN", "TRIG:COUN">>) \union Put("*TRG")

Dm800GetMath ==
  Get("FUNC") ++ Maybe(Forget("mathConfig")) ++ Mirrored("lastMode", "FUNC")
    ++ SoftGets(<<"AVER:STAT", "LIM:STAT", "NULL:STAT">>)
    ++ ( (Gets(<<"AVER:MIN", "AVER:MAX", "AVER:AVER", "AVER:SDEV", "AVER:COUN">>)
            ++ Learn("mathConfig", "AVER:STAT"))
         \union ( Gets(<<"LIM:UPP", "LIM:LOW">>) ++ Through("FUNC", Gets(<<"READ", "FUNC">>))
                    ++ Learn("mathConfig", "LIM:STAT") )
         \union (Get("SCAL:REF") ++ Learn("mathConfig", "SCAL:REF"))
         \union (Get("NULL:VAL") ++ Learn("mathConfig", "NULL:STAT"))
         \union Forget("mathConfig") )

\* Without a NULL setting in the current mode the request is refused at the end, when
\* everything has been switched off and is kept already.
Dm800SetMath ==
  Keep("mathConfig") ++ Get("FUNC") ++ PutInTurn(<<"AVER:STAT", "LIM:STAT", "SCAL:STAT">>)
    ++ ( Refused
         \union Maybe(Put("NULL:STAT"))
                  ++ ( Nothing \union Put("AVER:STAT")
                       \union (Put("LIM:STAT") ++ SomeOf(<<"LIM:UPP", "LIM:LOW">>))
                       \union (Put("SCAL:FUNC") ++ Maybe(Put("SCAL:REF")) ++ Put("SCAL:STAT")) )
         \union (PutInTurn(<<"NULL:STAT", "NULL:STAT">>) ++ Maybe(Put("NULL:VAL"))) )

\* fetchMathState is getMath; resetMathStatistics; the second display.
Dm800Dual ==
  Put("AVER:CLE")
    \union (Get("FUNC") ++ (Maybe(SoftGet("SEC")) \union Checked(Put("SEC"))))
    \union (Through("FUNC", Gets(<<"READ", "FUNC">>)) ++ SoftGet("DATA2") ++ Maybe(SoftGet("SEC")))

Dm800TemperatureAndPresets ==
  (Get("FUNC") ++ Maybe(Queries(<<"UNIT:TEMP", "CONF">>, {"CONF"}) ++ Learn("tempCache", "UNIT:TEMP")))
    \union (PutInTurn(<<"UNIT:TEMP", "CONF">>) ++ Keep("tempCache"))
    \union Rescued(Get("MMEM:CAT"))
    \union Checked((Maybe(SoftPut("MMEM:MDIR")) ++ Put("MMEM:STOR")) \union Puts(<<"MMEM:LOAD", "FUNC">>))

RigolDm800 ==
  Dm800Reading \union Dm800Ranging \union Dm800Trigger \union Dm800GetMath \union Dm800SetMath
    \union Dm800Dual \union Dm800TemperatureAndPresets

----------------------------------------------------------------------------
\* Siglent SDM.  getMode asks and does not remember.
SdmMeasuring ==
  Get("FUNC") \union SetMode \union ReadingUnderMode
    \union (Get("FUNC") ++ Maybe(Gets(<<"RANG:AUTO", "RANG">>))) \union SetRange
    \union Maybe(Rescued(Get("NPLC")) \union Put("NPLC") \union Put("ZERO:AUTO")) \union Trigger

SdmDualTemperatureAndPresets ==
  Rescued(Get("CALC:SEC")) \union Put("CALC:STAT") \union Checked(PutInTurn(<<"CALC:SEC", "CALC:STAT">>))
    \union Rescued(Get("TEMP:UNIT")) \union PutInTurn(<<"TEMP:UNIT", "TEMP:TRAN">>)
    \union DmmPresets

SiglentSdm == SdmMeasuring \union SdmDualTemperatureAndPresets

----------------------------------------------------------------------------
\* Keysight Truevolt.  getMode, and so every reading, brings the memory up to date.
TrueVoltMeasuring ==
  (Get("FUNC") ++ Mirrored("currentMode", "FUNC")) \union SetMode
    \union Through("FUNC", Get("FUNC") ++ Mirrored("currentMode", "FUNC") ++ Get("READ"))
    \union (Get("FUNC") ++ Mirrored("currentMode", "FUNC") ++ Maybe(Gets(<<"RANG:AUTO", "RANG">>)))
    \union SetRange \union Trigger
    \union Maybe(Rescued(Get("NPLC")) \union Put("NPLC") \union Put("ZERO:AUTO"))

TrueVoltDualTemperatureAndPresets ==
  Rescued(Get("CALC:STAT") ++ Maybe(Get("CALC:SEC")))
    \union Maybe(Put("CALC:STAT") \union Checked(PutInTurn(<<"CALC:SEC", "CALC:STAT">>)))
    \union Maybe(Rescued(Get("TEMP:UNIT")) \union PutInTurn(<<"TEMP:UNIT", "TEMP:TRAN">>))
    \union DmmPresets

KeysightTrueVolt == TrueVoltMeasuring \union TrueVoltDualTemperatureAndPresets

----------------------------------------------------------------------------
\* Fluke bench multimeters, GW Instek GDM, Rohde & Schwarz HMC: readings carry the
\* mode that the driver remembers.
RememberedMode == (SoftGet("FUNC") ++ Mirrored("currentMode", "FUNC")) \union SetMode

ReadingRemembered == Get("READ")

SoftRange ==
  SoftGet("FUNC") ++ Mirrored("currentMode", "FUNC") ++ Maybe(SoftGets(<<"RANG:AUTO", "RANG">>))

BenchMeasuring ==
  RememberedMode \union ReadingRemembered \union SoftRange \union SetRange
    \union Maybe(SoftGet("NPLC")) \union Checked(Put("NPLC"))

BenchMath ==
  SoftGets(<<"CALC:STAT", "CALC:FUNC">>) \union Put("AVER:CLE")
    \union Checked( Keep("mathConfig")
         ++ ( Put("CALC:STAT")
              \union ( PutInTurn(<<"CALC:FUNC", "CALC:STAT">>)
                         ++ (SomeOf(<<"LIM:UPP", "LIM:LOW">>) \union EachPut({"NULL:OFFS", "DBM:REF"})) ) ) )

\* The reading and the function of the second display are asked for together.
BenchDualAndPresets ==
  Maybe(SoftGets(<<"WIND2:STAT", "WIND2:FUNC">>))
    \union Checked(Put("WIND2:STAT") \union PutInTurn(<<"WIND2:FUNC", "WIND2:STAT">>))
    \union Checked(Get("READ") ++ Through("WIND2:FUNC", SoftGets(<<"READ2", "WIND2:STAT", "WIND2:FUNC">>)))
    \union DmmPresets

FlukeBenchDmm == BenchMeasuring \union BenchMath \union BenchDualAndPresets

GwInstekGdm ==
  RememberedMode \union ReadingRemembered \union SoftRange \union SetRange
    \union Maybe(SoftGet("NPLC")) \union Checked(Put("NPLC")) \union DmmPresets

RndsHmc ==
  RememberedMode \union ReadingRemembered \union SoftRange \union SetRange
    \union SoftGet("NPLC") \union Put("NPLC") \union DmmPresets

\* Owon XDM.  getMode asks and does not remember.
OwonXdm ==
  Get("FUNC") \union SetMode \union ReadingUnderMode
    \union (Get("FUNC") ++ Maybe(Gets(<<"RANG:AUTO", "RANG">>))) \union SetRange
    \union Maybe(Rescued(Get("NPLC")) \union Put("NPLC") \union SoftPut("ZERO:AUTO")) \union DmmPresets

Multimeters ==
  { RigolDm800, SiglentSdm, KeysightTrueVolt, FlukeBenchDmm, GwInstekGdm, RndsHmc, OwonXdm }
=============================================================================
