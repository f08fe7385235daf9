---------------------------- MODULE ScopeDrivers ----------------------------
(***************************************************************************)
(* The methods of the oscilloscope drivers, as scripts.  Registers are     *)
(* named by the commands of the driver; a method that takes a channel is   *)
(* written for the channel of its caller.                                  *)
(***************************************************************************)
EXTENDS Scripts

----------------------------------------------------------------------------
\* Rigol DHO800.  Waveform, preamble and format belong to the selected source.
Dho800Waveform ==
  Selected("WAV:SOUR", PutInTurn(<<"WAV:MODE", "WAV:FORM">>) ++ GetInTurn(<<"WAV:PRE", "WAV:DATA">>))

Dho800ReadChannel ==
  Queries(<<"CHAN:DISP", "CHAN:SCAL", "CHAN:OFFS", "CHAN:COUP", "CHAN:BWL", "CHAN:UNIT">>,
          {"CHAN:BWL", "CHAN:UNIT"})

Dho800Timebase ==
  Gets(<<"TIM:SCAL", "TIM:OFFS">>) \union SomeOf(<<"TIM:SCAL", "TIM:OFFS">>)

Dho800Channel ==
  EachPut({"CHAN:COUP", "CHAN:SCAL", "CHAN:OFFS", "CHAN:INV", "CHAN:UNIT", "CHAN:DISP"})
    \union Checked(Put("CHAN:BWL"))

Dho800Sweep == Get("TRIG:SWE") \union EachPut({"TRIG:SWE", "TFOR"})

Dho800GetTrigger ==
  Get("TRIG:MODE") ++ ( Nothing
                        \union Gets(<<"TRIG:EDGE:SOUR", "TRIG:EDGE:SLOP", "TRIG:EDGE:LEV">>)
                        \union Gets(<<"TRIG:PULS:SOUR", "TRIG:PULS:POL", "TRIG:PULS:LEV">>) )

Dho800SetTrigger ==
  Put("TRIG:MODE") ++ ( PutInTurn(<<"TRIG:EDGE:SOUR", "TRIG:EDGE:SLOP", "TRIG:EDGE:LEV">>)
                        \union PutInTurn(<<"TRIG:PULS:SOUR", "TRIG:PULS:POL", "TRIG:PULS:LEV">>)
                        \union PutInTurn(<<"TRIG:SLOP:SOUR", "TRIG:SLOP:ALEV", "TRIG:SLOP:BLEV">>)
                        \union EachPut({"TRIG:VID:SOUR", "TRIG:RUNT:SOUR", "TRIG:WIND:SOUR"})
                        \union PutInTurn(<<"TRIG:TIM:SOUR", "TRIG:TIM:TIME">>)
                        \union PutInTurn(<<"TRIG:NEDG:SOUR", "TRIG:NEDG:EDGE">>) )

Dho800Acquisition ==
  Queries(<<"ACQ:TYPE", "ACQ:AVER", "ACQ:MDEP">>, {"ACQ:AVER", "ACQ:MDEP"})
    \union (Put("ACQ:TYPE") ++ Maybe(Put("ACQ:AVER")) ++ Put("ACQ:MDEP"))
    \union EachPut({"AUT", "RUN", "STOP", "SING"})

\* The selection is kept by the driver; each item is a query of its own.
Dho800Measurements ==
  (SoftPut("MEAS:CLE") ++ Maybe(SoftPut("MEAS:ITEM")) ++ Keep("measurements"))
    \union Nothing \union SoftGet("MEAS:ITEM") \union SoftPut("MEAS:STAT")

Dho800Cursors ==
  ( SoftPut("CURS:MODE")
      ++ Maybe(Maybe(SoftPut("CURS:AX")) ++ Maybe(SoftPut("CURS:BX")))
      ++ Keep("cursors") )
    \union SoftGets(<<"CURS:AX", "CURS:BX">>)

Dho800Math ==
  SoftPutInTurn(<<"MATH:OPER", "MATH:SOUR1">>) ++ Maybe(SoftPut("MATH:SOUR2")) ++ SoftPut("MATH:DISP")
    ++ Maybe(SoftPutInTurn(<<"MATH:FFT:WIND", "MATH:FFT:SPAN", "MATH:FFT:CENT">>)) ++ Keep("math")

\* REF:SOUR and REF:SAVE act on the reference that REF:CURR selects.
Dho800References ==
  (SoftPut("REF:CURR") ++ Through("REF:CURR", SoftPutInTurn(<<"REF:SOUR", "REF:SAVE">>)) ++ Keep("refSlots"))
    \union (SoftPut("REF:DISP") ++ Keep("refSlots"))

Dho800History ==
  UNION {SoftPut(r) ++ Keep("history") : r \in {"HIST:DISP", "HIST:FRAM", "HIST:PLAY"}}

Dho800Display ==
  (SoftPut("DISP:GRAD") ++ Keep("persistence")) \union SoftGet("DISP:DATA")

Dho800Decoders ==
  (SoftPut("BUS:DISP") ++ Keep("decoderStates"))
    \union ( SoftPut("BUS:MODE")
               ++ ( SoftPutInTurn(<<"BUS:IIC:SCLK", "BUS:IIC:SDA">>)
                    \union (SoftPutInTurn(<<"BUS:SPI:CLK", "BUS:SPI:MOSI">>) ++ Maybe(SoftPut("BUS:SPI:MISO")))
                    \union SoftPutInTurn(<<"BUS:RS232:TX", "BUS:RS232:BAUD">>)
                    \union SoftPutInTurn(<<"BUS:CAN:SOUR", "BUS:CAN:BAUD">>)
                    \union SoftPutInTurn(<<"BUS:LIN:SOUR", "BUS:LIN:BAUD">>) )
               ++ SoftPut("BUS:DISP") ++ Keep("decoderStates") )

Dho800Presets == (SoftPut("*SAV") ++ Keep("presetOccupied")) \union SoftPut("*RCL")

RigolDho800 ==
  Dho800Waveform \union Dho800ReadChannel \union Dho800Timebase \union Dho800Channel
    \union Dho800Sweep \union Dho800GetTrigger \union Dho800SetTrigger \union Dho800Acquisition
    \union Dho800Measurements \union Dho800Cursors \union Dho800Math \union Dho800References
    \union Dho800History \union Dho800Display \union Dho800Decoders \union Dho800Presets

----------------------------------------------------------------------------
\* Siglent SDS.
SdsSettings ==
  EachPut({"CHAN:SWIT", "CHAN:SCAL", "CHAN:OFFS", "CHAN:COUP", "CHAN:BWL", "CHAN:INV", "CHAN:UNIT"})
    \union Gets(<<"TIM:SCAL", "TIM:DEL">>) \union SomeOf(<<"TIM:SCAL", "TIM:DEL">>)
    \union Get("TRIG:SWE") \union EachPut({"TRIG:SWE", "TRIG:FORC", "RUN", "STOP", "AUT"})
    \union PutInTurn(<<"TRIG:SWE", "RUN">>)

SdsTrigger ==
  Gets(<<"TRIG:TYPE", "TRIG:EDGE:SOUR", "TRIG:EDGE:SLOP", "TRIG:EDGE:LEV">>)
    \union (Put("TRIG:TYPE") ++ Maybe(PutInTurn(<<"TRIG:EDGE:SOUR", "TRIG:EDGE:SLOP", "TRIG:EDGE:LEV">>)))

SdsAcquisition ==
  Gets(<<"ACQ:TYPE", "ACQ:AVER", "ACQ:MDEP">>)
    \union (Put("ACQ:TYPE") ++ Maybe(Put("ACQ:AVER")) ++ Maybe(Put("ACQ:MDEP")))

SdsWaveform == Rescued(Selected("WAV:SOUR", GetInTurn(<<"WAV:PRE", "WAV:DATA">>)))

SdsDisplayAndPresets ==
  EachGet({"PRIN"}) \union SoftGet("DISP:PERS") \union EachPut({"DISP:PERS"})
    \union SlotPresets

SdsReadChannel ==
  Queries(<<"CHAN:SWIT", "CHAN:SCAL", "CHAN:OFFS", "CHAN:COUP", "CHAN:BWL", "CHAN:INV", "CHAN:UNIT", "CHAN:PROB">>,
          {"CHAN:BWL", "CHAN:INV", "CHAN:UNIT", "CHAN:PROB"})

SiglentSds ==
  SdsSettings \union SdsTrigger \union SdsAcquisition \union SdsWaveform
    \union SdsDisplayAndPresets \union SdsReadChannel

----------------------------------------------------------------------------
\* Keysight InfiniiVision.
InfiniiVisionSettings ==
  EachPut({"CHAN:DISP", "CHAN:SCAL", "CHAN:OFFS", "CHAN:COUP", "CHAN:BWL", "CHAN:INV", "CHAN:UNIT"})
    \union Gets(<<"TIM:SCAL", "TIM:POS">>) \union SomeOf(<<"TIM:SCAL", "TIM:POS">>)
    \union Get("TRIG:SWE") \union EachPut({"SING", "TRIG:SWE", "TRIG:FORC", "RUN", "STOP", "AUT"})

InfiniiVisionTrigger ==
  Gets(<<"TRIG:MODE", "TRIG:EDGE:SOUR", "TRIG:EDGE:SLOP", "TRIG:EDGE:LEV">>)
    \union (Put("TRIG:MODE") ++ Maybe(PutInTurn(<<"TRIG:EDGE:SOUR", "TRIG:EDGE:SLOP", "TRIG:EDGE:LEV">>)))

InfiniiVisionAcquisition ==
  Gets(<<"ACQ:TYPE", "ACQ:COUN">>) \union (Put("ACQ:TYPE") ++ Maybe(Put("ACQ:COUN")))

InfiniiVisionWaveform ==
  Rescued(Selected("WAV:SOUR", PutInTurn(<<"WAV:FORM", "WAV:POIN">>) ++ GetInTurn(<<"WAV:PRE", "WAV:DATA">>)))

InfiniiVisionDisplayAndPresets ==
  Get("DISP:DATA") \union SoftGet("DISP:PERS") \union Put("DISP:PERS")
    \union SlotPresets

InfiniiVisionReadChannel ==
  Queries(<<"CHAN:DISP", "CHAN:SCAL", "CHAN:OFFS", "CHAN:COUP", "CHAN:BWL", "CHAN:INV", "CHAN:UNIT", "CHAN:PROB">>,
          {"CHAN:BWL", "CHAN:INV", "CHAN:UNIT", "CHAN:PROB"})

KeysightInfiniiVision ==
  InfiniiVisionSettings \union InfiniiVisionTrigger \union InfiniiVisionAcquisition
    \union InfiniiVisionWaveform \union InfiniiVisionDisplayAndPresets \union InfiniiVisionReadChannel

----------------------------------------------------------------------------
\* The scopes of GW Instek and Owon.  The GDS reads a channel's memory by its number.
GwInstekGds ==
  EachPut({"CHAN:DISP", "CHAN:SCAL", "CHAN:OFFS", "CHAN:COUP", "RUN", "STOP", "AUT", "SING", "FORC", "TRIG:MOD"})
    \union SoftGets(<<"TIM:SCAL", "TIM:POS">>) \union SomeOf(<<"TIM:SCAL", "TIM:POS">>)
    \union SoftGet("TRIG:MOD") \union SoftGets(<<"TRIG:SOUR", "TRIG:EDGE:SLOP", "TRIG:LEV">>)
    \union Maybe(PutInTurn(<<"TRIG:SOUR", "TRIG:EDGE:SLOP", "TRIG:LEV">>))

GdsReadings ==
  SoftGet("CHAN:MEM")
    \union SoftGets(<<"CHAN:DISP", "CHAN:SCAL", "CHAN:OFFS", "CHAN:COUP", "CHAN:PROB">>)

\* When the force command fails the driver falls back to two others; it fails only when
\* the connection has gone, and then they do as well.
XdsSettings ==
  EachPut({"CHAN:DISP", "CHAN:SCAL", "CHAN:OFFS", "CHAN:COUP", "RUN", "STOP", "AUT", "SING", "TRIG:FORC", "TRIG:SWE"})
    \union Gets(<<"TIM:SCAL", "TIM:POS">>) \union SomeOf(<<"TIM:SCAL", "TIM:POS">>)
    \union SoftGet("TRIG:SWE") \union Gets(<<"TRIG:EDGE:SOUR", "TRIG:EDGE:SLOP", "TRIG:EDGE:LEV">>)
    \union Maybe(PutInTurn(<<"TRIG:EDGE:SOUR", "TRIG:EDGE:SLOP", "TRIG:EDGE:LEV">>))

XdsReadings ==
  Rescued(Selected("WAV:SOUR", SoftGet("WAV:PRE") ++ Get("WAV:DATA")))
    \union SoftGets(<<"CHAN:DISP", "CHAN:SCAL", "CHAN:OFFS", "CHAN:COUP", "CHAN:PROB", "CHAN:BWL">>)

OwonXds == XdsSettings \union XdsReadings

----------------------------------------------------------------------------
\* Rohde & Schwarz RTB: header and samples are asked of the channel itself.
RtbSettings ==
  EachPut({"CHAN:STAT", "CHAN:SCAL", "CHAN:OFFS", "CHAN:COUP", "RUN", "STOP", "AUT", "SING", "TRIG:FORC", "TRIG:MOD"})
    \union SoftGets(<<"TIM:SCAL", "TIM:POS">>) \union SomeOf(<<"TIM:SCAL", "TIM:POS">>)
    \union SoftGet("TRIG:MOD") \union SoftGets(<<"TRIG:SOUR", "TRIG:SLOP", "TRIG:LEV">>)
    \union Maybe(PutInTurn(<<"TRIG:SOUR", "TRIG:SLOP", "TRIG:LEV">>))

RtbReadings ==
  Rescued(SoftGet("CHAN:DATA:HEAD") ++ Get("CHAN:DATA"))
    \union SoftGets(<<"CHAN:STAT", "CHAN:SCAL", "CHAN:OFFS", "CHAN:COUP">>)

RndsRtb == RtbSettings \union RtbReadings

----------------------------------------------------------------------------
\* Tektronix: the scaling queries and the curve belong to the selected source.
MsoSettings ==
  EachPut({"CH:DISP", "CH:SCA", "CH:OFFS", "CH:COUP", "ACQ:STATE", "AUT", "TRIG:FORC", "TRIG:MOD", "ACQ:STOPA"})
    \union PutInTurn(<<"ACQ:STOPA", "ACQ:STATE">>)
    \union SoftGets(<<"HOR:SCA", "HOR:POS">>) \union SomeOf(<<"HOR:SCA", "HOR:POS">>)
    \union SoftGet("TRIG:MOD") \union SoftGets(<<"TRIG:SOU", "TRIG:SLO", "TRIG:LEV">>)
    \union Maybe(PutInTurn(<<"TRIG:SOU", "TRIG:SLO", "TRIG:LEV">>))

Scaling == SoftGets(<<"WFMO:XIN", "WFMO:XZE", "WFMO:YMU", "WFMO:YOF", "WFMO:YZE">>)

MsoReadings ==
  Rescued(Selected("DAT:SOU", PutInTurn(<<"DAT:ENC", "DAT:WID">>) ++ Scaling ++ Get("CURV")))
    \union SoftGets(<<"CH:DISP", "CH:SCA", "CH:OFFS", "CH:COUP", "CH:PRO">>)

TektronixMso == MsoSettings \union MsoReadings

TbsSettings ==
  EachPut({"SEL:CH", "CH:SCA", "CH:OFFS", "CH:COUP", "ACQ:STATE", "AUT", "TRIG:FORC", "TRIG:MOD", "ACQ:STOPA"})
    \union PutInTurn(<<"ACQ:STOPA", "ACQ:STATE">>)
    \union SoftGets(<<"HOR:SCA", "HOR:POS">>) \union SomeOf(<<"HOR:SCA", "HOR:POS">>)
    \union SoftGet("TRIG:MOD") \union SoftGets(<<"TRIG:SOU", "TRIG:SLO", "TRIG:LEV">>)
    \union Maybe(PutInTurn(<<"TRIG:SOU", "TRIG:SLO", "TRIG:LEV">>))

TbsReadings ==
  Rescued(Selected("DAT:SOU", Scaling ++ SoftGet("CURV")))
    \union SoftGets(<<"SEL:CH", "CH:SCA", "CH:OFFS", "CH:COUP", "CH:PRO">>)

TektronixTbs == TbsSettings \union TbsReadings

Scopes ==
  { RigolDho800, SiglentSds, KeysightInfiniiVision, GwInstekGds \union GdsReadings, OwonXds, RndsRtb,
    TektronixMso, TektronixTbs }
=============================================================================
