----------------------------- MODULE SaDrivers -----------------------------
(***************************************************************************)
(* The methods of the spectrum-analyzer drivers, as scripts, for the trace *)
(* or the marker of the caller.  A request has optional parts; the drivers *)
(* check each part just before they send it.                               *)
(***************************************************************************)
EXTENDS Scripts

\* An optional part whose value is checked when the parts before it are set.
Part(r) == Maybe(Checked(Put(r)))

FrequencyWords == <<"FREQ:CENT", "FREQ:SPAN", "FREQ:STAR", "FREQ:STOP">>

Frequency(reads) ==
  reads
    \union Checked(PutInTurn(<<"FREQ:CENT", "FREQ:SPAN">>) \union PutInTurn(<<"FREQ:STAR", "FREQ:STOP">>))

----------------------------------------------------------------------------
\* Siglent SSA3000X.
SsaFrequencyAndLevel ==
  Frequency(Gets(FrequencyWords)) \union Get("RLEV") \union Checked(Put("RLEV"))

SsaBandwidthAndSweep ==
  Gets(<<"BAND:RES", "BAND:VID", "BAND:RES:AUTO", "BAND:VID:AUTO">>)
    \union (Maybe(Put("BAND:RES:AUTO")) ++ Maybe(Put("BAND:VID:AUTO")) ++ Part("BAND:RES") ++ Part("BAND:VID"))
    \union Gets(<<"SWE:POIN", "SWE:TIME", "INIT:CONT">>)
    \union (Part("SWE:POIN") ++ Part("SWE:TIME") ++ Maybe(Put("INIT:CONT")))
    \union Put("INIT:IMM")

\* The amplitudes of a trace are spread over the frequency range that is asked for
\* together with them.
SsaTraces ==
  Checked( Gets(<<"TRAC:MODE", "TRAC:DET", "TRAC:DISP">>) \union SomeOf(<<"TRAC:MODE", "TRAC:DET", "TRAC:DISP">>)
             \union Through("FREQ:SPAN", Gets(<<"FREQ:CENT", "FREQ:SPAN", "FREQ:STAR", "FREQ:STOP", "TRAC:DATA">>)) )

SsaInput ==
  Gets(<<"POW:ATT", "POW:ATT:AUTO">>) \union Gets(<<"POW:ATT", "POW:ATT:AUTO", "POW:GAIN">>)
    \union (Maybe(Put("POW:ATT:AUTO")) ++ Part("POW:ATT") ++ Part("POW:GAIN") ++ Checked(Nothing))

SsaReadMarker == Gets(<<"MARK:STAT", "MARK:MODE", "MARK:X", "MARK:Y">>)

SsaMarkers ==
  Checked( SsaReadMarker \union (Put("MARK:MAX") ++ SsaReadMarker) \union Put("MARK:STAT")
             \union ( PutInTurn(<<"MARK:STAT", "MARK:MODE">>) ++ Maybe(EachPut({"MARK:REF", "MARK:X"}))
                        ++ Part("MARK:TRAC") ++ Maybe(Put("MARK:BAND")) ) )

SsaChannelPower ==
  Gets(<<"ACH:STAT", "POW:MODE", "ACH:BAND", "ACH:SPAC", "ACH:COUN">>) \union Get("READ:CHP")
    \union (PutInTurn(<<"POW:MODE", "ACH:BAND">>) ++ Maybe(PutInTurn(<<"ACH:SPAC", "ACH:COUN">>)) ++ Put("ACH:STAT"))

SsaTriggerAndLimits ==
  Gets(<<"TRIG:SOUR", "TRIG:LEV", "TRIG:SLOP">>) \union (Put("TRIG:SOUR") ++ SomeOf(<<"TRIG:LEV", "TRIG:SLOP">>))
    \union Rescued(Gets(<<"LLIN:STAT", "LLIN:TIT">>)) \union Rescued(Get("LLIN:FAIL")) \union Put("LLIN:DEL")
    \union Checked(Put("LLIN:TIT") ++ Maybe(Put("LLIN:DATA")) ++ Put("LLIN:STAT"))

SsaAveragingAndPresets ==
  Gets(<<"AVER:STAT", "AVER:COUN", "AVER:TYPE">>)
    \union Checked(PutInTurn(<<"AVER:COUN", "AVER:TYPE", "AVER:STAT">>)) \union SlotPresets

SiglentSsa3000x ==
  SsaFrequencyAndLevel \union SsaBandwidthAndSweep \union SsaTraces \union SsaInput \union SsaMarkers
    \union SsaChannelPower \union SsaTriggerAndLimits \union SsaAveragingAndPresets

----------------------------------------------------------------------------
\* Rohde & Schwarz FPC and GW Instek GSP: every query has a default but the trace, and
\* values out of range are passed over in silence.
SoftBandwidthAndSweep ==
  SoftGets(<<"BAND:RES", "BAND:VID", "BAND:RES:AUTO", "BAND:VID:AUTO">>)
    \union SomeOf(<<"BAND:RES:AUTO", "BAND:VID:AUTO", "BAND:RES", "BAND:VID">>)
    \union SoftGets(<<"SWE:POIN", "SWE:TIME", "INIT:CONT">>)
    \union SomeOf(<<"SWE:POIN", "SWE:TIME", "INIT:CONT">>) \union Put("INIT:IMM")

SoftTraces ==
  Checked( SoftGets(<<"TRAC:MODE", "TRAC:DET", "TRAC:STAT">>) \union SomeOf(<<"TRAC:MODE", "TRAC:DET", "TRAC:STAT">>)
             \union Through("FREQ:SPAN", Queries(<<"FREQ:CENT", "FREQ:SPAN", "FREQ:STAR", "FREQ:STOP", "TRAC:DATA">>,
                                                 {"FREQ:CENT", "FREQ:SPAN", "FREQ:STAR", "FREQ:STOP"})) )

SoftInput ==
  SoftGets(<<"INP:ATT", "INP:ATT:AUTO", "INP:GAIN">>)
    \union (SomeOf(<<"INP:ATT:AUTO", "INP:ATT">>) ++ Part("INP:GAIN"))

SoftMarkers ==
  Checked( SoftGets(<<"MARK:STAT", "MARK:X", "MARK:Y">>)
             \union (Put("MARK:MAX") ++ SoftGets(<<"MARK:STAT", "MARK:X", "MARK:Y">>))
             \union (Put("MARK:STAT") ++ Maybe(Put("MARK:X"))) )

RndsFpc ==
  Frequency(SoftGets(FrequencyWords)) \union SoftGet("RLEV") \union Checked(Put("RLEV")) \union SoftBandwidthAndSweep
    \union SoftTraces \union SoftInput \union SoftMarkers \union SlotPresets

GspFrequencyAndSweep ==
  Frequency(SoftGets(FrequencyWords)) \union SoftGet("RLEV") \union Checked(Put("RLEV")) \union SoftBandwidthAndSweep

GspTracesAndInput == SoftTraces \union SoftInput

GwInstekGsp == GspFrequencyAndSweep \union GspTracesAndInput \union SoftMarkers \union SlotPresets

SpectrumAnalyzers == { SiglentSsa3000x, RndsFpc, GwInstekGsp }
=============================================================================
