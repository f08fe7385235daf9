------------------------------- MODULE Codecs -------------------------------
(***************************************************************************)
(* Settings on the wire.  Each driver has, for each setting that is one of *)
(* a few, a table that writes it as an SCPI word and another that reads it *)
(* back.  The two are written separately, the reading one as an ordered    *)
(* list of prefixes with a default, so an omission or a wrong order is not *)
(* an error but another setting.  A panel shows what was read and writes   *)
(* it back whole with the next change.  Not everything that is shown was   *)
(* read: a driver may not ask at all, answer from its memory, or take a    *)
(* timeout or an answer that it does not know for its default.             *)
(*                                                                         *)
(* A word is given by its short form.  The instrument (external) keeps the *)
(* word that it was sent and answers with it, or without a last node that  *)
(* SCPI allows it to leave out.                                            *)
(***************************************************************************)
EXTENDS Naturals, Sequences, SequencesExt, TLC

VARIABLES
  name,       \* which setting of which driver
  setting,    \* the instrument's
  inMode,     \* the instrument is in the function or trigger type that the setting belongs to
  chosen,     \* the value that was last written, Nothing after a change at the front panel
  known,      \* what the driver remembers
  shown,      \* what the panel shows, Nothing before it has read
  seen        \* which of "driver" and "panel" was told of the present setting (history)

vars == <<name, setting, inMode, chosen, known, shown, seen>>

----------------------------------------------------------------------------
\* Words of more than one node, and numbers of which one begins like the other.
Spelling ==
  "VOLT:DC" :> <<"VOLT", "DC">> @@ "VOLT:AC" :> <<"VOLT", "AC">> @@ "CURR:DC" :> <<"CURR", "DC">>
    @@ "CURR:AC" :> <<"CURR", "AC">> @@ "20" :> <<"20">> @@ "20M" :> <<"20", "M">> @@ "200M" :> <<"20", "0M">>
    @@ "RTD,385" :> <<"RTD", "385">> @@ "TC,K" :> <<"TC", "K">> @@ "TC,J" :> <<"TC", "J">>
    @@ "TC,T" :> <<"TC", "T">> @@ "TC,E" :> <<"TC", "E">> @@ "RTD,PT100" :> <<"RTD", "PT100">>
    @@ "RTD,PT1000" :> <<"RTD", "PT1000">> @@ "FRTD,PT100" :> <<"FRTD", "PT100">> @@ "FRTD,PT1000" :> <<"FRTD", "PT1000">>
    @@ "TCO,K" :> <<"TCO", "K">> @@ "TCO,J" :> <<"TCO", "J">> @@ "TCO,T" :> <<"TCO", "T">> @@ "TCO,E" :> <<"TCO", "E">>

Nodes(word) == IF word \in DOMAIN Spelling THEN Spelling[word] ELSE <<word>>

Nothing == "nothing"

\* The default of a reading table is the driver's own memory.
Remembered == "remembered"

\* reads holds words and values, in the order in which they are tried.
Codec(match, writes, reads, otherwise) ==
  [match |-> match, writes |-> writes, reads |-> reads, otherwise |-> otherwise]

\* v.startsWith(word) ... ; TABLE[v] ?? default ; n >= threshold ...
ByPrefix(writes, reads, otherwise) == Codec("prefix", writes, reads, otherwise)
ByTable(writes, reads, otherwise) == Codec("exact", writes, reads, otherwise)
ByThreshold(writes, reads, otherwise) == Codec("atLeast", writes, reads, otherwise)

Word(c, v) == IF c.match = "atLeast" THEN c.writes[v] ELSE Nodes(c.writes[v])

Matches(c, word, answer) ==
  CASE c.match = "prefix" -> IsPrefix(Nodes(word), answer)
    [] c.match = "exact" -> Nodes(word) = answer
    [] c.match = "atLeast" -> answer >= word

\* The value of the first entry that matches.
Decode(c, answer, memory) ==
  LET hits == SelectInSeq(c.reads, LAMBDA entry : Matches(c, entry[1], answer))
  IN  IF hits # 0 THEN c.reads[hits][2] ELSE IF c.otherwise = Remembered THEN memory ELSE c.otherwise

----------------------------------------------------------------------------
\* Multimeters.
ModeWords ==
  "dcVoltage" :> "VOLT:DC" @@ "acVoltage" :> "VOLT:AC" @@ "dcCurrent" :> "CURR:DC" @@ "acCurrent" :> "CURR:AC"
    @@ "resistance" :> "RES" @@ "fourWireResistance" :> "FRES" @@ "frequency" :> "FREQ" @@ "period" :> "PER"
    @@ "capacitance" :> "CAP" @@ "continuity" :> "CONT" @@ "diode" :> "DIOD"


ModeRules ==
  <<<<"VOLT:AC", "acVoltage">>, <<"VOLT", "dcVoltage">>, <<"CURR:AC", "acCurrent">>, <<"CURR", "dcCurrent">>,
    <<"FRES", "fourWireResistance">>, <<"RES", "resistance">>, <<"FREQ", "frequency">>, <<"PER", "period">>,
    <<"CAP", "capacitance">>, <<"CONT", "continuity">>, <<"DIOD", "diode">>>>

WithTemperature(writes) == writes @@ "temperature" :> "TEMP"

AlsoTemperature(reads) == Append(reads, <<"TEMP", "temperature">>)

SdmMode == ByPrefix(WithTemperature(ModeWords), AlsoTemperature(ModeRules), Remembered)
TruevoltMode == ByPrefix(WithTemperature(ModeWords), AlsoTemperature(ModeRules), Remembered)
GdmMode == ByPrefix(WithTemperature(ModeWords), AlsoTemperature(ModeRules), Remembered)
XdmMode == ByPrefix(ModeWords, ModeRules, Remembered)
Dm800Mode == ByPrefix(WithTemperature(ModeWords), AlsoTemperature(ModeRules), "dcVoltage")

\* These know Fluke's own words as well.
BenchMode ==
  ByPrefix(WithTemperature(ModeWords),
    <<<<"VAC", "acVoltage">>, <<"IAC", "acCurrent">>, <<"F4W", "fourWireResistance">>>> \o AlsoTemperature(ModeRules),
    Remembered)

HmcMode ==
  ByPrefix(WithTemperature(ModeWords),
    <<<<"VAC", "acVoltage">>, <<"VDC", "dcVoltage">>, <<"IAC", "acCurrent">>, <<"IDC", "dcCurrent">>,
      <<"F4W", "fourWireResistance">>>> \o AlsoTemperature(ModeRules),
    Remembered)

DmmTriggerRules == <<<<"EXT", "external">>, <<"BUS", "bus">>, <<"IMM", "immediate">>>>

DmmTrigger ==
  ByPrefix("external" :> "EXT" @@ "bus" :> "BUS" @@ "software" :> "IMM" @@ "immediate" :> "IMM",
    DmmTriggerRules, "immediate")

Dm800Trigger ==
  ByPrefix("external" :> "EXT" @@ "bus" :> "BUS" @@ "software" :> "BUS" @@ "immediate" :> "IMM",
    DmmTriggerRules, "immediate")

DmmUnit ==
  ByTable("celsius" :> "C" @@ "fahrenheit" :> "F" @@ "kelvin" :> "K",
    <<<<"F", "fahrenheit">>, <<"K", "kelvin">>>>, "celsius")

Dm800Unit ==
  ByTable("celsius" :> "C" @@ "fahrenheit" :> "F" @@ "kelvin" :> "K",
    <<<<"C", "celsius">>, <<"F", "fahrenheit">>, <<"K", "kelvin">>>>, "celsius")

Thermocouples(tc) ==
  "thermocouple-k" :> tc[1] @@ "thermocouple-j" :> tc[2] @@ "thermocouple-t" :> tc[3] @@ "thermocouple-e" :> tc[4]

\* These two write the probe and never ask for it.
SdmProbe ==
  ByTable("pt100" :> "RTD,PT100" @@ "pt1000" :> "RTD,PT1000" @@ "thermistor" :> "THER"
    @@ Thermocouples(<<"TC,K", "TC,J", "TC,T", "TC,E">>), <<>>, "pt100")

TruevoltProbe ==
  ByTable("pt100" :> "FRTD,PT100" @@ "pt1000" :> "FRTD,PT1000" @@ "thermistor" :> "THER"
    @@ Thermocouples(<<"TCO,K", "TCO,J", "TCO,T", "TCO,E">>), <<>>, "pt100")

Dm800Probe ==
  ByPrefix(
    "pt100" :> "RTD,385" @@ "pt1000" :> "RTD,385" @@ "thermistor" :> "FTH" @@ "thermocouple-k" :> "TC,K"
      @@ "thermocouple-j" :> "TC,J" @@ "thermocouple-t" :> "TC,T" @@ "thermocouple-e" :> "TC,E",
    <<<<"TC,K", "thermocouple-k">>, <<"TC,J", "thermocouple-j">>, <<"TC,T", "thermocouple-t">>,
      <<"TC,E", "thermocouple-e">>, <<"TC", "thermocouple-k">>, <<"FTH", "thermistor">>, <<"THER", "thermistor">>,
      <<"RTD", "pt100">>, <<"FRTD", "pt100">>>>, "pt100")

Dm800Second ==
  ByPrefix("frequency" :> "FREQ" @@ "period" :> "PER" @@ "acVoltage" :> "VOLT:AC" @@ "off" :> "OFF",
    <<<<"FREQ", "frequency">>, <<"PER", "period">>, <<"VOLT:AC", "acVoltage">>>>, "off")

BenchMath ==
  ByTable("none" :> "NONE" @@ "null" :> "NULL" @@ "db" :> "DB" @@ "dbm" :> "DBM" @@ "stats" :> "AVER" @@ "limit" :> "LIM",
    <<<<"NULL", "null">>, <<"DB", "db">>, <<"DBM", "dbm">>, <<"AVER", "stats">>, <<"LIM", "limit">>>>, "none")

----------------------------------------------------------------------------
\* Oscilloscopes.
CouplingWords == "dc" :> "DC" @@ "ac" :> "AC" @@ "gnd" :> "GND"

CouplingRules == <<<<"DC", "dc">>, <<"AC", "ac">>, <<"GND", "gnd">>>>

DhoCoupling == ByTable(CouplingWords, CouplingRules, "dc")
SdsCoupling == ByTable(CouplingWords, CouplingRules, "dc")
XdsCoupling == ByTable(CouplingWords, CouplingRules, "dc")
GdsCoupling == ByTable(CouplingWords, CouplingRules, "dc")
MsoCoupling == ByTable(CouplingWords, CouplingRules, "dc")
TbsCoupling == ByTable(CouplingWords, CouplingRules, "dc")
RtbCoupling ==
  ByTable("dc" :> "DCL" @@ "ac" :> "ACL" @@ "gnd" :> "GND", CouplingRules \o <<<<"DCL", "dc">>, <<"ACL", "ac">>>>, "dc")
InfiniivisionCoupling == ByTable("dc" :> "DC" @@ "ac" :> "AC" @@ "gnd" :> "DC", CouplingRules, "dc")

DhoBandwidth ==
  ByPrefix("off" :> "OFF" @@ "20M" :> "20M" @@ "100M" :> "100M" @@ "200M" :> "200M",
    <<<<"20", "20M">>, <<"100M", "100M">>, <<"200M", "200M">>>>, "off")

SdsBandwidth ==
  ByTable("off" :> "FULL" @@ "20M" :> "20M" @@ "200M" :> "200M",
    <<<<"FULL", "off">>, <<"OFF", "off">>, <<"20M", "20M">>, <<"200M", "200M">>>>, "off")

InfiniivisionBandwidth == ByTable("off" :> "OFF" @@ "20M" :> "ON", <<<<"ON", "20M">>>>, "off")

\* A record length; 0 stands for AUTO, which is not a number.
DepthsFrom1k ==
  <<<<25000000, "25M">>, <<10000000, "10M">>, <<1000000, "1M">>, <<100000, "100k">>, <<10000, "10k">>, <<1000, "1k">>>>

Depths ==
  "1k" :> 1000 @@ "10k" :> 10000 @@ "100k" :> 100000 @@ "1M" :> 1000000 @@ "10M" :> 10000000 @@ "25M" :> 25000000

DhoDepth == ByThreshold("auto" :> 0 @@ Depths, DepthsFrom1k, "auto")
SdsDepth == ByThreshold(Depths, DepthsFrom1k, "auto")

AcquisitionWords ==
  "average" :> "AVER" @@ "peakDetect" :> "PEAK" @@ "highResolution" :> "HRES" @@ "normal" :> "NORM"

AcquisitionRules ==
  <<<<"AVER", "average">>, <<"PEAK", "peakDetect">>, <<"HRES", "highResolution">>, <<"HIGH", "highResolution">>>>

DhoAcquisition == ByPrefix(AcquisitionWords, AcquisitionRules, "normal")
SdsAcquisition == ByPrefix(AcquisitionWords, AcquisitionRules, "normal")
InfiniivisionAcquisition == ByPrefix(AcquisitionWords, AcquisitionRules, "normal")

PositiveNegative(either) == "rising" :> "POS" @@ "falling" :> "NEG" @@ "either" :> either

PositiveNegativeRules == <<<<"POS", "rising">>, <<"NEG", "falling">>>>

RiseFall(either) == "rising" :> "RIS" @@ "falling" :> "FALL" @@ "either" :> either

RiseFallRules == <<<<"RIS", "rising">>, <<"FALL", "falling">>>>

DhoSlope == ByPrefix(PositiveNegative("RFAL"), PositiveNegativeRules \o RiseFallRules, "either")
SdsSlope == ByPrefix(RiseFall("ALT"), RiseFallRules, "either")
InfiniivisionSlope == ByPrefix(PositiveNegative("EITH"), PositiveNegativeRules, "either")
GdsSlope == ByPrefix(PositiveNegative("EIT"), PositiveNegativeRules \o RiseFallRules, "either")
RtbSlope == ByPrefix(PositiveNegative("EITH"), PositiveNegativeRules \o RiseFallRules, "either")
MsoSlope == ByPrefix(RiseFall("EIT"), RiseFallRules, "either")
TbsSlope == ByPrefix(RiseFall("EIT"), RiseFallRules, "either")

\* It writes one pair of words and reads the other.
XdsSlope == ByPrefix(PositiveNegative("EITH"), RiseFallRules, "either")

SweepWords == "auto" :> "AUTO" @@ "normal" :> "NORM" @@ "single" :> "SING"

DhoSweep == ByPrefix(SweepWords, <<<<"AUTO", "auto">>, <<"NORM", "normal">>>>, "single")
SdsSweep == ByPrefix(SweepWords, <<<<"NORM", "normal">>, <<"SING", "single">>>>, "auto")
XdsSweep == ByPrefix(SweepWords, <<<<"NORM", "normal">>, <<"SING", "single">>>>, "auto")
GdsSweep == ByPrefix(SweepWords, <<<<"NORM", "normal">>, <<"SING", "single">>>>, "auto")

----------------------------------------------------------------------------
\* Spectrum analyzers.
TraceWords ==
  "clearWrite" :> "WRIT" @@ "maxHold" :> "MAXH" @@ "minHold" :> "MINH" @@ "average" :> "AVER" @@ "view" :> "VIEW"

TraceRules == <<<<"MAXH", "maxHold">>, <<"MINH", "minHold">>, <<"AVER", "average">>, <<"VIEW", "view">>>>

SsaTrace == ByPrefix(TraceWords, TraceRules, "clearWrite")
FpcTrace == ByPrefix(TraceWords, TraceRules, "clearWrite")
GspTrace == ByPrefix(TraceWords, TraceRules, "clearWrite")

DetectorWords == "peak" :> "POS" @@ "negPeak" :> "NEG" @@ "sample" :> "SAMP" @@ "rms" :> "RMS" @@ "average" :> "AVER"

DetectorRules ==
  <<<<"NEG", "negPeak">>, <<"POS", "peak">>, <<"PEAK", "peak">>, <<"SAMP", "sample">>, <<"RMS", "rms">>, <<"AVER", "average">>>>

SsaDetector == ByPrefix(DetectorWords, DetectorRules, "peak")
FpcDetector == ByPrefix(DetectorWords, DetectorRules, "peak")
GspDetector == ByPrefix(DetectorWords, DetectorRules, "peak")

SsaMarker ==
  ByPrefix("normal" :> "POS" @@ "delta" :> "DELT" @@ "peak" :> "POS" @@ "band" :> "BAND",
    <<<<"DELT", "delta">>, <<"BAND", "band">>, <<"PEAK", "peak">>>>, "normal")

SsaTrigger ==
  ByPrefix("freeRun" :> "IMM" @@ "video" :> "VID" @@ "external" :> "EXT" @@ "if" :> "IF" @@ "fmt" :> "FMT",
    <<<<"VID", "video">>, <<"EXT", "external">>, <<"IF", "if">>, <<"FMT", "fmt">>>>, "freeRun")

SsaAveraging ==
  ByPrefix("logPower" :> "LOG" @@ "power" :> "POW" @@ "voltage" :> "VOLT",
    <<<<"POW", "power">>, <<"VOLT", "voltage">>>>, "logPower")

----------------------------------------------------------------------------
\* Signal generators.
WaveWords(noise, arbitrary) ==
  "sine" :> "SIN" @@ "square" :> "SQU" @@ "ramp" :> "RAMP" @@ "pulse" :> "PULS" @@ "noise" :> noise @@ "dc" :> "DC"
    @@ "arbitrary" :> arbitrary

WaveRules ==
  <<<<"SIN", "sine">>, <<"SQU", "square">>, <<"RAMP", "ramp">>, <<"PULS", "pulse">>, <<"NOIS", "noise">>, <<"DC", "dc">>>>

SdgWaveform == ByTable(WaveWords("NOIS", "ARB"), WaveRules \o <<<<"ARB", "arbitrary">>>>, "sine")
TrueformWaveform ==
  ByTable(WaveWords("NOIS", "ARB"), WaveRules \o <<<<"ARB", "arbitrary">>, <<"TRI", "ramp">>, <<"PRBS", "arbitrary">>>>, "sine")
AfgWaveform ==
  ByTable(WaveWords("PRN", "EMEM"),
    Front(Front(WaveRules)) \o <<<<"PRN", "noise">>, <<"DC", "dc">>, <<"EMEM", "arbitrary">>, <<"ARB", "arbitrary">>,
      <<"USER", "arbitrary">>>>, "sine")
GwAfgWaveform ==
  ByTable(WaveWords("NOIS", "USER"), WaveRules \o <<<<"TRI", "ramp">>, <<"USER", "arbitrary">>, <<"ARB", "arbitrary">>>>, "sine")
HmfWaveform ==
  ByTable(WaveWords("NOIS", "ARB"), WaveRules \o <<<<"TRI", "ramp">>, <<"ARB", "arbitrary">>, <<"USER", "arbitrary">>>>, "sine")
Dg900Waveform ==
  ByPrefix(WaveWords("NOIS", "USER"), Tail(WaveRules) \o <<<<"USER", "arbitrary">>, <<"ARB", "arbitrary">>>>, "sine")

Impedance(high) == ByTable("highZ" :> high @@ "50ohm" :> "50", <<<<"INF", "highZ">>, <<"HZ", "highZ">>>>, "50ohm")

SdgImpedance == Impedance("HZ")
Dg900Impedance == Impedance("INF")
TrueformImpedance == Impedance("INF")
AfgImpedance == Impedance("INF")
GwAfgImpedance == Impedance("INF")
HmfImpedance == Impedance("INF")

Dg900Modulation ==
  ByPrefix("am" :> "AM" @@ "fm" :> "FM" @@ "pm" :> "PM" @@ "pwm" :> "PWM" @@ "fsk" :> "FSK" @@ "ask" :> "ASK" @@ "psk" :> "PSK",
    <<<<"FM", "fm">>, <<"PWM", "pwm">>, <<"PM", "pm">>, <<"FSK", "fsk">>, <<"ASK", "ask">>, <<"PSK", "psk">>>>, "am")

Dg900Shape ==
  ByPrefix("sine" :> "SIN" @@ "square" :> "SQU" @@ "triangle" :> "TRI" @@ "ramp" :> "RAMP" @@ "noise" :> "NOIS",
    <<<<"SQU", "square">>, <<"TRI", "triangle">>, <<"RAMP", "ramp">>, <<"NOIS", "noise">>>>, "sine")

Dg900Trigger ==
  ByPrefix("external" :> "EXT" @@ "manual" :> "MAN" @@ "immediate" :> "IMM",
    <<<<"EXT", "external">>, <<"MAN", "manual">>, <<"BUS", "manual">>>>, "immediate")

Dg900Burst ==
  ByPrefix("gated" :> "GAT" @@ "nCycle" :> "NCYC" @@ "triggered" :> "TRIG", <<<<"GAT", "gated">>, <<"NCYC", "nCycle">>>>, "triggered")

----------------------------------------------------------------------------
\* Electronic loads and power supplies.
LoadWords == "cc" :> "CURR" @@ "cv" :> "VOLT" @@ "cr" :> "RES" @@ "cp" :> "POW"

LoadRules == <<<<"VOLT", "cv">>, <<"RES", "cr">>, <<"POW", "cp">>>>

Dl3000Mode == ByPrefix(LoadWords, LoadRules, "cc")
El3Mode == ByPrefix(LoadWords, LoadRules, "cc")
SdlMode == ByPrefix(LoadWords, LoadRules, "cc")
Dl3000Battery == ByPrefix("cc" :> "CURR" @@ "cr" :> "RES" @@ "cp" :> "POW", Tail(LoadRules), "cc")

PairingRules == <<<<"SER", "series">>, <<"PAR", "parallel">>>>

Dp900Pairing == ByPrefix("series" :> "SER" @@ "parallel" :> "PAR" @@ "off" :> "OFF", PairingRules, "off")
E36Pairing == ByPrefix("series" :> "SER" @@ "parallel" :> "PAR" @@ "off" :> "NONE", PairingRules, "off")
SpdPairing == ByTable("series" :> "2" @@ "parallel" :> "1" @@ "off" :> "0", <<<<"2", "series">>, <<"1", "parallel">>>>, "off")
----------------------------------------------------------------------------
\* The settings that a panel can both write and read.
Settings ==
  [SdmMode |-> SdmMode, TruevoltMode |-> TruevoltMode, GdmMode |-> GdmMode, XdmMode |-> XdmMode,
   Dm800Mode |-> Dm800Mode, BenchMode |-> BenchMode, HmcMode |-> HmcMode, DmmTrigger |-> DmmTrigger,
   Dm800Trigger |-> Dm800Trigger, DmmUnit |-> DmmUnit, Dm800Unit |-> Dm800Unit, Dm800Probe |-> Dm800Probe,
   SdmProbe |-> SdmProbe, TruevoltProbe |-> TruevoltProbe,
   Dm800Second |-> Dm800Second, BenchMath |-> BenchMath, DhoCoupling |-> DhoCoupling,
   SdsCoupling |-> SdsCoupling, XdsCoupling |-> XdsCoupling, GdsCoupling |-> GdsCoupling,
   MsoCoupling |-> MsoCoupling, TbsCoupling |-> TbsCoupling, RtbCoupling |-> RtbCoupling,
   InfiniivisionCoupling |-> InfiniivisionCoupling, DhoBandwidth |-> DhoBandwidth,
   SdsBandwidth |-> SdsBandwidth, InfiniivisionBandwidth |-> InfiniivisionBandwidth, DhoDepth |-> DhoDepth,
   SdsDepth |-> SdsDepth, DhoAcquisition |-> DhoAcquisition, SdsAcquisition |-> SdsAcquisition,
   InfiniivisionAcquisition |-> InfiniivisionAcquisition, DhoSlope |-> DhoSlope, SdsSlope |-> SdsSlope,
   InfiniivisionSlope |-> InfiniivisionSlope, GdsSlope |-> GdsSlope, RtbSlope |-> RtbSlope,
   MsoSlope |-> MsoSlope, TbsSlope |-> TbsSlope, XdsSlope |-> XdsSlope, DhoSweep |-> DhoSweep,
   SdsSweep |-> SdsSweep, XdsSweep |-> XdsSweep, GdsSweep |-> GdsSweep, SsaTrace |-> SsaTrace,
   FpcTrace |-> FpcTrace, GspTrace |-> GspTrace, SsaDetector |-> SsaDetector, FpcDetector |-> FpcDetector,
   GspDetector |-> GspDetector, SsaMarker |-> SsaMarker, SsaTrigger |-> SsaTrigger,
   SsaAveraging |-> SsaAveraging, SdgWaveform |-> SdgWaveform, TrueformWaveform |-> TrueformWaveform,
   AfgWaveform |-> AfgWaveform, GwAfgWaveform |-> GwAfgWaveform, HmfWaveform |-> HmfWaveform,
   Dg900Waveform |-> Dg900Waveform, SdgImpedance |-> SdgImpedance, Dg900Impedance |-> Dg900Impedance,
   TrueformImpedance |-> TrueformImpedance, AfgImpedance |-> AfgImpedance, GwAfgImpedance |-> GwAfgImpedance,
   HmfImpedance |-> HmfImpedance, Dg900Modulation |-> Dg900Modulation, Dg900Shape |-> Dg900Shape,
   Dg900Trigger |-> Dg900Trigger, Dg900Burst |-> Dg900Burst, Dl3000Mode |-> Dl3000Mode, El3Mode |-> El3Mode,
   SdlMode |-> SdlMode, Dl3000Battery |-> Dl3000Battery, Dp900Pairing |-> Dp900Pairing,
   E36Pairing |-> E36Pairing, SpdPairing |-> SpdPairing]

Codecs == DOMAIN Settings

Values(n) == DOMAIN Settings[n].writes

\* The settings that a form sends whole with the next change of any of them.
Forms ==
  {"DhoSlope", "SdsSlope", "InfiniivisionSlope", "GdsSlope", "RtbSlope", "MsoSlope", "TbsSlope", "XdsSlope",
   "DhoAcquisition", "SdsAcquisition", "InfiniivisionAcquisition", "DhoDepth", "SdsDepth",
   "DmmTrigger", "Dm800Trigger", "BenchMath", "DmmUnit", "Dm800Unit", "Dm800Probe", "SdmProbe", "TruevoltProbe",
   "SdgWaveform", "TrueformWaveform", "AfgWaveform", "GwAfgWaveform", "HmfWaveform", "Dg900Waveform"}

\* The queries whose timeout the driver turns into its default.
Swallowing ==
  {"GdmMode", "BenchMode", "HmcMode", "DmmUnit", "Dm800Trigger", "Dm800Second", "Dm800Probe", "BenchMath",
   "XdsCoupling", "GdsCoupling", "RtbCoupling", "MsoCoupling", "TbsCoupling",
   "DhoBandwidth", "SdsBandwidth", "InfiniivisionBandwidth", "DhoDepth",
   "GdsSlope", "RtbSlope", "MsoSlope", "TbsSlope", "XdsSweep", "GdsSweep",
   "FpcTrace", "FpcDetector", "GspTrace", "GspDetector", "AfgWaveform", "GwAfgWaveform", "HmfWaveform",
   "TrueformImpedance", "AfgImpedance", "GwAfgImpedance", "HmfImpedance", "E36Pairing"}

\* Of these, the ones whose default is that nothing is shown.
Blank == {"SdsBandwidth", "InfiniivisionBandwidth"}

\* What is shown where the driver does not ask: outside the function or trigger type
\* that the setting belongs to, or ever.  The form of DhoSlope has no slope for a pulse.
Unasked ==
  [DhoSlope |-> {"rising", Nothing}, SdsSlope |-> {"rising"}, InfiniivisionSlope |-> {"rising"},
   Dm800Unit |-> {Remembered}, Dm800Probe |-> {Remembered}, Dm800Second |-> {"off"},
   SdmProbe |-> {"pt100"}, TruevoltProbe |-> {"pt100"}]

NeverAsked == {"SdmProbe", "TruevoltProbe"}

OfOneMode == DOMAIN Unasked \ NeverAsked

Asked == inMode /\ name \notin NeverAsked

\* The drivers that remember, and what they remember at first.
Initially ==
  [n \in {c \in Codecs : Settings[c].otherwise = Remembered} |-> "dcVoltage"]
    @@ "Dm800Unit" :> "celsius" @@ "Dm800Probe" :> "pt100"

\* They remember what they command, not what they read.
ForgetsReads == {"SdmMode", "XdmMode"}

\* Values that the wire cannot tell apart, and what they are read back as.
Approximated ==
  <<"DmmTrigger", "software">> :> "immediate" @@ <<"Dm800Trigger", "software">> :> "bus"
    @@ <<"Dm800Probe", "pt1000">> :> "pt100" @@ <<"InfiniivisionCoupling", "gnd">> :> "dc"
    @@ <<"SsaMarker", "peak">> :> "normal"

\* Values that are read back as another although the wire does tell them apart: the
\* words that XdsSlope writes are not those it reads, and 200M contains the 20 that
\* DhoBandwidth looks for first.
Misread ==
  <<"XdsSlope", "rising">> :> "either" @@ <<"XdsSlope", "falling">> :> "either" @@ <<"DhoBandwidth", "200M">> :> "20M"

ReadBack(n, v) ==
  IF <<n, v>> \in DOMAIN Approximated THEN Approximated[<<n, v>>]
  ELSE IF <<n, v>> \in DOMAIN Misread THEN Misread[<<n, v>>] ELSE v

\* The instrument may leave out the node DC at the end.
Answers(word) ==
  {word} \union (IF Settings[name].match # "atLeast" /\ Len(word) > 1 /\ Last(word) = "DC" THEN {Front(word)} ELSE {})

Words(n) == {Word(Settings[n], v) : v \in Values(n)}

\* What else the instrument may hold: a word of a function that the driver does not
\* know, a record length between two of its steps.
Foreign(n) == IF Settings[n].match = "atLeast" THEN {500, 5000000} ELSE {<<"OTHER">>}

Init ==
  /\ name \in Codecs
  /\ setting \in Words(name) \union Foreign(name)
  /\ inMode \in IF name \in OfOneMode THEN BOOLEAN ELSE {TRUE}
  /\ chosen = Nothing
  /\ known = IF name \in DOMAIN Initially THEN Initially[name] ELSE Nothing
  /\ shown = Nothing
  /\ seen = {}

\* Mutant: the memory stays what it was at first.
LearnedNever(v) == known

\* A driver that remembers puts in its memory what it has commanded or read.
Learned(v) == IF name \in DOMAIN Initially THEN v ELSE Nothing

\* The command selects the function or trigger type as well.
Write(v) ==
  /\ v \in Values(name)
  /\ setting' = Word(Settings[name], v)
  /\ inMode' = TRUE
  /\ chosen' = v
  /\ known' = Learned(v)
  /\ UNCHANGED name

\* From any client: this panel does not learn of it.  Outside a mode that has one, the
\* second display is refused.
Set ==
  /\ inMode \/ name # "Dm800Second"
  /\ \E v \in Values(name) : Write(v)
  /\ seen' = {"driver"}
  /\ UNCHANGED shown

Read ==
  /\ Asked
  /\ \E a \in Answers(setting) : shown' = Decode(Settings[name], a, known)
  /\ known' = IF name \in ForgetsReads THEN known ELSE Learned(shown')
  /\ seen' = IF setting \notin Words(name) THEN {}
             ELSE IF name \in ForgetsReads THEN seen \union {"panel"} ELSE {"driver", "panel"}
  /\ UNCHANGED <<name, setting, inMode, chosen>>

\* The panel is shown what the driver remembers.
FromMemory == IF "driver" \in seen THEN {"driver", "panel"} ELSE {}

ReadUnasked ==
  /\ ~Asked
  /\ \E v \in Unasked[name] :
       /\ shown' = IF v = Remembered THEN known ELSE v
       /\ seen' = IF v = Remembered THEN FromMemory ELSE {}
  /\ UNCHANGED <<name, setting, inMode, chosen, known>>

ReadTimesOut ==
  /\ Asked
  /\ name \in Swallowing
  /\ LET default == Settings[name].otherwise
         v == IF default = Remembered THEN known ELSE default
     IN  /\ shown' = IF name \in Blank THEN Nothing ELSE v
         /\ known' = Learned(v)
         /\ seen' = IF default = Remembered THEN FromMemory ELSE {}
  /\ UNCHANGED <<name, setting, inMode, chosen>>

\* The panel's form goes back whole.  A value that is no word is not sent (SdsDepth's auto).
WriteBack ==
  /\ name \in Forms
  /\ shown # Nothing
  /\ \/ Write(shown) /\ seen' = {"driver", "panel"}
     \/ shown \notin Values(name) /\ UNCHANGED <<name, setting, inMode, chosen, known, seen>>
  /\ UNCHANGED shown

\* Nobody is told of what is set at the instrument.
FrontPanel ==
  /\ setting' \in Words(name) \union Foreign(name)
  /\ chosen' = Nothing
  /\ seen' = {}
  /\ UNCHANGED <<name, inMode, known, shown>>

\* Another function or trigger type, from the front panel or a client; the setting stays.
ChangeMode ==
  /\ name \in OfOneMode
  /\ inMode' = ~inMode
  /\ UNCHANGED <<name, setting, chosen, known, shown, seen>>

Next == Set \/ Read \/ ReadUnasked \/ ReadTimesOut \/ WriteBack \/ FrontPanel \/ ChangeMode

Spec == Init /\ [][Next]_vars
----------------------------------------------------------------------------

\* A form whose panel was told of the present setting, by an answer or by the driver's
\* memory (dm800.ts:688-691), writes it back as it was, also a setting that the front
\* panel made, one that the wire cannot tell from another, and one read in another
\* function or from memory after another client's command; only a misread word is
\* another.  It says nothing of a guess: a timeout or an unknown answer taken for the
\* default, a slope or a probe that was not asked for, a value set since at the front
\* panel or by another client.  Those the form does write over the setting.
WritingBackChangesNothing ==
  [][WriteBack /\ "panel" \in seen =>
       \/ setting' = setting
       \/ \E x \in DOMAIN Misread : x[1] = name /\ Word(Settings[name], x[2]) = setting]_vars
============================================================================
