------------------------------- MODULE Routes -------------------------------
(***************************************************************************)
(* The REST handlers of the server, as scripts over the calls they make on *)
(* the session's facade.  A key is a method and the path after             *)
(* /api/sessions/:id.  Here a register is what a facade call sets or asks  *)
(* for; the lines of a facade call are in the driver modules.  Every       *)
(* handler first looks up the facade and refuses a session that has none   *)
(* or one of another kind (Requests).                                      *)
(***************************************************************************)
EXTENDS Scripts, TLC

\* Facade calls that read: also those that a handler starts together are of different
\* moments, for each may take several lines.
Asks(s) == GetInTurn(s)

\* A getter of an optional part answers without the instrument when the part is missing;
\* a setter refuses.
Optional(s) == Maybe(Asks(s))

\* Optional calls of one handler, in its order.
Each(s) == SomeOf(s)

Requests(R) == Checked(UNION {R[endpoint] : endpoint \in DOMAIN R})

----------------------------------------------------------------------------
\* Power supplies.
PsuChannelRoutes ==
  "GET /psu/channels" :> Asks(<<"voltage", "current", "output", "measured">>)
    @@ "POST /psu/channels/:channel" :> Each(<<"voltage", "current">>)
    @@ "POST /psu/channels/:channel/output" :> Put("output")
    @@ "GET /psu/channels/:channel/measure" :> Asks(<<"measured">>)

PsuCouplingRoutes ==
  "GET /psu/pairing" :> Optional(<<"pairing">>)
    @@ "POST /psu/pairing" :> Checked(Put("pairing"))
    @@ "GET /psu/tracking" :> Optional(<<"tracking">>)
    @@ "POST /psu/tracking" :> Checked(Put("tracking"))

\* The level is set already when it turns out that the protection cannot be switched.
PsuProtectionRoutes ==
  "GET /psu/channels/:channel/protection" :> Checked(Asks(<<"level", "enabled", "tripped">>))
    @@ "POST /psu/channels/:channel/protection/:kind" :>
         Checked(Maybe(Checked(Put("level"))) ++ Maybe(Checked(Put("enabled"))))
    @@ "POST /psu/channels/:channel/protection/:kind/clear" :> Checked(Put("tripped"))

PsuPresetRoutes ==
  "GET /psu/presets" :> Optional(<<"catalog">>)
    @@ "POST /psu/presets/:slot/save" :> Checked(Put("catalog"))
    @@ "POST /psu/presets/:slot/recall" :> Checked(Puts(<<"voltage", "current", "output">>))

PsuRoutes == PsuChannelRoutes @@ PsuCouplingRoutes @@ PsuProtectionRoutes @@ PsuPresetRoutes

----------------------------------------------------------------------------
\* Electronic loads.
EloadStateRoutes ==
  "GET /eload/state" :> Asks(<<"input", "mode", "setpoint", "measured">>)
    @@ "POST /eload/enabled" :> Checked(Put("input"))
    @@ "POST /eload/mode" :> Checked(Put("mode"))
    @@ "POST /eload/setpoint" :> Checked(Put("setpoint"))
    @@ "GET /eload/measure" :> Asks(<<"measured">>)

EloadProtectionRoutes ==
  "GET /eload/protection" :> Optional(<<"level", "enabled", "tripped">>)
    @@ "POST /eload/protection/:kind" :> Checked(Maybe(Checked(Put("level"))) ++ Maybe(Checked(Put("enabled"))))
    @@ "POST /eload/protection/:kind/clear" :> Checked(Put("tripped"))

EloadModeRoutes ==
  "GET /eload/dynamic" :> Optional(<<"dynamic">>)
    @@ "POST /eload/dynamic" :> Checked(Put("dynamic"))
    @@ "GET /eload/battery" :> Optional(<<"battery">>)
    @@ "POST /eload/battery/start" :> Checked(Put("battery"))
    @@ "POST /eload/battery/stop" :> Checked(Put("battery"))

EloadLoggingRoutes ==
  "GET /eload/logging" :> Optional(<<"run">>)
    @@ "POST /eload/logging/start" :> Checked(Put("run"))
    @@ "POST /eload/logging/stop" :> Checked(Put("run"))
    @@ "GET /eload/logging/samples" :> Checked(Asks(<<"run">>) ++ Optional(<<"samples">>))

EloadPresetRoutes ==
  "GET /eload/presets" :> Optional(<<"catalog">>)
    @@ "POST /eload/presets/:slot/save" :> Checked(Put("catalog"))
    @@ "POST /eload/presets/:slot/recall" :> Checked(Puts(<<"mode", "setpoint">>))

EloadRoutes == EloadStateRoutes @@ EloadProtectionRoutes @@ EloadModeRoutes @@ EloadLoggingRoutes @@ EloadPresetRoutes

----------------------------------------------------------------------------
\* Multimeters.  The overview asks for everything; NPLC after the range.
DmmReadingRoutes ==
  "GET /dmm" :>
      Asks(<<"mode", "range">>) ++ Maybe(SoftGet("nplc"))
        ++ Optional(<<"source", "math", "secondary", "run", "temperature", "catalog">>)
    @@ "GET /dmm/reading" :> Asks(<<"reading">>)
    @@ "GET /dmm/mode" :> Asks(<<"mode">>)
    @@ "POST /dmm/mode" :> Checked(Put("mode"))

\* Each part is checked when the parts before it are set.
DmmRangingRoutes ==
  "GET /dmm/ranging" :> Optional(<<"range">>) ++ Maybe(SoftGet("nplc"))
    @@ "POST /dmm/ranging" :>
         Checked(Maybe(Checked(Put("range"))) ++ Maybe(Checked(Put("nplc"))) ++ Maybe(Checked(Put("autoZero"))))

\* What a request leaves out of the trigger is sent back as it was read: source and
\* count stand for the four parts.
DmmTriggerRoutes ==
  "GET /dmm/trigger" :> Optional(<<"source", "count">>)
    @@ "POST /dmm/trigger" :>
         Checked(Asks(<<"source", "count">>)
                   ++ Checked((Put("source") ++ PutBack("count")) \union (PutBack("source") ++ Put("count"))))
    @@ "POST /dmm/trigger/fire" :> Checked(Put("fire"))

\* Math and the second display have to suit the mode that was read before.
DmmMathRoutes ==
  "GET /dmm/math" :> Optional(<<"math">>)
    @@ "POST /dmm/math" :> Checked(Optional(<<"mode">>) ++ Checked(Put("math")))
    @@ "POST /dmm/math/reset" :> Checked(Put("statistics"))

DmmDualRoutes ==
  "GET /dmm/dual" :> Optional(<<"secondary">>)
    @@ "POST /dmm/dual" :> Checked(Optional(<<"mode">>) ++ Checked(Put("secondary")))
    @@ "GET /dmm/dual/reading" :> Checked(Asks(<<"reading", "secondary">>))

DmmLoggingRoutes ==
  "GET /dmm/logging" :> Optional(<<"run">>)
    @@ "POST /dmm/logging/start" :> Checked(Put("run"))
    @@ "POST /dmm/logging/stop" :> Checked(Put("run"))
    @@ "GET /dmm/logging/samples" :> Checked(Asks(<<"run">>) ++ Optional(<<"samples">>))

DmmTemperatureRoutes ==
  "GET /dmm/temperature" :> Optional(<<"temperature">>)
    @@ "POST /dmm/temperature" :> Checked(Put("temperature"))

DmmPresetRoutes ==
  "GET /dmm/presets" :> Optional(<<"catalog">>)
    @@ "POST /dmm/presets/:slot/save" :> Checked(Put("catalog"))
    @@ "POST /dmm/presets/:slot/recall" :> Checked(Puts(<<"mode", "range">>))

DmmRoutes ==
  DmmReadingRoutes @@ DmmRangingRoutes @@ DmmTriggerRoutes @@ DmmMathRoutes @@ DmmDualRoutes
    @@ DmmLoggingRoutes @@ DmmTemperatureRoutes @@ DmmPresetRoutes

----------------------------------------------------------------------------
\* Oscilloscopes.
ScopeChannelRoutes ==
  "GET /scope/channels" :> Asks(<<"enabled", "scale">>)
    @@ "GET /scope/timebase" :> Asks(<<"timebase">>)
    @@ "POST /scope/timebase" :> Put("timebase")
    @@ "POST /scope/channels/:channel" :>
         Each(<<"enabled", "coupling", "scale", "offset", "bandwidthLimit", "invert", "unit">>)
    @@ "POST /scope/channels/:channel/enabled" :> Put("enabled")
    @@ "POST /scope/single-capture" :> Put("running")
    @@ "GET /scope/channels/:channel/waveform" :> Asks(<<"waveform">>)

ScopeTriggerRoutes ==
  "GET /scope/trigger" :> Optional(<<"trigger", "sweep">>)
    @@ "POST /scope/trigger" :> Checked(Put("trigger"))
    @@ "POST /scope/trigger/sweep" :> Checked(Put("sweep"))
    @@ "POST /scope/trigger/force" :> Checked(Put("force"))

ScopeAcquisitionRoutes ==
  "GET /scope/acquisition" :> Optional(<<"acquisition">>)
    @@ "POST /scope/acquisition" :> Checked(Put("acquisition"))
    @@ "POST /scope/autoset" :> Checked(Puts(<<"timebase", "scale", "running">>))
    @@ "POST /scope/run" :> Checked(Put("running"))
    @@ "POST /scope/stop" :> Checked(Put("running"))

ScopeMeasurementRoutes ==
  "GET /scope/measurements" :> Optional(<<"measurements">>)
    @@ "POST /scope/measurements" :> Checked(Put("measurements"))
    @@ "POST /scope/measurements/clear-stats" :> Checked(Put("statistics"))

ScopeCursorAndMathRoutes ==
  "GET /scope/cursors" :> Optional(<<"cursors">>)
    @@ "POST /scope/cursors" :> Checked(Put("cursors"))
    @@ "GET /scope/math" :> Optional(<<"math">>)
    @@ "POST /scope/math" :> Checked(Put("math"))
    @@ "GET /scope/math/waveform" :> Checked(Asks(<<"waveform">>))

ScopeReferenceRoutes ==
  "GET /scope/references" :> Optional(<<"references">>)
    @@ "POST /scope/references/:slot" :> Checked(Maybe(Put("references")))
    @@ "POST /scope/references/:slot/save" :> Checked(Put("references"))
    @@ "GET /scope/references/:slot/waveform" :> Checked(Asks(<<"references">>))

ScopeHistoryRoutes ==
  "GET /scope/history" :> Optional(<<"history", "frame", "playing">>)
    @@ "POST /scope/history" :> Checked(Each(<<"history", "frame", "playing">>))

ScopeDisplayRoutes ==
  "GET /scope/display" :> Optional(<<"persistence">>)
    @@ "POST /scope/display" :> Checked(Put("persistence"))
    @@ "GET /scope/screenshot" :> Checked(Asks(<<"screenshot">>))

ScopePresetRoutes ==
  "GET /scope/presets" :> Optional(<<"catalog">>)
    @@ "POST /scope/presets/:slot/save" :> Checked(Put("catalog"))
    @@ "POST /scope/presets/:slot/recall" :> Checked(Puts(<<"timebase", "scale", "trigger">>))

ScopeBusRoutes ==
  "GET /scope/buses" :> Optional(<<"decoder">>)
    @@ "POST /scope/buses/:busId" :> Checked(Put("decoder"))
    @@ "GET /scope/buses/:busId/packets" :> Checked(Asks(<<"decoder">>))

ScopeRoutes ==
  ScopeChannelRoutes @@ ScopeTriggerRoutes @@ ScopeAcquisitionRoutes @@ ScopeMeasurementRoutes
    @@ ScopeCursorAndMathRoutes @@ ScopeReferenceRoutes @@ ScopeHistoryRoutes @@ ScopeDisplayRoutes
    @@ ScopePresetRoutes @@ ScopeBusRoutes

----------------------------------------------------------------------------
\* Signal generators.
SgChannelRoutes ==
  "GET /sg/channels" :> Asks(<<"output", "waveform", "impedance">>)
    @@ "GET /sg/channels/:ch" :> Checked(Asks(<<"output", "waveform", "impedance">>))
    @@ "POST /sg/channels/:ch/enabled" :> Checked(Put("output"))
    @@ "POST /sg/channels/:ch/impedance" :> Checked(Put("impedance"))
    @@ "POST /sg/channels/:ch/waveform" :> Checked(Put("waveform"))

SgModulationRoutes ==
  "GET /sg/channels/:ch/modulation" :> Optional(<<"modulation">>)
    @@ "POST /sg/channels/:ch/modulation" :> Checked(Put("modulation"))
    @@ "GET /sg/channels/:ch/sweep" :> Optional(<<"sweep">>)
    @@ "POST /sg/channels/:ch/sweep" :> Checked(Put("sweep"))
    @@ "GET /sg/channels/:ch/burst" :> Optional(<<"burst">>)
    @@ "POST /sg/channels/:ch/burst" :> Checked(Put("burst"))

SgArbitraryRoutes ==
  "GET /sg/arbitrary" :> Optional(<<"uploads">>)
    @@ "POST /sg/channels/:ch/arbitrary/upload" :> Checked(Put("uploads"))
    @@ "DELETE /sg/arbitrary/:sampleId" :> Checked(Put("uploads"))

SgSyncRoutes ==
  "GET /sg/sync" :> Optional(<<"commonClock">>)
    @@ "POST /sg/sync" :> Checked(Each(<<"commonClock", "phase">>))

SgPresetRoutes ==
  "GET /sg/presets" :> Optional(<<"catalog">>)
    @@ "POST /sg/presets/:slot/save" :> Checked(Put("catalog"))
    @@ "POST /sg/presets/:slot/recall" :> Checked(Puts(<<"output", "waveform">>))

SgRoutes == SgChannelRoutes @@ SgModulationRoutes @@ SgArbitraryRoutes @@ SgSyncRoutes @@ SgPresetRoutes

----------------------------------------------------------------------------
\* Spectrum analyzers.
SaStateRoutes ==
  "GET /sa/state" :> Asks(<<"frequency", "reference", "bandwidth", "sweep", "input">>)
    @@ "POST /sa/frequency" :> Checked(Put("frequency"))
    @@ "POST /sa/reference-level" :> Checked(Put("reference"))
    @@ "POST /sa/bandwidth" :> Checked(Put("bandwidth"))
    @@ "POST /sa/sweep" :> Checked(Put("sweep"))
    @@ "POST /sa/single-sweep" :> Put("single")
    @@ "POST /sa/input" :> Checked(Put("input"))

SaTraceRoutes ==
  "GET /sa/traces/:trace" :> Checked(Asks(<<"trace">>))
    @@ "POST /sa/traces/:trace" :> Checked(Put("trace"))
    @@ "GET /sa/traces/:trace/data" :> Checked(Asks(<<"trace">>))

SaMarkerRoutes ==
  "GET /sa/markers" :> Asks(<<"marker">>)
    @@ "POST /sa/markers/:marker" :> Checked(Put("marker"))
    @@ "POST /sa/markers/:marker/peak-search" :> Checked(Put("marker"))

SaChannelPowerRoutes ==
  "GET /sa/channel-power" :> Optional(<<"channelPower">>)
    @@ "POST /sa/channel-power" :> Checked(Put("channelPower"))
    @@ "GET /sa/channel-power/reading" :> Checked(Asks(<<"channelPower">>))

SaTriggerAndLimitRoutes ==
  "GET /sa/trigger" :> Optional(<<"trigger">>)
    @@ "POST /sa/trigger" :> Checked(Put("trigger"))
    @@ "GET /sa/limit-lines" :> Optional(<<"limits">>)
    @@ "POST /sa/limit-lines" :> Checked(Put("limits"))
    @@ "DELETE /sa/limit-lines/:lineId" :> Checked(Put("limits"))
    @@ "GET /sa/averaging" :> Optional(<<"averaging">>)
    @@ "POST /sa/averaging" :> Checked(Put("averaging"))

SaPresetRoutes ==
  "GET /sa/presets" :> Optional(<<"catalog">>)
    @@ "POST /sa/presets/:slot/save" :> Checked(Put("catalog"))
    @@ "POST /sa/presets/:slot/recall" :> Checked(Puts(<<"frequency", "reference">>))

SaRoutes ==
  SaStateRoutes @@ SaTraceRoutes @@ SaMarkerRoutes @@ SaChannelPowerRoutes @@ SaTriggerAndLimitRoutes
    @@ SaPresetRoutes

----------------------------------------------------------------------------
\* What the routes of a kind do to an instrument.
DeviceRoutes == {PsuRoutes, EloadRoutes, DmmRoutes, ScopeRoutes, SgRoutes, SaRoutes}
=============================================================================
