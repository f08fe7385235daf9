------------------------------ MODULE RestApi ------------------------------
(***************************************************************************)
(* The browser's REST client against the server's routes: one call of the  *)
(* client, from fetch to the promise, while the session connects, drops,   *)
(* reconnects and is removed around it.  Client and server are written     *)
(* separately and agree only by the strings below.  The handler's calls on *)
(* the facade are the scripts of module Routes; a facade belongs to one    *)
(* connection and fails when that is gone.                                 *)
(***************************************************************************)
EXTENDS Routes

CONSTANT MaxConnections   \* bound: connections that a session has had

ASSUME ConnectionsAssumption == MaxConnections \in Nat \ {0}

----------------------------------------------------------------------------
\* The functions of the client, and what each asks for.
\* Sessions, the console and transcript, panic stop, discovery.
ServiceCalls ==
  "listSessions" :> "GET /api/sessions" @@ "openSession" :> "POST /api/sessions" @@ "closeSession" :> "DELETE /"
    @@ "reconnectSession" :> "POST /reconnect" @@ "browseDiscovery" :> "GET /api/discovery"
    @@ "sendScpi" :> "POST /scpi" @@ "getTranscriptPage" :> "GET /transcript"
    @@ "clearDeviceErrors" :> "POST /errors/clear" @@ "transcriptExportUrl" :> "GET /transcript/export"
    @@ "getDeviceErrors" :> "GET /device-errors" @@ "panic" :> "POST /api/panic"
    @@ "getPanicHistory" :> "GET /api/panic/history"

\* Oscilloscopes: channels and waveforms.
ScopeCalls ==
  "getScopeChannels" :> "GET /scope/channels" @@ "getScopeTimebase" :> "GET /scope/timebase"
    @@ "setScopeTimebase" :> "POST /scope/timebase"
    @@ "setScopeChannelEnabled" :> "POST /scope/channels/:channel/enabled"
    @@ "singleCapture" :> "POST /scope/single-capture" @@ "readWaveform" :> "GET /scope/channels/:channel/waveform"

\* Power supplies.
PsuCalls ==
  "getPsuChannels" :> "GET /psu/channels" @@ "setPsuChannel" :> "POST /psu/channels/:channel"
    @@ "setPsuChannelOutput" :> "POST /psu/channels/:channel/output"
    @@ "measurePsuChannel" :> "GET /psu/channels/:channel/measure" @@ "getPsuPairing" :> "GET /psu/pairing"
    @@ "setPsuPairing" :> "POST /psu/pairing" @@ "getPsuTracking" :> "GET /psu/tracking"
    @@ "setPsuTracking" :> "POST /psu/tracking" @@ "getPsuProtection" :> "GET /psu/channels/:channel/protection"
    @@ "setPsuProtection" :> "POST /psu/channels/:channel/protection/:kind"
    @@ "clearPsuProtectionTrip" :> "POST /psu/channels/:channel/protection/:kind/clear"
    @@ "getPsuPresets" :> "GET /psu/presets" @@ "savePsuPreset" :> "POST /psu/presets/:slot/save"
    @@ "recallPsuPreset" :> "POST /psu/presets/:slot/recall"

\* Multimeters: readings and ranges, then the rest.
DmmCalls ==
  "getDmmReading" :> "GET /dmm/reading" @@ "getDmmSnapshot" :> "GET /dmm" @@ "getDmmMode" :> "GET /dmm/mode"
    @@ "setDmmMode" :> "POST /dmm/mode" @@ "getDmmRanging" :> "GET /dmm/ranging"
    @@ "setDmmRanging" :> "POST /dmm/ranging" @@ "getDmmTrigger" :> "GET /dmm/trigger"
    @@ "setDmmTrigger" :> "POST /dmm/trigger" @@ "fireDmmTrigger" :> "POST /dmm/trigger/fire"

DmmMoreCalls ==
  "getDmmMath" :> "GET /dmm/math" @@ "setDmmMath" :> "POST /dmm/math" @@ "resetDmmMathStats" :> "POST /dmm/math/reset"
    @@ "getDmmDualDisplay" :> "GET /dmm/dual" @@ "setDmmDualDisplay" :> "POST /dmm/dual"
    @@ "getDmmDualReading" :> "GET /dmm/dual/reading" @@ "getDmmLogging" :> "GET /dmm/logging"
    @@ "startDmmLogging" :> "POST /dmm/logging/start" @@ "stopDmmLogging" :> "POST /dmm/logging/stop"
    @@ "getDmmLoggingSamples" :> "GET /dmm/logging/samples" @@ "getDmmTemperature" :> "GET /dmm/temperature"
    @@ "setDmmTemperature" :> "POST /dmm/temperature" @@ "getDmmPresets" :> "GET /dmm/presets"
    @@ "saveDmmPreset" :> "POST /dmm/presets/:slot/save" @@ "recallDmmPreset" :> "POST /dmm/presets/:slot/recall"

\* Oscilloscopes: settings, then what is shown and kept.
ScopeSettingsCalls ==
  "setScopeChannel" :> "POST /scope/channels/:channel" @@ "getScopeTrigger" :> "GET /scope/trigger"
    @@ "setScopeTrigger" :> "POST /scope/trigger" @@ "setScopeSweep" :> "POST /scope/trigger/sweep"
    @@ "forceScopeTrigger" :> "POST /scope/trigger/force" @@ "getScopeAcquisition" :> "GET /scope/acquisition"
    @@ "setScopeAcquisition" :> "POST /scope/acquisition" @@ "scopeAutoset" :> "POST /scope/autoset"
    @@ "scopeRun" :> "POST /scope/run" @@ "scopeStop" :> "POST /scope/stop"
    @@ "getScopeMeasurements" :> "GET /scope/measurements" @@ "setScopeMeasurements" :> "POST /scope/measurements"
    @@ "clearScopeMeasurementStats" :> "POST /scope/measurements/clear-stats"
    @@ "getScopeCursors" :> "GET /scope/cursors" @@ "setScopeCursors" :> "POST /scope/cursors"
    @@ "getScopeMath" :> "GET /scope/math" @@ "setScopeMath" :> "POST /scope/math"

ScopeDisplayCalls ==
  "readScopeMathWaveform" :> "GET /scope/math/waveform" @@ "getScopeReferences" :> "GET /scope/references"
    @@ "setScopeReferenceEnabled" :> "POST /scope/references/:slot"
    @@ "saveScopeReference" :> "POST /scope/references/:slot/save" @@ "getScopeHistory" :> "GET /scope/history"
    @@ "setScopeHistory" :> "POST /scope/history" @@ "getScopeDisplay" :> "GET /scope/display"
    @@ "setScopeDisplay" :> "POST /scope/display" @@ "scopeScreenshotUrl" :> "GET /scope/screenshot"
    @@ "getScopePresets" :> "GET /scope/presets" @@ "saveScopePreset" :> "POST /scope/presets/:slot/save"
    @@ "recallScopePreset" :> "POST /scope/presets/:slot/recall" @@ "getScopeBuses" :> "GET /scope/buses"
    @@ "setScopeBus" :> "POST /scope/buses/:busId" @@ "getScopeBusPackets" :> "GET /scope/buses/:busId/packets"

\* Electronic loads.
EloadCalls ==
  "getEloadState" :> "GET /eload/state" @@ "setEloadEnabled" :> "POST /eload/enabled"
    @@ "setEloadMode" :> "POST /eload/mode" @@ "setEloadSetpoint" :> "POST /eload/setpoint"
    @@ "measureEload" :> "GET /eload/measure" @@ "getEloadProtection" :> "GET /eload/protection"
    @@ "setEloadProtection" :> "POST /eload/protection/:kind"
    @@ "clearEloadProtection" :> "POST /eload/protection/:kind/clear" @@ "getEloadDynamic" :> "GET /eload/dynamic"
    @@ "setEloadDynamic" :> "POST /eload/dynamic" @@ "getEloadBattery" :> "GET /eload/battery"
    @@ "startEloadBattery" :> "POST /eload/battery/start" @@ "stopEloadBattery" :> "POST /eload/battery/stop"
    @@ "getEloadPresets" :> "GET /eload/presets" @@ "saveEloadPreset" :> "POST /eload/presets/:slot/save"
    @@ "recallEloadPreset" :> "POST /eload/presets/:slot/recall"

\* Signal generators: channels, then uploads, clocks and presets.
SgCalls ==
  "getSgChannels" :> "GET /sg/channels" @@ "setSgEnabled" :> "POST /sg/channels/:ch/enabled"
    @@ "setSgImpedance" :> "POST /sg/channels/:ch/impedance" @@ "setSgWaveform" :> "POST /sg/channels/:ch/waveform"
    @@ "getSgModulation" :> "GET /sg/channels/:ch/modulation"
    @@ "setSgModulation" :> "POST /sg/channels/:ch/modulation" @@ "getSgSweep" :> "GET /sg/channels/:ch/sweep"
    @@ "setSgSweep" :> "POST /sg/channels/:ch/sweep" @@ "getSgBurst" :> "GET /sg/channels/:ch/burst"
    @@ "setSgBurst" :> "POST /sg/channels/:ch/burst"

SgMoreCalls ==
  "getSgArbitrary" :> "GET /sg/arbitrary" @@ "uploadSgArbitrary" :> "POST /sg/channels/:ch/arbitrary/upload"
    @@ "deleteSgArbitrary" :> "DELETE /sg/arbitrary/:sampleId" @@ "getSgSync" :> "GET /sg/sync"
    @@ "alignSgPhase" :> "POST /sg/sync/align" @@ "setSgCommonClock" :> "POST /sg/sync/common-clock"
    @@ "getSgPresets" :> "GET /sg/presets" @@ "saveSgPreset" :> "POST /sg/presets/:slot/save"
    @@ "recallSgPreset" :> "POST /sg/presets/:slot/recall"

\* Spectrum analyzers: what is swept and marked, then measurements and limits.
SaCalls ==
  "getSaState" :> "GET /sa/state" @@ "setSaFrequency" :> "POST /sa/frequency"
    @@ "setSaReferenceLevel" :> "POST /sa/reference-level" @@ "setSaBandwidth" :> "POST /sa/bandwidth"
    @@ "setSaSweep" :> "POST /sa/sweep" @@ "singleSaSweep" :> "POST /sa/single-sweep"
    @@ "setSaInput" :> "POST /sa/input" @@ "getSaTraceData" :> "GET /sa/traces/:trace/data"
    @@ "setSaTraceConfig" :> "POST /sa/traces/:trace" @@ "getSaMarkers" :> "GET /sa/markers"
    @@ "setSaMarker" :> "POST /sa/markers/:marker" @@ "saPeakSearch" :> "POST /sa/markers/:marker/peak-search"

SaMoreCalls ==
  "getSaChannelPower" :> "GET /sa/channel-power" @@ "setSaChannelPower" :> "POST /sa/channel-power"
    @@ "readSaChannelPower" :> "GET /sa/channel-power/reading" @@ "getSaTrigger" :> "GET /sa/trigger"
    @@ "setSaTrigger" :> "POST /sa/trigger" @@ "getSaAveraging" :> "GET /sa/averaging"
    @@ "setSaAveraging" :> "POST /sa/averaging" @@ "getSaPresets" :> "GET /sa/presets"
    @@ "saveSaPreset" :> "POST /sa/presets/:slot/save" @@ "recallSaPreset" :> "POST /sa/presets/:slot/recall"
    @@ "getSaLimitLines" :> "GET /sa/limit-lines" @@ "setSaLimitLine" :> "POST /sa/limit-lines"
Endpoint ==
  ServiceCalls @@ ScopeCalls @@ PsuCalls @@ DmmCalls @@ DmmMoreCalls @@ ScopeSettingsCalls
    @@ ScopeDisplayCalls @@ EloadCalls @@ SgCalls @@ SgMoreCalls @@ SaCalls @@ SaMoreCalls

----------------------------------------------------------------------------
\* Routes that ask nothing of an instrument: for them all, for a session, for one that
\* is connected.
SessionRoutes ==
  "GET /api/sessions" :> "any" @@ "POST /api/sessions" :> "any" @@ "GET /" :> "known"
    @@ "DELETE /" :> "known" @@ "POST /reconnect" :> "known" @@ "POST /scpi" :> "connected"

TranscriptRoutes ==
  "GET /transcript" :> "connected" @@ "GET /transcript/export" :> "connected"
    @@ "POST /errors/clear" :> "connected" @@ "GET /device-errors" :> "connected"

\* Mutant: the path of the history is misspelt.
OtherRoutesMisspelt ==
  "POST /api/panic" :> "any" @@ "GET /api/panic/log" :> "any" @@ "GET /api/discovery" :> "any"

OtherRoutes == "POST /api/panic" :> "any" @@ "GET /api/panic/history" :> "any" @@ "GET /api/discovery" :> "any"

ServiceRoutes == SessionRoutes @@ TranscriptRoutes @@ OtherRoutes

Kinds == [ psu |-> PsuRoutes, eload |-> EloadRoutes, dmm |-> DmmRoutes, scope |-> ScopeRoutes, sg |-> SgRoutes,
           sa |-> SaRoutes ]

\* The kind of instrument whose routes have an endpoint, and its handler.
KindOf(endpoint) == {k \in DOMAIN Kinds : endpoint \in DOMAIN Kinds[k]}

HandlerOf(endpoint) == UNION {Kinds[k][endpoint] : k \in KindOf(endpoint)}

\* A fact about the tables above, which depends on no constant: a handler makes its
\* calls one after the other.
ASSUME HandlersAreSequences ==
  \A e \in DOMAIN Endpoint : \A s \in HandlerOf(Endpoint[e]) :
    Len(s.steps) \in Nat /\ DOMAIN s.steps = 1..Len(s.steps)

VARIABLES
  session,     \* "removed", "down", or the kind of its facade
  connection,  \* how many connections the session has had
  fn,          \* the client's function that was called
  page,        \* how its promise stands
  handler,     \* what the handler is at
  script,      \* the facade calls of the handler
  held,        \* the connection of the facade that the handler looked up
  done,        \* facade calls that took effect, each with its connection
  answer       \* the status of the response, 0 when there is none

apiVars == <<session, connection, fn, page, handler, script, held, done, answer>>

Up == session \in DOMAIN Kinds

NoScript == Script(<<>>, "ok")

ApiInit ==
  /\ session \in DOMAIN Kinds
  /\ connection = 1
  /\ fn = "none" /\ page = "idle" /\ handler = 0 /\ script = NoScript
  /\ held = 0 /\ done = {} /\ answer = 0

\* The session's connection goes; is made again, to the same kind of instrument or
\* another at the same address; the session is closed.
Drop ==
  /\ Up
  /\ session' \in {"down", "removed"}
  /\ UNCHANGED <<connection, fn, page, handler, script, held, done, answer>>

Connect ==
  /\ session = "down" /\ connection < MaxConnections
  /\ session' \in DOMAIN Kinds
  /\ connection' = connection + 1
  /\ UNCHANGED <<fn, page, handler, script, held, done, answer>>

Environment == Drop \/ Connect

----------------------------------------------------------------------------
\* fetch(...)
Fetch(f) ==
  /\ page = "idle"
  /\ fn' = f /\ page' = "waiting"
  /\ UNCHANGED <<session, connection, handler, script, held, done, answer>>

Answer(status) == answer' = status /\ UNCHANGED <<session, connection, fn, page, held, done>>

Arrived == page = "waiting" /\ handler = 0 /\ answer = 0

\* What is not registered falls through to the web application's handler, which answers
\* 404 under /api.
NotFound ==
  /\ Arrived
  /\ KindOf(Endpoint[fn]) = {} /\ Endpoint[fn] \notin DOMAIN ServiceRoutes
  /\ Answer(404)
  /\ UNCHANGED <<handler, script>>

\* Routes without a facade: 404 for a session that is not known, 409 for one that is not
\* connected, 400 for a bad request, 502 when the instrument does not answer a line of
\* the console.
AnswerService ==
  /\ Arrived
  /\ Endpoint[fn] \in DOMAIN ServiceRoutes
  /\ LET need == ServiceRoutes[Endpoint[fn]]
     IN  \E status \in {200, 400, 404, 409, 502} :
           /\ status = 404 <=> (need # "any" /\ session = "removed")
           /\ status = 409 <=> (need = "connected" /\ session = "down")
           /\ status = 502 => Endpoint[fn] = "POST /scpi"
           /\ Answer(status)
  /\ UNCHANGED <<handler, script>>

\* Mutant: only another kind of facade is refused, not none.
WrongInstrumentOnly ==
  /\ Arrived
  /\ KindOf(Endpoint[fn]) # {} /\ session \notin KindOf(Endpoint[fn]) /\ Up
  /\ Answer(409)
  /\ UNCHANGED <<handler, script>>

\* manager.getFacade(id), then 409 without a facade or with one of another kind.
WrongInstrument ==
  /\ Arrived
  /\ KindOf(Endpoint[fn]) # {} /\ session \notin KindOf(Endpoint[fn])
  /\ Answer(409)
  /\ UNCHANGED <<handler, script>>

LookUp ==
  /\ Arrived
  /\ session \in KindOf(Endpoint[fn])
  /\ script' \in HandlerOf(Endpoint[fn])
  /\ handler' = 1
  /\ held' = connection
  /\ UNCHANGED <<session, connection, fn, page, done, answer>>

\* The facade that the handler holds, not the one that the session has by now.
Works == Up /\ held = connection

Call(i) == script.steps[i]

\* Mutant: the facade is looked up afresh for every call.
FacadeCallAfresh ==
  /\ handler \in DOMAIN script.steps
  /\ Up
  /\ done' = done \union {<<handler, connection>>}
  /\ handler' = handler + 1
  /\ UNCHANGED <<session, connection, fn, page, script, held, answer>>

FacadeCall ==
  /\ handler \in DOMAIN script.steps
  /\ Works
  /\ done' = done \union {<<handler, held>>}
  /\ handler' = handler + 1
  /\ UNCHANGED <<session, connection, fn, page, script, held, answer>>

\* Mutant: every failure is swallowed.
FacadeFailsSilently ==
  /\ handler \in DOMAIN script.steps
  /\ handler' = handler + 1
  /\ UNCHANGED <<session, connection, fn, page, script, held, done, answer>>

\* A facade call fails when its connection is gone, and may fail otherwise: one that is
\* caught leaves a default, any other ends the handler.
FacadeFails ==
  /\ handler \in DOMAIN script.steps
  /\ IF Range(Call(handler).on) \subseteq Call(handler).soft
     THEN handler' = handler + 1 /\ UNCHANGED <<session, connection, fn, page, held, done, answer>>
     ELSE handler' = 0 /\ \E status \in {400, 500} : Answer(status)
  /\ UNCHANGED script

Return ==
  /\ handler = Len(script.steps) + 1
  /\ handler' = 0
  /\ \E status \in IF script.end = "ok" THEN {200} ELSE {400, 409} : Answer(status)
  /\ UNCHANGED script

Handle == NotFound \/ AnswerService \/ WrongInstrument \/ LookUp \/ FacadeCall \/ FacadeFails \/ Return

\* parse(res): a promise is rejected with the error of any status but 2xx.
Parse ==
  /\ page = "waiting" /\ answer # 0
  /\ page' = IF answer = 200 THEN "resolved" ELSE "rejected"
  /\ UNCHANGED <<session, connection, fn, handler, script, held, done, answer>>

ApiNext == Environment \/ (\E f \in DOMAIN Endpoint : Fetch(f)) \/ Handle \/ Parse

\* The event loops of server and browser run; nothing makes a session connect.
Fairness == WF_apiVars(Handle) /\ WF_apiVars(Parse)

ApiSpec == ApiInit /\ [][ApiNext]_apiVars /\ Fairness
----------------------------------------------------------------------------
\* A handler of several facade calls does not begin on one connection of the session and
\* go on upon the next, where another instrument may answer: what it did, it did on one.
WholeOnOneConnection == \A x, y \in done : x[2] = y[2]

\* A promise that resolves means that every facade call of the handler took effect but
\* those whose failure is a default, whatever became of the session meanwhile.
ResolvedDidItAll ==
  page = "resolved" =>
    \A i \in DOMAIN script.steps :
      <<i, held>> \in done \/ Range(Call(i).on) \subseteq Call(i).soft

\* Every call of the client comes to an end, also when the session goes away under it.
EveryCallSettles == (page = "waiting") ~> (page \in {"resolved", "rejected"})

\* What the client has and the server does not (client.ts:1149 and 1157: the routes only
\* get and set the whole of /sg/sync).
Unrouted == {"alignSgPhase", "setSgCommonClock"}

\* The client calls nothing that the server does not have, so that 404 means what the
\* client takes it for, a session that is gone; docs/steps/4-4 lists the endpoints that
\* both were written from, and two of them only the client has.
EveryCallIsRouted ==
  answer = 404 =>
    \/ Endpoint[fn] \in DOMAIN ServiceRoutes /\ ServiceRoutes[Endpoint[fn]] # "any"
    \/ fn \in Unrouted
=============================================================================
