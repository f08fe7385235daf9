----------------------------- MODULE SgDrivers -----------------------------
(***************************************************************************)
(* The methods of the signal-generator drivers, as scripts, for the        *)
(* channel of the caller.  A waveform is a type and a handful of values,   *)
(* most drivers send each of them in a line of its own, the type first.    *)
(***************************************************************************)
EXTENDS Scripts

\* A direct voltage has an offset only, noise an amplitude as well; everything else
\* has a frequency and perhaps more.
Waveform(amplitude, offset, More) ==
  Checked( Put("FUNC")
             ++ ( Put(offset) \union PutInTurn(<<amplitude, offset>>)
                  \union (PutInTurn(<<"FREQ", amplitude, offset>>) ++ More) ) )

----------------------------------------------------------------------------
\* Rigol DG900.
Dg900State ==
  Checked(Gets(<<"OUTP", "FUNC", "FREQ", "VOLT", "OFFS", "PHAS", "DCYC", "SYMM", "WIDT", "LEAD", "TRA", "IMP">>)
            \union Gets(<<"FREQ", "VOLT", "OFFS">>) \union EachPut({"OUTP", "IMP"}))

Dg900Waveform ==
  Waveform("VOLT", "OFFS",
    Maybe(Put("PHAS")) ++ (Maybe(EachPut({"DCYC", "SYMM", "ARB"})) \union SomeOf(<<"WIDT", "LEAD", "TRA">>)))

Dg900Modulation ==
  Checked(Gets(<<"MOD", "MOD:TYP", "AM:SOUR", "AM:DEPT", "AM:FREQ", "AM:FUNC">>)
            \union PutInTurn(<<"MOD:TYP", "AM:SOUR", "AM:DEPT", "AM:FREQ", "AM:FUNC", "MOD">>))

Dg900Sweep ==
  Checked(Gets(<<"SWE:STAT", "FREQ:STAR", "FREQ:STOP", "SWE:TIME", "SWE:SPAC", "SWE:TRIG">>)
            \union PutInTurn(<<"FREQ:STAR", "FREQ:STOP", "SWE:TIME", "SWE:SPAC", "SWE:TRIG", "SWE:STAT">>))

Dg900Burst ==
  Checked(Gets(<<"BURS:STAT", "BURS:MODE", "BURS:NCYC", "BURS:PER", "BURS:TRIG", "BURS:PHAS">>)
            \union PutInTurn(<<"BURS:MODE", "BURS:NCYC", "BURS:PER", "BURS:TRIG", "BURS:PHAS", "BURS:STAT">>))

\* The list of uploads is the driver's own.  DATA:COPY names what is in the volatile
\* memory.
Dg900Arbitrary ==
  Checked(Put("DATA:DAC16") ++ Through("DATA:DAC16", Put("DATA:COPY")) ++ Keep("uploads"))
    \union (Keep("uploads") ++ Put("DATA:DEL"))

Dg900SyncAndPresets ==
  Get("ROSC") \union Gets(<<"PHAS:SYNC", "ROSC">>) \union Maybe(Put("PHAS:SYNC")) \union Put("ROSC")
    \union SlotPresets

RigolDg900 ==
  Dg900State \union Dg900Waveform \union Dg900Modulation \union Dg900Sweep \union Dg900Burst
    \union Dg900Arbitrary \union Dg900SyncAndPresets

----------------------------------------------------------------------------
\* Siglent SDG: the basic waveform is one line.
SiglentSdg ==
  Gets(<<"OUTP", "BSWV">>) \union Get("BSWV") \union EachPut({"OUTP", "OUTP:LOAD"})
    \union Checked(Put("BSWV")) \union SlotPresets

\* Keysight 33500: what the type needs is asked for when the type is known.
Keysight3350xState ==
  (Queries(<<"FUNC", "FREQ", "VOLT", "OFFS", "PHAS", "OUTP", "LOAD">>, {"PHAS", "LOAD"})
     ++ Maybe(SoftGet("DCYC") \union SoftGet("SYMM") \union SoftGet("WIDT")))
    \union Gets(<<"FREQ", "VOLT", "OFFS">>) \union Put("OUTP")

Keysight3350x ==
  Keysight3350xState \union Put("LOAD")
    \union Waveform("VOLT", "OFFS", Maybe(EachPut({"DCYC", "SYMM", "WIDT"})) ++ Maybe(Put("PHAS")))
    \union SlotPresets

TektronixAfgState ==
  SoftGets(<<"FUNC", "FREQ", "VOLT", "OFFS", "PHAS", "OUTP", "IMP">>)
    \union SoftGets(<<"FREQ", "VOLT", "OFFS">>) \union Put("OUTP")

TektronixAfg ==
  TektronixAfgState \union Put("IMP")
    \union Waveform("VOLT", "OFFS", Maybe(EachPut({"DCYC", "WIDT"})) ++ Maybe(Put("PHAS")))
    \union SlotPresets

GwInstekAfgState ==
  SoftGets(<<"FUNC", "FREQ", "AMPL", "DCO", "PHAS", "OUTP", "LOAD">>)
    \union SoftGets(<<"FREQ", "AMPL", "DCO">>) \union Put("OUTP")

GwInstekAfg ==
  GwInstekAfgState \union Put("LOAD")
    \union Waveform("AMPL", "DCO", Maybe(EachPut({"DCYC", "WIDT"})) ++ Maybe(Put("PHAS")))
    \union SlotPresets

RndsHmf ==
  SoftGets(<<"FUNC", "FREQ", "VOLT", "OFFS", "OUTP", "LOAD">>)
    \union SoftGets(<<"FREQ", "VOLT", "OFFS">>) \union EachPut({"OUTP", "LOAD"})
    \union Waveform("VOLT", "OFFS", Nothing) \union SlotPresets

\* Rohde & Schwarz SMA: the power is checked when the frequency is set already.  The
\* output has 50 ohm, and nothing is sent for that.
RndsSma ==
  Checked( SoftGets(<<"FREQ", "POW", "OUTP">>) \union SoftGets(<<"FREQ", "POW">>) \union Put("OUTP")
             \union (Put("FREQ") ++ Checked(Put("POW"))) \union Nothing )
    \union SlotPresets

SignalGenerators ==
  { RigolDg900, SiglentSdg, Keysight3350x, TektronixAfg, GwInstekAfg, RndsHmf, RndsSma }
=============================================================================
