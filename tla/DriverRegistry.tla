-------------------------- MODULE DriverRegistry --------------------------
(***************************************************************************)
(* How a connection comes by its driver: the registry that the vendors'    *)
(* packs fill at start, the first entry of it whose patterns accept the    *)
(* answer to *IDN?, and the profile of that entry, which the driver's      *)
(* refiner corrects by what the instrument says of itself.                 *)
(*                                                                         *)
(* A model's name is the sequence of its parts: <<"SPD", "3303X", "E">> is *)
(* SPD3303X-E.  The pattern ^VARIANT\b accepts the names that begin with   *)
(* the parts of the variant, whatever follows a word boundary; a family's  *)
(* catch-all accepts those that begin with the family's letters.  Of a     *)
(* profile this keeps how many channels it has and which decoders and      *)
(* options; its ranges and limits are left out.                            *)
(***************************************************************************)
EXTENDS Naturals, SequencesExt

----------------------------------------------------------------------------
\* Families: the kind, how the profile is refined, the channels of the catch-all
\* profile, the catch-alls' letters, and the variants, each with its channels (1 for
\* the kinds whose profiles count none).
Family(kind, refine, default, catchAlls, variants) ==
  [kind |-> kind, refine |-> refine, default |-> default, catchAlls |-> catchAlls, variants |-> variants]

Of(count, prefix, rest) == {[name |-> <<prefix, r>>, count |-> count] : r \in rest}

Ext(count, prefix, rest, suffix) == {[name |-> <<prefix, r, suffix>>, count |-> count] : r \in rest}

\* Rigol.
Dho800 == Family("oscilloscope", "dho800", 4, << {<<"DHO8">>} >>,
                 Of(2, "DHO8", {"02", "12"}) \union Of(4, "DHO8", {"04", "14"}))

Dp900 == Family("powerSupply", "dp900", 3, << {<<"DP9">>} >>, Of(3, "DP9", {"32E", "32U"}) \union Of(2, "DP9", {"12"}))

Dm800 == Family("multimeter", "nothing", 1, << {<<"DM8">>} >>, Of(1, "DM8", {"58", "58E"}))

Dl3000 == Family("electronicLoad", "nothing", 1, << {<<"DL30">>} >>, Of(1, "DL30", {"21", "31"}))

Dg900 == Family("signalGenerator", "nothing", 2, << {<<"DG8">>}, {<<"DG9">>} >>,
                Of(1, "DG8", {"11", "21", "31"}) \union Of(2, "DG8", {"12", "22", "32"})
                  \union Of(2, "DG9", {"22", "32", "52", "72"}))

\* Siglent.
Ssa3000x == Family("spectrumAnalyzer", "nothing", 1, << {<<"SSA3">>} >>,
                   Of(1, "SSA3", {"015X", "021X", "032X", "050X"})
                     \union Ext(1, "SSA3", {"015X", "021X", "032X", "050X"}, "R"))

Spd == Family("powerSupply", "spd", 3, << {<<"SPD">>} >>,
              Of(1, "SPD", {"1168X", "1305X"}) \union Of(3, "SPD", {"3303X", "3303C"}) \union Ext(3, "SPD", {"3303X"}, "E"))

Sdm == Family("multimeter", "nothing", 1, << {<<"SDM">>} >>,
              Of(1, "SDM", {"3045X", "3055", "3065X"}) \union Ext(1, "SDM", {"3065X"}, "SC"))

Sds == Family("oscilloscope", "filter", 4, << {<<"SDS">>} >>,
              Ext(4, "SDS", {"1104X", "1204X"}, "E") \union Ext(4, "SDS", {"814X", "824X", "2354X", "3054X"}, "HD")
                \union Ext(4, "SDS", {"2104X"}, "Plus") \union Of(4, "SDS", {"6104A", "6204A"}))

Sdl == Family("electronicLoad", "nothing", 1, << {<<"SDL">>} >>,
              Of(1, "SDL", {"1020X", "1030X"}) \union Ext(1, "SDL", {"1020X", "1030X"}, "E"))

Sdg == Family("signalGenerator", "nothing", 2, << {<<"SDG">>} >>,
              Of(2, "SDG", {"1032X", "1062X", "2042X", "2082X", "2122X", "6022X", "6052X"}))

\* Keysight; the scopes' names are spelled with and without a dash and a space, and both
\* are accepted.
E36 == Family("powerSupply", "nothing", 3, << {<<"E36">>, <<"EDU36">>}, {<<"E364">>} >>,
              Of(3, "EDU36", {"311A"}) \union Of(1, "E36", {"102A", "103A", "104A", "105A", "106A"})
                \union Of(3, "E36", {"311A", "312A", "313A"}) \union Of(1, "E364", {"0A", "1A", "2A"}))

TrueVolt == Family("multimeter", "nothing", 1, << {<<"344">>} >>,
                   Of(1, "344", {"50A", "61A", "65A", "70A", "10A", "11A"}))

InfiniiVision ==
  Family("oscilloscope", "filter", 4, << {<<"DSOX">>, <<"MSOX">>} >>,
         Of(2, "DSOX", {"1102A", "1102G", "2002A", "2012A", "2022A", "6002A", "6012A"})
           \union Of(2, "MSOX", {"2002A", "2012A", "2022A", "6002A", "6012A"})
           \union Of(4, "DSOX", {"1204A", "1204G"})
           \union UNION {Of(4, p, {"2004A", "2014A", "2024A", "3024T", "3034T", "3054T", "3104T", "4024A", "4034A",
                                   "4054A", "4104A", "4154A", "6004A", "6014A"}) : p \in {"DSOX", "MSOX"}})

El3 == Family("electronicLoad", "nothing", 1, << {<<"EL3">>} >>, Of(1, "EL3", {"4143A"}) \union Of(2, "EL3", {"4243A"}))

Trueform33500 == Family("signalGenerator", "nothing", 2, << {<<"335">>}, {<<"336">>} >>,
                        Of(1, "335", {"09B", "11B", "21B"}) \union Of(2, "335", {"10B", "12B", "22B"})
                          \union Of(1, "336", {"11A", "21A"}) \union Of(2, "336", {"12A", "22A"}))

\* Owon.
Xdm == Family("multimeter", "nothing", 1, << {<<"XDM">>} >>, Of(1, "XDM", {"1041", "1241", "2041"}))

Spe == Family("powerSupply", "nothing", 1, << {<<"SPE">>} >>,
              Of(3, "SPE", {"3103", "3051"}) \union Of(1, "SPE", {"6053", "6103"}))

Xds == Family("oscilloscope", "nothing", 4, << {<<"XDS">>} >>, Of(4, "XDS", {"3102A", "3104AE"}))

\* Tektronix.
Tbs == Family("oscilloscope", "nothing", 2, << {<<"TBS">>} >>,
              Of(2, "TBS", {"1052C", "1072C", "1102C", "1202C", "2072B", "2102B"})
                \union Of(4, "TBS", {"2074B", "2104B", "2204B"}))

Mso == Family("oscilloscope", "widen", 4, << {<<"MSO">>, <<"DPO">>, <<"MDO">>} >>,
              Of(2, "MDO", {"3012"}) \union Of(4, "MDO", {"3104", "4024C", "4054C", "4104C"})
                \union Of(4, "DPO", {"2024B", "3034", "4054B"}) \union Of(4, "MSO", {"2024B", "3054", "4104B", "54", "64B"})
                \union Of(6, "MSO", {"56"}) \union Of(8, "MSO", {"58", "68B"}))

TekAfg == Family("signalGenerator", "nothing", 2, << {<<"AFG">>} >>,
                 Of(2, "AFG", {"1022", "1062", "3022C", "3052C", "3102C", "3252C", "31022", "31052", "31102", "31152", "31252"})
                   \union Of(1, "AFG", {"3011C", "3021C", "3051C", "3101C", "3251C", "31021", "31051", "31101", "31151", "31251"}))

Pws == Family("powerSupply", "nothing", 1, << {<<"PWS">>} >>,
              Of(1, "PWS", {"2185", "2323", "2326", "2721", "4205", "4305", "4602", "4721"}) \union Of(3, "PWS", {"4323"}))

\* Rohde & Schwarz; of the HMC804x only the HMC8043 has an entry.
Rtb == Family("oscilloscope", "widen", 4, << {<<p>> : p \in {"RTB", "RTM", "RTA", "MXO", "HMO"}} >>,
              Of(2, "RTB", {"2002"}) \union Of(4, "RTB", {"2004"}) \union Of(2, "RTM", {"3002"})
                \union Of(4, "RTM", {"3004"}) \union Of(4, "RTA", {"4004"}) \union Of(4, "MXO", {"44", "54"})
                \union Of(8, "MXO", {"58"}) \union Of(2, "HMO", {"1002", "1202"}) \union Of(4, "HMO", {"2024"}))

Nge == Family("powerSupply", "nothing", 3, << {<<p>> : p \in {"NGE", "NGL", "NGM", "NGP", "NGU", "HMP"}} >>,
              Of(2, "NGE", {"102B"}) \union Of(3, "NGE", {"103B"}) \union Of(1, "NGL", {"201"}) \union Of(2, "NGL", {"202"})
                \union Of(1, "NGM", {"201"}) \union Of(2, "NGM", {"202"}) \union Of(4, "NGP", {"804", "814"})
                \union Of(1, "NGU", {"201", "401"}) \union Of(3, "HMP", {"2030"}) \union Of(3, "HMC", {"8043"}))

Hmc == Family("multimeter", "nothing", 1, << {<<"HMC", "8012">>, <<"HMC", "8015">>} >>, Of(1, "HMC", {"8012", "8015"}))

Sma == Family("signalGenerator", "widen", 1, << {<<"SMA">>, <<"SMB">>, <<"SMBV">>} >>,
              Of(1, "SMA", {"100A", "100B"}) \union Of(1, "SMB", {"100A"}) \union Of(1, "SMBV", {"100A", "100B"}))

Hmf == Family("signalGenerator", "nothing", 1, << {<<"HMF">>} >>, Of(1, "HMF", {"2525", "2550"}))

Fpc == Family("spectrumAnalyzer", "widen", 1, << {<<"FPC">>, <<"FPL">>, <<"HMS">>} >>,
              Of(1, "FPC", {"1000", "1500"}) \union Of(1, "FPL", {"1003", "1007", "1014"}) \union Of(1, "HMS", {"1000", "3000"}))

\* Fluke.
BenchDmm == Family("multimeter", "widen", 1, << {<<"88">>, <<"85">>} >>,
                   Of(1, "88", {"08A", "45A", "46A"}) \union Of(1, "85", {"88A", "08A"}))

Calibrator == Family("powerSupply", "nothing", 1, << {<<"55">>, <<"57">>} >>,
                     Of(1, "55", {"20A", "22A"}) \union Of(1, "57", {"30A"}))

\* GW Instek.
Gds == Family("oscilloscope", "nothing", 4, << {<<p>> : p \in {"GDS", "MSO", "MDO", "MPO"}} >>,
              Of(4, "GDS", {"1054B", "1074B", "2204E", "3352"}) \union Of(2, "GDS", {"2102E"}) \union Of(4, "MSO", {"2204"})
                \union Of(2, "MDO", {"2302EX"}))

Gpp == Family("powerSupply", "nothing", 1, << {<<"GPP">>, <<"GPD">>, <<"PSW">>} >>,
              Of(1, "GPP", {"1326"}) \union Of(2, "GPP", {"2323"}) \union Of(3, "GPP", {"3323"}) \union Of(4, "GPP", {"4323"})
                \union Of(3, "GPD", {"3303S"}) \union Of(4, "GPD", {"4303S"})
                \union Ext(1, "PSW", {"30"}, "36") \union Ext(1, "PSW", {"30"}, "72") \union Ext(1, "PSW", {"160"}, "14.4"))

Gdm == Family("multimeter", "nothing", 1, << {<<"GDM">>} >>, Of(1, "GDM", {"8261A", "8341", "9061", "9062"}))

GwAfg == Family("signalGenerator", "nothing", 2, << {<<"AFG">>, <<"MFG">>} >>,
                Of(1, "AFG", {"2005", "2105", "2125", "3021", "3081", "3121"}) \union Of(2, "AFG", {"3022"})
                  \union Of(2, "MFG", {"2230M", "2260M"}))

Gsp == Family("spectrumAnalyzer", "widen", 1, << {<<"GSP">>} >>, Of(1, "GSP", {"730", "9300", "9330"}))

----------------------------------------------------------------------------
\* Entries: which manufacturers and names an entry accepts, and what it makes.
Entry(makers, family, prefixes, count) ==
  [makers |-> makers, kind |-> family.kind, refine |-> family.refine, prefixes |-> prefixes, count |-> count]

VariantEntry(makers, family, v) == Entry(makers, family, {v.name}, v.count)

\* A table, whose order matters to nothing here but the entries' order.
InSomeOrder(variants) == FoldSet(LAMBDA v, seq : Append(seq, v), <<>>, variants)

\* The longest name first, so that SPD3303X-E is asked for before SPD3303X.
LongerFirst(v, w) == Len(v.name) > Len(w.name)

\* Mutant: the comparison is the wrong way round.
ShorterFirst(v, w) == Len(v.name) < Len(w.name)

\* Mutant: the shortest first.
SortedTheWrongWay(variants) == SortSeq(InSomeOrder(variants), ShorterFirst)

SortedByLength(variants) == SortSeq(InSomeOrder(variants), LongerFirst)

CatchAllEntries(makers, family) ==
  [i \in DOMAIN family.catchAlls |-> Entry(makers, family, family.catchAlls[i], family.default)]

Registered(makers, family, variants) ==
  [i \in DOMAIN variants |-> VariantEntry(makers, family, variants[i])] \o CatchAllEntries(makers, family)

ByLength(makers, families) ==
  FlattenSeq([i \in DOMAIN families |-> Registered(makers, families[i], SortedByLength(families[i].variants))])

\* As the table lists them: no name of these begins with the parts of another.
AsListed(makers, families) ==
  FlattenSeq([i \in DOMAIN families |-> Registered(makers, families[i], InSomeOrder(families[i].variants))])

RigolPack == AsListed({"rigol"}, <<Dho800, Dp900, Dm800, Dl3000, Dg900>>)

SiglentPack == ByLength({"siglent"}, <<Ssa3000x, Spd, Sdm, Sds, Sdl, Sdg>>)

KeysightPack == ByLength({"keysight", "agilent"}, <<E36, TrueVolt, InfiniiVision, El3, Trueform33500>>)

\* Some Owon instruments leave the manufacturer blank; their names are enough.
OwonPack ==
  FlattenSeq([i \in 1..3 |->
    LET family == <<Xdm, Spe, Xds>>[i]
    IN  ByLength({"owon", "lilliput"}, <<family>>) \o CatchAllEntries({""}, family)])

TektronixPack == ByLength({"tektronix"}, <<Tbs, Mso, TekAfg, Pws>>)

RndsPack ==
  LET makers == {"rohde & schwarz", "hameg"}
  IN  ByLength(makers, <<Rtb, Nge>>) \o AsListed(makers, <<Hmc>>) \o ByLength(makers, <<Sma, Hmf, Fpc>>)

FlukePack == ByLength({"fluke"}, <<BenchDmm, Calibrator>>)

GwInstekPack == ByLength({"gw instek", "goodwill instrument"}, <<Gds, Gpp, Gdm, GwAfg, Gsp>>)

Packs == <<RigolPack, SiglentPack, KeysightPack, OwonPack, TektronixPack, RndsPack, FlukePack, GwInstekPack>>

AllEntries == FlattenSeq(Packs)

----------------------------------------------------------------------------
\* What instruments answer to *IDN?: a listed name, such a name with a suffix, another
\* of a family, one that no family has.
Makers == UNION {e.makers : e \in Range(AllEntries)}

Beginnings == UNION {e.prefixes : e \in Range(AllEntries)}

Names == Beginnings \union {Append(p, "other") : p \in Beginnings} \union {<<"HMC", "8041">>}

Options == {"i2c", "can", "extra"}

\* What the probes of a refiner learn: the options that *OPT? lists, the number of
\* channels if one query tells it, and how many channels answer one after another.
\* 0 and {} is also what is made of an answer that does not come.
Answers == [options : SUBSET (Options \union {"unheard of"}), count : 0..3, probed : 0..4]

None == [kind |-> "unknown"]

VARIABLES
  registry,  \* the entries registered so far
  packs,     \* the packs yet to register
  phase,     \* "starting", "idle", "resolved", "ready"
  identity,  \* the maker and the name in the answer to *IDN?
  driver,    \* the entry that the registry gave
  base,      \* the profile of the entry
  answer,    \* what the instrument told its refiner
  profile    \* the profile that the driver is made with

vars == <<registry, packs, phase, identity, driver, base, answer, profile>>

NoProfile == [count |-> 0, options |-> {}]

NoAnswer == [options |-> {}, count |-> 0, probed |-> 0]

Init ==
  /\ registry = <<>> /\ packs = Packs /\ phase = "starting"
  /\ identity = [maker |-> "", name |-> <<>>]
  /\ driver = None /\ base = NoProfile /\ answer = NoAnswer /\ profile = NoProfile

\* An id names the vendor with the variant or the family.
Id(e) == <<e.makers, e.prefixes>>

\* createDefaultRegistry(), one vendor's pack at a time.  register() throws for an id
\* that it has, and the server does not start: here nothing more happens.
RegisterPack ==
  /\ packs # <<>>
  /\ registry' = registry \o Head(packs)
  /\ Cardinality({Id(e) : e \in Range(registry')}) = Len(registry')
  /\ packs' = Tail(packs)
  /\ phase' = IF Len(packs) = 1 THEN "idle" ELSE "starting"
  /\ UNCHANGED <<identity, driver, base, answer, profile>>

Accepts(e, id) == id.maker \in e.makers /\ \E p \in e.prefixes : IsPrefix(p, id.name)

\* The first entry that accepts it.
Resolve(id) ==
  LET accepting == {i \in DOMAIN registry : Accepts(registry[i], id)}
  IN  IF accepting = {} THEN None ELSE registry[CHOOSE i \in accepting : \A j \in accepting : i <= j]

\* The options that the variants of a family have of themselves: all decoders with a
\* DHO800, at least one with the other scopes whose decoders are filtered.
Bases(refine) ==
  CASE refine = "dho800" -> {{"i2c", "can"}}
    [] refine = "filter" -> {{"i2c", "can"}, {"i2c"}}
    [] refine = "widen" -> SUBSET Options
    [] OTHER -> {{}}

\* The answer to *IDN? has come: identify, and take the driver's entry.
Identify(id) ==
  /\ phase = "idle"
  /\ identity' = id
  /\ driver' = Resolve(id)
  /\ IF driver' = None
     THEN phase' = "ready" /\ base' = NoProfile
     ELSE /\ phase' = "resolved"
          /\ \E options \in Bases(driver'.refine) : base' = [count |-> driver'.count, options |-> options]
  /\ answer' = NoAnswer /\ profile' = NoProfile
  /\ UNCHANGED <<registry, packs>>

----------------------------------------------------------------------------
\* The refiners, on the profile p and the answer a.
Decoders == {"i2c", "can"}

Larger(m, n) == IF m >= n THEN m ELSE n

Smaller(m, n) == IF m <= n THEN m ELSE n

\* DHO800: a fourth channel that does not answer makes two; the decoders that are
\* licensed, if any is.
RefineDho800(p, a) ==
  [count |-> IF p.count = 4 /\ a.probed = 4 THEN 4 ELSE 2,
   options |-> IF a.options \intersect Decoders = {} THEN p.options ELSE p.options \intersect a.options]

\* DP900: the channels that it says it has, or those that answer, but one at least.
RefineDp900(p, a) ==
  [p EXCEPT !.count = Smaller(p.count, IF a.count > 0 THEN a.count ELSE Larger(1, a.probed))]

\* SPD: the channels that it says it has, if it says.
RefineSpd(p, a) == [p EXCEPT !.count = IF a.count > 0 THEN Smaller(p.count, a.count) ELSE p.count]

\* Mutant: the decoders that are licensed, none or not.
RefineFilterAnyway(p, a) == [p EXCEPT !.options = p.options \intersect a.options]

\* SDS and InfiniiVision: the decoders that are licensed, if that leaves any.
RefineFilter(p, a) ==
  [p EXCEPT !.options = IF p.options \intersect a.options = {} THEN p.options ELSE p.options \intersect a.options]

\* RTB, MSO, SMA, FPC, GSP and the bench multimeters: what is installed comes on top.
RefineWiden(p, a) == [p EXCEPT !.options = p.options \union (a.options \intersect Options)]

Refine(p, a) ==
  CASE driver.refine = "dho800" -> RefineDho800(p, a)
    [] driver.refine = "dp900" -> RefineDp900(p, a)
    [] driver.refine = "spd" -> RefineSpd(p, a)
    [] driver.refine = "filter" -> RefineFilter(p, a)
    [] driver.refine = "widen" -> RefineWiden(p, a)
    [] OTHER -> p

\* What a refiner asks for; the others' answers make no difference.
Heard(refine) ==
  CASE refine = "dho800" -> {a \in Answers : a.count = 0 /\ a.probed \in {0, 4}}
    [] refine = "dp900" -> {a \in Answers : a.options = {} /\ a.probed < 4}
    [] refine = "spd" -> {a \in Answers : a.options = {} /\ a.probed = 0}
    [] refine \in {"filter", "widen"} -> {a \in Answers : a.count = 0 /\ a.probed = 0}
    [] OTHER -> {NoAnswer}

\* driver.refine(port, identity), which never fails: what does not answer has not said
\* anything.  Then create(port, identity).
RefineAndCreate(a) ==
  /\ phase = "resolved"
  /\ a \in Heard(driver.refine)
  /\ answer' = a
  /\ profile' = Refine(base, a)
  /\ phase' = "ready"
  /\ UNCHANGED <<registry, packs, identity, driver, base>>

\* The session is closed, or connects again.
Leave ==
  /\ phase = "ready"
  /\ phase' = "idle"
  /\ identity' = [maker |-> "", name |-> <<>>]
  /\ driver' = None /\ base' = NoProfile /\ answer' = NoAnswer /\ profile' = NoProfile
  /\ UNCHANGED <<registry, packs>>

Next ==
  \/ RegisterPack
  \/ \E id \in [maker : Makers, name : Names] : Identify(id)
  \/ \E a \in Answers : RefineAndCreate(a)
  \/ Leave

Spec == Init /\ [][Next]_vars
----------------------------------------------------------------------------
\* Names that the entry's name pattern begins with, as long as that may be.
Match(e, id) == {p \in e.prefixes : IsPrefix(p, id.name)}

\* The entry that an identity gets is the one that knows most of its name: no other
\* entry that accepts it accepts more of it, whichever pack registered that one and
\* however much the variants of the table look alike; and whoever has an entry gets one.
\* Entries are ordered only so that the first that accepts is this one, and the packs'
\* order (drivers/index.ts) must not matter: no other vendor's entry accepts it.
MostSpecific ==
  identity.name # <<>> =>
    \A e \in Range(registry) :
      Accepts(e, identity) =>
        /\ driver # None
        /\ \E p \in Match(driver, identity) : \A q \in Match(e, identity) : Len(q) <= Len(p)
        /\ e.makers = driver.makers

\* Refiners that take a channel away because a query was not answered in time, though
\* the interface asks for the base profile then (registry.ts:26): the fourth channel of
\* a DHO804, all but the first of a DP900.
Shrinking == {"dho800", "dp900"}

\* A refiner leaves an instrument usable: some channel, and decoders if it had any; and
\* it takes nothing away from one that told it nothing, but for those named above.
RefinedStaysUsable ==
  (phase = "ready" /\ driver # None) =>
    /\ profile.count \in 1..base.count
    /\ base.options \intersect Decoders # {} => profile.options \intersect Decoders # {}
    /\ (answer = NoAnswer /\ driver.refine \notin Shrinking) => profile = base
=============================================================================
