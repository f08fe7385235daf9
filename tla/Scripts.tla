------------------------------ MODULE Scripts ------------------------------
(***************************************************************************)
(* The vocabulary in which drivers and routes are written down.            *)
(*                                                                         *)
(* A driver method is an async function over a ScpiPort: an alternation of *)
(* awaited commands and queries with assignments to private fields.  What  *)
(* matters to its callers is the order of those steps, which of them are   *)
(* awaited one by one and which together, which failures it swallows,      *)
(* which checks can stop it half way, and when it updates the fields.  A   *)
(* script is that order for one choice of arguments and of the replies     *)
(* that the method branches on; a method is the set of its scripts.        *)
(*                                                                         *)
(* Registers are settings of the instrument, named by the command that     *)
(* writes or reads them; a field is private state of the driver object.    *)
(* Values are not modelled here: a call writes its own name (Calls.tla).   *)
(***************************************************************************)
EXTENDS Naturals, Sequences, FiniteSets, Functions

\* One step: what it does and the registers or fields it is about; those whose failure
\* is caught by a default; the selectors its effect goes through; the field that, when
\* it already holds the caller's choice, lets the driver leave the step out; whether
\* the field it assigns stands for a register; and whether a try around the whole
\* method turns its failure into a default answer.
Step(do, on) ==
  [do |-> do, on |-> on, soft |-> {}, via |-> {}, unless |-> "none", mirror |-> FALSE, rescued |-> FALSE]

\* A script ends well, or is refused by a check.
Script(steps, end) == [steps |-> steps, end |-> end]

Only(step) == {Script(<<step>>, "ok")}

Nothing == {Script(<<>>, "ok")}

\* A check of the arguments or of a capability does not hold.
Refused == {Script(<<>>, "refused")}

\* await port.write(...): one line, which sets the registers of s.
Puts(s) == Only(Step("put", s))
Put(r) == Puts(<<r>>)

\* await port.write(...).catch(() => undefined)
SoftPut(r) == Only([Step("put", <<r>>) EXCEPT !.soft = {r}])

\* The same for each of s, one awaited after the other.
PutInTurn(s) == {Script([i \in DOMAIN s |-> Step("put", <<s[i]>>)], "ok")}
SoftPutInTurn(s) ==
  {Script([i \in DOMAIN s |-> [Step("put", <<s[i]>>) EXCEPT !.soft = {s[i]}]], "ok")}

\* A command with the value that the call has read before: the part of a
\* configuration that a request does not change.
PutBack(r) == Only(Step("putback", <<r>>))

\* await Promise.all([...queries]): the lines go into the port's queue together;
\* the queries of soft have a default for when they fail.
Queries(s, soft) == Only([Step("get", s) EXCEPT !.soft = soft])
Gets(s) == Queries(s, {})
Get(r) == Gets(<<r>>)
SoftGets(s) == Queries(s, Range(s))
SoftGet(r) == SoftGets(<<r>>)

\* await port.query(...) for each of s, one after the other.
GetInTurn(s) == {Script([i \in DOMAIN s |-> Step("get", <<s[i]>>)], "ok")}

\* this.#field = ...: the caller's choice; what the query of r has answered, if it
\* has; or a default.
Keep(f) == Only(Step("keep", <<f>>))
Learn(f, r) == Only(Step("learn", <<f, r>>))
Forget(f) == Only(Step("forget", <<f>>))

\* The same for a field that stands for the register r of the instrument.
Mirror(f, r) == Only([Step("keep", <<f, r>>) EXCEPT !.mirror = TRUE])
Mirrored(f, r) == Only([Step("learn", <<f, r>>) EXCEPT !.mirror = TRUE])

\* if (this.#field !== x) await port.write(select x)
SelectUnless(r, f) == Only([Step("put", <<r>>) EXCEPT !.unless = f])

\* A, then B; B is not reached when A was refused.
A ++ B == {IF a.end = "ok" THEN Script(a.steps \o b.steps, b.end) ELSE a : a \in A, b \in B}

Maybe(A) == A \union Nothing

\* A guard: it lets the request pass or refuses it.
Checked(A) == Refused \union A

\* Methods of one awaited line each, one register for each of R.
EachPut(R) == UNION {Put(r) : r \in R}
EachSoftPut(R) == UNION {SoftPut(r) : r \in R}
EachGet(R) == UNION {Get(r) : r \in R}

EachStep(A, F(_)) == {[a EXCEPT !.steps = [i \in DOMAIN a.steps |-> F(a.steps[i])]] : a \in A}

\* What A does to or asks of the instrument is about what the selector points to.
Through(sel, A) ==
  LET through(s) == IF s.do \in {"keep", "learn", "forget"} THEN s ELSE [s EXCEPT !.via = @ \union {sel}]
  IN  EachStep(A, through)

\* Select, then act on what is selected.
Selected(sel, A) == Put(sel) ++ Through(sel, A)

\* The same with the selection remembered in field f.
Remembered(sel, f, A) == SelectUnless(sel, f) ++ Mirror(f, sel) ++ Through(sel, A)

\* try { A } catch { return a default }
Rescued(A) == LET rescued(s) == [s EXCEPT !.rescued = TRUE] IN EachStep(A, rescued)

\* Optional parts of a request: none of them, one of them, or all in order.
SomeOf(s) == Nothing \union UNION {Put(s[i]) : i \in DOMAIN s} \union PutInTurn(s)

\* What a script reads, sets, keeps and goes through.
StepsOf(script, kinds) == {script.steps[i] : i \in {j \in DOMAIN script.steps : script.steps[j].do \in kinds}}
Sets(script) == UNION {Range(s.on) : s \in StepsOf(script, {"put", "putback"})}
Reads(script) == UNION {Range(s.on) : s \in StepsOf(script, {"get"})}
Keeps(script) == {s.on[1] : s \in StepsOf(script, {"keep"})}
Assigns(script) == {s.on[1] : s \in StepsOf(script, {"keep", "learn", "forget"})}
Selectors(script) == UNION {s.via : s \in StepsOf(script, {"put", "putback", "get"})}

\* Field and register that ought to agree; the selections that may be left out.
Mirrors(script) == {<<s.on[1], s.on[2]>> : s \in {t \in StepsOf(script, {"keep", "learn"}) : t.mirror}}
Memories(script) == {<<s.unless, s.on[1]>> : s \in {t \in StepsOf(script, {"put"}) : t.unless # "none"}}

----------------------------------------------------------------------------
\* What most drivers have: numbered memories, checked for their range.
SlotPresets == Checked(EachPut({"*SAV", "*RCL"}))
=============================================================================
