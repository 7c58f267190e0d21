------------------------------- MODULE Session -------------------------------
(***************************************************************************)
(* One run of main() after its options are settled: the cards that CUDA,    *)
(* OpenCL and NVML each list are joined into one table (gpu/device_join),   *)
(* --devices picks from it, power caps land by NVML position, solvers are   *)
(* built and the cards without one skipped, then threads start one after    *)
(* another over main()'s locals, any of several late refusals unwinds them, *)
(* and --report rebuilds the one solver for each card in turn.              *)
(*                                                                         *)
(* A list of cards is a view of the physical cards; a position in the code  *)
(* counts from 0, here from 1.  Metal is left out.                          *)
(***************************************************************************)
EXTENDS Naturals, Sequences, SequencesExt, FiniteSets

CONSTANTS
  Nvidia, Amd,   \* the physical cards
  Rigs,          \* [cuda, cl, nvml]: what the three drivers list
  Specs,         \* the --devices lists, as sequences of words
  PowerLists,    \* the --pl lists: a watt value or Skip per position
  Stored         \* per card, the cap --tune stored (0: none)

Cards == Nvidia \cup Amd
Skip == 0
Stock == 0       \* a card at its own limit

(* CUDA lists a card once; OpenCL and NVML list what they like.             *)
ASSUME SessionAssumption ==
  /\ Stored \in [Cards -> Nat]
  /\ \A r \in Rigs :
       /\ r.cuda \in Seq([card : Nvidia, viable : BOOLEAN])
       /\ \A i, j \in DOMAIN r.cuda : r.cuda[i].card = r.cuda[j].card => i = j
       /\ r.cl \in Seq([card : Cards, pci : BOOLEAN, named : BOOLEAN])
       /\ r.nvml \in Seq([card : Nvidia, pci : BOOLEAN])

VARIABLES
  rig, backend,  \* backend: --solver
  mode,          \* "mine", "bench" or "report"
  pc,
  table,         \* cards: join_devices' result
  asked,         \* was --devices given?
  words,         \* the words of --devices still to be looked up
  selected,      \* selected_devices
  pl,            \* --pl: auto, or a list
  limit,         \* per card, the cap that stands (hardware)
  denied,        \* positions whose cap the driver would not set
  next,          \* the place in the table, later in selected_devices
  solvers,       \* solver and extra_solvers
  name,          \* dev_name: the card that the device block and the report name
  labels,        \* the card each row of the statistics is labelled with
  positions,     \* solver_positions
  rows,          \* nvml_index, as the telemetry source copied it
  told,          \* positions whose trouble the console named
  alive,         \* main()'s locals that are not destroyed
  running,       \* threads that run
  jobs           \* have the engines been handed a job?

rigVars == <<rig, backend, mode>>
cardVars == <<table, asked, words, selected, pl, limit, denied>>
builtVars == <<next, solvers, name, labels, positions, rows, told>>
threadVars == <<alive, running, jobs>>
vars == <<rigVars, pc, cardVars, builtVars, threadVars>>

------------------------------------------------------------------------------
(* join_devices().  Two addresses agree when they are of the same card, and   *)
(* an address that a driver does not report agrees with nothing.              *)

WantCuda == backend \in {"auto", "gpu", "cuda"}
WantOpenCl == backend \in {"auto", "gpu", "opencl"}

NvmlDisagrees(i, card, known) ==
  /\ i <= Len(rig.nvml) /\ rig.nvml[i].pci /\ known
  /\ rig.nvml[i].card # card

(* The OpenCL devices on the bus of a card, and whether the one there is goes   *)
(* by the card's name.                                                         *)
Twins(card) == {d \in DOMAIN rig.cl : rig.cl[d].pci /\ rig.cl[d].card = card}

JoinCuda_FaultNoCheck(i) ==   \* mutant: NVML's order is not compared
  LET c == rig.cuda[i]
      twins == Twins(c.card)
      match == WantOpenCl /\ Cardinality(twins) = 1 /\ \A d \in twins : rig.cl[d].named
      runs == IF WantCuda /\ c.viable THEN "cuda" ELSE IF match THEN "opencl" ELSE "none"
  IN [card |-> c.card, pci |-> TRUE, backend |-> runs, cuda |-> i,
      cl |-> IF match THEN CHOOSE d \in twins : TRUE ELSE 0,
      degraded |-> FALSE, reason |-> FALSE]
JoinCuda(i) ==
  LET c == rig.cuda[i]
      twins == Twins(c.card)
      crossed == NvmlDisagrees(i, c.card, TRUE)
      look == ~crossed /\ WantOpenCl
      match == look /\ Cardinality(twins) = 1 /\ \A d \in twins : rig.cl[d].named
      degraded == crossed \/ (look /\ twins # {} /\ ~match)
      runs == IF WantCuda /\ c.viable THEN "cuda" ELSE IF match THEN "opencl" ELSE "none"
  IN [card |-> c.card, pci |-> TRUE, backend |-> runs, cuda |-> i,
      cl |-> IF match THEN CHOOSE d \in twins : TRUE ELSE 0,
      degraded |-> degraded,
      \* --solver cuda gives a reason only to the cards it skips
      reason |-> IF runs = "none" THEN WantCuda \/ WantOpenCl
                 ELSE runs = "cuda" /\ backend # "cuda" /\ degraded]

(* No CUDA device: the OpenCL list is the table.                               *)
JoinCl(i) ==
  LET c == rig.cl[i]
      crossed == NvmlDisagrees(i, c.card, c.pci)
  IN [card |-> c.card, pci |-> c.pci, backend |-> IF WantOpenCl THEN "opencl" ELSE "none",
      cuda |-> 0, cl |-> i, degraded |-> crossed,
      reason |-> crossed \/ backend = "cuda"]

JoinDevices ==
  IF rig.cuda # <<>> THEN [i \in DOMAIN rig.cuda |-> JoinCuda(i)]
  ELSE [i \in DOMAIN rig.cl |-> JoinCl(i)]

(* resolve_devices(): every word names at least one card of the table, and a    *)
(* card named twice counts once.                                               *)
Names(word, i) ==
  CASE word.by = "all"    -> TRUE
    [] word.by = "index"  -> word.at = i
    [] word.by = "vendor" -> table[i].card \in word.at
    [] word.by = "pci"    -> table[i].pci /\ table[i].card = word.at

Take_FaultTwice(chosen, i) == Append(chosen, i)   \* mutant: duplicates are kept
Take(chosen, i) == IF Contains(chosen, i) THEN chosen ELSE Append(chosen, i)

------------------------------------------------------------------------------
NoLimit == [auto |-> FALSE, list |-> <<>>]

Init ==
  /\ rig \in Rigs
  /\ backend \in {"auto", "cuda", "opencl", "ref"}
  /\ mode \in {"mine", "bench", "report"}
  /\ pc = "join"
  /\ table = <<>> /\ asked = FALSE /\ words = <<>> /\ selected = <<>> /\ pl = NoLimit
  /\ limit = [c \in Cards |-> Stock] /\ denied = {}
  /\ next = 1 /\ solvers = <<>> /\ name = "none" /\ labels = <<>> /\ positions = <<>>
  /\ rows = <<>> /\ told = {}
  /\ alive = {"thermal", "pause", "stats"} /\ running = {} /\ jobs = FALSE

Goto(label) == pc' = label

(* The table is printed and main() ends under --list-devices.                    *)
Join ==
  /\ pc = "join"
  /\ table' = JoinDevices
  /\ pc' \in {"select", "gone"}
  /\ UNCHANGED <<rigVars, asked, words, selected, pl, limit, denied, builtVars, threadVars>>

(* Without --devices every card is taken, as by the word all.                     *)
Select ==
  /\ pc = "select"
  /\ \E spec \in Specs :
       /\ words' = IF spec = <<>> THEN <<[by |-> "all"]>> ELSE spec
       /\ asked' = (spec # <<>>)
  /\ Goto("resolve")
  /\ UNCHANGED <<rigVars, table, selected, pl, limit, denied, builtVars, threadVars>>

(* The word at hand is compared with one row of the table after another.          *)
ResolveRow ==
  /\ pc = "resolve" /\ words # <<>> /\ next <= Len(table)
  /\ selected' = IF Names(Head(words), next) THEN Take(selected, next) ELSE selected
  /\ next' = next + 1
  /\ UNCHANGED <<rigVars, pc, table, asked, words, pl, limit, denied, solvers, name,
                 labels, positions, rows, told, threadVars>>

Found(word) == word.by = "all" \/ \E i \in DOMAIN table : Names(word, i)

ResolveWord ==
  /\ pc = "resolve" /\ words # <<>> /\ next > Len(table)
  /\ words' = Tail(words)
  /\ next' = 1
  /\ Goto(IF ~Found(Head(words)) THEN "gone" ELSE IF Tail(words) = <<>> THEN "oc" ELSE "resolve")
  /\ UNCHANGED <<rigVars, table, asked, selected, pl, limit, denied, solvers, name,
                 labels, positions, rows, told, threadVars>>

------------------------------------------------------------------------------
(* Power caps.  They are applied before any solver is built, when the first      *)
(* selected card will run and NVML is there.                                     *)

Measuring == mode # "mine"
Primary == IF selected = <<>> THEN 1 ELSE selected[1]
HaveNvml == /\ rig.nvml # <<>> /\ Primary <= Len(table)
            /\ table[Primary].backend # "none"
NvmlCard(p) == rig.nvml[p].card
OnNvml(p) == p <= Len(rig.nvml)

OcTargets == IF Measuring \/ selected = <<>> THEN <<Primary>> ELSE selected

(* What a per-GPU list says of position p; a list that is too short says nothing. *)
ListAt(list, p) == IF p <= Len(list) THEN list[p] ELSE Skip

(* --pl auto: the cap stored for the card at p, written so that it lands at p.    *)
SpecAt_FaultBare(p, w) == <<w>>   \* mutant: the bare number
SpecAt(p, w) == [i \in 1..p |-> IF i = p THEN w ELSE Skip]

ResolveAuto(p) == IF OnNvml(p) /\ Stored[NvmlCard(p)] # 0
                    THEN SpecAt(p, Stored[NvmlCard(p)]) ELSE <<>>

CapFor(list, auto, p) == ListAt(IF auto THEN ResolveAuto(p) ELSE list, p)

(* Every target in turn; the driver may refuse any of them.                        *)
ApplyOc ==
  /\ pc = "oc" /\ next = 1
  /\ \/ pl' = NoLimit /\ UNCHANGED <<limit, denied>>
     \/ \E list \in PowerLists, auto \in BOOLEAN, no \in SUBSET ToSet(OcTargets) :
          LET asks == {p \in ToSet(OcTargets) : OnNvml(p) /\ CapFor(list, auto, p) # Skip}
              sets == IF HaveNvml THEN asks \ no ELSE {}
          IN /\ no \subseteq asks
             /\ pl' = [auto |-> auto, list |-> list]
             /\ denied' = no
             /\ limit' = [c \in Cards |->
                  LET at == {p \in sets : NvmlCard(p) = c} IN
                    IF at = {} THEN limit[c]
                    ELSE CapFor(list, auto, CHOOSE p \in at : TRUE)]
  /\ Goto("build")
  /\ UNCHANGED <<rigVars, table, asked, words, selected, builtVars, threadVars>>

------------------------------------------------------------------------------
(* Solvers.                                                                       *)

(* The solver made for position p by one path: the card it drives, and the cap    *)
(* it was sized under.                                                            *)
Built(p, path) ==
  [pos |-> p, path |-> path,
   card |-> IF path = "cuda" THEN rig.cuda[table[p].cuda].card ELSE rig.cl[table[p].cl].card,
   cap |-> IF HaveNvml /\ OnNvml(p) THEN limit[NvmlCard(p)] ELSE Stock]

(* The paths make_solver tries, any of which may throw.                           *)
Paths(p) ==
  IF table[p].backend = "none" THEN {}
  ELSE (IF table[p].backend = "cuda" THEN {"cuda"} ELSE {})
       \cup (IF table[p].cl # 0 /\ backend # "cuda" THEN {"opencl"} ELSE {})
Speaks(p) == table[p].reason /\ (table[p].backend = "none" \/ table[p].degraded)

FirstOf(made) == IF solvers = <<>> /\ made # <<>> THEN made[1].card ELSE name

AddSolver_FaultAllRows(p, made) ==   \* mutant: a card skipped while mining keeps its row
  /\ solvers' = solvers \o made /\ name' = FirstOf(made)
  /\ labels' = labels \o [i \in DOMAIN made |-> made[i].card]
  /\ positions' = IF made = <<>> /\ Measuring THEN positions ELSE Append(positions, p)
AddSolver(p, made) ==
  /\ solvers' = solvers \o made /\ name' = FirstOf(made)
  /\ labels' = labels \o [i \in DOMAIN made |-> made[i].card]
  /\ positions' = positions \o [i \in DOMAIN made |-> p]

(* One selected card: a solver by one of its paths, or it is skipped.  A          *)
(* measuring mode builds only the first.                                          *)
BuildSolver ==
  /\ pc = "build"
  /\ next <= (IF Measuring /\ selected # <<>> THEN 1 ELSE Len(selected))
  /\ LET p == selected[next] IN
       \E made \in {<<>>} \cup {<<Built(p, path)>> : path \in Paths(p)} :
         /\ AddSolver(p, made)
         /\ told' = IF Speaks(p) \/ (made = <<>> /\ Paths(p) # {}) THEN told \cup {p} ELSE told
  /\ next' = next + 1
  /\ UNCHANGED <<rigVars, pc, cardVars, rows, threadVars>>

(* No card took a solver: the CPU reference, where built and allowed, has no       *)
(* position.  The labels and the telemetry source's list of NVML positions are     *)
(* copied here; --report's rebuilds leave both.  --report on a rig is refused until *)
(* --devices says which card.                                                      *)
Reference == [pos |-> 0, path |-> "ref", card |-> "cpu", cap |-> Stock]
BuildEnds ==
  /\ pc = "build"
  /\ next > (IF Measuring /\ selected # <<>> THEN 1 ELSE Len(selected))
  /\ \/ UNCHANGED <<solvers, labels>>
     \/ /\ solvers = <<>> /\ backend \in {"ref", "auto"}
        /\ solvers' = <<Reference>> /\ labels' = <<"cpu">>
  /\ rows' = IF ~HaveNvml \/ solvers' = <<>> THEN <<>>
             ELSE IF positions = <<>> THEN <<1>> ELSE positions
  /\ next' = 1
  /\ alive' = alive \cup {"solvers", "client"}
  /\ Goto(IF mode = "mine" THEN "engines"
          ELSE IF mode = "report" /\ Len(table) > 1 /\ ~asked THEN "unwind" ELSE mode)
  /\ UNCHANGED <<rigVars, cardVars, name, positions, told, running, jobs>>

(* --benchmark: the one solver, or a refusal; both unwind.                          *)
Benchmark ==
  /\ pc = "bench"
  /\ alive' = IF solvers = <<>> THEN alive ELSE alive \cup {"ticker"}
  /\ running' = IF solvers = <<>> THEN running ELSE running \cup {"ticker"}
  /\ Goto("unwind")
  /\ UNCHANGED <<rigVars, cardVars, builtVars, jobs>>

------------------------------------------------------------------------------
(* --report: the selected cards one after another, each with a solver of its own.   *)

Holds_FaultAny(p) == positions # <<>>   \* mutant: whatever solver stands is kept
Holds(p) == positions # <<>> /\ positions[1] = p

ReportRebuild ==
  /\ pc = "report" /\ next <= Len(selected)
  /\ LET p == selected[next] IN
       /\ ~Holds(p)
       /\ \/ /\ \E path \in Paths(p) : solvers' = <<Built(p, path)>>
             /\ name' = solvers'[1].card
             /\ positions' = <<p>>
             /\ Goto("measure") /\ UNCHANGED next
          \/ /\ solvers' = <<>>
             /\ next' = next + 1
             /\ UNCHANGED <<name, positions, pc>>
       /\ told' = IF Speaks(p) \/ (solvers' = <<>> /\ Paths(p) # {}) THEN told \cup {p} ELSE told
  /\ UNCHANGED <<rigVars, cardVars, labels, rows, threadVars>>

ReportKeep ==
  /\ pc = "report" /\ next <= Len(selected) /\ Holds(selected[next])
  /\ Goto("measure")
  /\ UNCHANGED <<rigVars, cardVars, builtVars, threadVars>>

(* run_report on the card at hand; Ctrl+C ends the round of cards.                   *)
ReportMeasure ==
  /\ pc = "measure"
  /\ next' = next + 1
  /\ pc' \in {"report", "unwind"}
  /\ UNCHANGED <<rigVars, cardVars, solvers, name, labels, positions, rows, told, threadVars>>

ReportEnds ==
  /\ pc = "report" /\ next > Len(selected)
  /\ Goto("unwind")
  /\ UNCHANGED <<rigVars, cardVars, builtVars, threadVars>>

------------------------------------------------------------------------------
(* Mining: locals in the order they are declared, threads in the order they start. *)

(* The worker threads of the engines, which start and stop together.                  *)
Engines == IF solvers = <<>> THEN {} ELSE {"engines"}
Declared == <<"thermal", "pause", "stats", "solvers", "client", "engines", "router",
              "devfee", "http", "ticker", "watchdog", "keys">>
BuiltUnchanged == UNCHANGED <<rigVars, cardVars, builtVars>>
MineUnchanged == BuiltUnchanged /\ UNCHANGED jobs

(* One engine per solver in lane k of Len(solvers), the router over them.            *)
MakeEngines ==
  /\ pc = "engines"
  /\ alive' = alive \cup {"engines", "router", "devfee"}
  /\ Goto("fee") /\ UNCHANGED running /\ MineUnchanged

(* A --dev-fee below the built-in rate is refused here.                              *)
Fee == /\ pc = "fee"
       /\ \/ Goto("http")
          \/ Engines # {} /\ Goto("unwind")
       /\ UNCHANGED threadVars /\ BuiltUnchanged

(* The API may be off, or fail to bind.                                              *)
StartHttp ==
  /\ pc = "http"
  /\ alive' = alive \cup {"http"}
  /\ running' \in {running, running \cup {"http"}}
  /\ Goto("layout") /\ MineUnchanged

(* A file's statistics layout is judged only now.                                    *)
Layout == /\ pc = "layout"
          /\ pc' \in {"ticker", "unwind"}
          /\ UNCHANGED threadVars /\ BuiltUnchanged

StartTicker ==
  /\ pc = "ticker"
  /\ alive' = alive \cup {"ticker"} /\ running' = running \cup {"ticker"}
  /\ Goto("limits") /\ MineUnchanged

StartThermal ==
  /\ pc = "limits"
  /\ running' \in {running, running \cup {"thermal"}}
  /\ Goto("start") /\ UNCHANGED alive /\ MineUnchanged

StartEngines ==
  /\ pc = "start"
  /\ running' = running \cup Engines
  /\ Goto("watch") /\ UNCHANGED alive /\ MineUnchanged

StartWatchdog_FaultFeeFirst ==   \* mutant: the scheduler starts before the refusals
  /\ pc = "watch"
  /\ alive' = alive \cup {"watchdog"}
  /\ running' = running \cup {"sched"}
  /\ pc' \in {"sched", "unwind"} /\ MineUnchanged
(* An unknown action or a missing script is refused with the engines running.        *)
StartWatchdog ==
  /\ pc = "watch"
  /\ alive' = alive \cup {"watchdog"}
  /\ \/ UNCHANGED running /\ Goto("sched")
     \/ Engines # {} /\ running' = running \cup {"watchdog"} /\ Goto("sched")
     \/ Engines # {} /\ UNCHANGED running /\ Goto("unwind")
  /\ MineUnchanged

StartScheduler ==
  /\ pc = "sched"
  /\ running' \in {running} \cup (IF Engines = {} THEN {} ELSE {running \cup {"sched"}})
  /\ Goto("keys") /\ UNCHANGED alive /\ MineUnchanged

(* client.run() never returns.                                                       *)
RunClient ==
  /\ pc = "keys"
  /\ alive' = alive \cup {"keys"}
  /\ \E k \in {{}, {"keys"}} : running' = running \cup k \cup {"client"}
  /\ Goto("run") /\ MineUnchanged

(* A return from main(): the last declared local goes first, and a destructor joins  *)
(* the thread its object runs.                                                       *)
ThreadOf(object) == IF object = "devfee" THEN "sched" ELSE object

Unwind ==
  /\ pc = "unwind"
  /\ LET last == Declared[CHOOSE i \in DOMAIN Declared :
                   Declared[i] \in alive /\ \A j \in i + 1..Len(Declared) : Declared[j] \notin alive]
     IN /\ alive' = alive \ {last}
        /\ running' = running \ {ThreadOf(last)}
        /\ Goto(IF alive = {last} THEN "gone" ELSE "unwind")
  /\ MineUnchanged

(* A job reaches the engines from the pool's reader or from the fee's scheduler.      *)
Dispatch ==
  /\ running \cap {"client", "sched"} # {} /\ ~jobs
  /\ jobs' = TRUE
  /\ UNCHANGED <<rigVars, pc, cardVars, builtVars, alive, running>>

Halt == pc \in {"gone", "run"} /\ UNCHANGED vars

Next ==
  \/ Join \/ Select \/ ResolveRow \/ ResolveWord \/ ApplyOc \/ BuildSolver \/ BuildEnds
  \/ Benchmark \/ ReportRebuild \/ ReportKeep \/ ReportMeasure \/ ReportEnds
  \/ MakeEngines \/ Fee \/ StartHttp \/ Layout \/ StartTicker \/ StartThermal
  \/ StartEngines \/ StartWatchdog \/ StartScheduler \/ RunClient
  \/ Dispatch \/ Unwind \/ Halt

Spec == Init /\ [][Next]_vars

------------------------------------------------------------------------------
(* Who reads what.                                                                   *)

(* Row k of the statistics table samples this NVML position; engine k's sensor.       *)
TelemetryAt(k) == IF k <= Len(rows) THEN rows[k] ELSE k
SensorAt(k) == IF k <= Len(positions) THEN positions[k] ELSE 0

(* What a thread may touch.  A snapshot of the statistics samples every row, which    *)
(* reads the thermal controller and the pause key.                                    *)
Touches(thread) ==
  CASE thread = "thermal" -> {"thermal"}
    [] thread \in {"http", "ticker", "keys", "watchdog"} -> {"stats", "thermal", "pause"}
    [] thread = "sched"   -> {"devfee", "router", "engines", "stats"}
    [] thread = "client"  -> {"client", "stats", "router", "engines"}
    [] thread = "engines" -> {"engines", "solvers"} \cup
                (IF jobs THEN {"client", "stats", "devfee", "thermal", "pause"} ELSE {})

------------------------------------------------------------------------------
(* Properties.                                                                       *)

Sized == pc \notin {"join", "select", "resolve", "oc", "build"}
OnCard(s) == s.path # "ref"

(* However many selected cards are skipped, the label of engine k, its row of the     *)
(* statistics table and its temperature sensor are those of the one card its solver   *)
(* drives (main()'s solver_positions: "a skipped card would shift every telemetry     *)
(* row after it onto the wrong card's sensors").  Under --report it is false of every  *)
(* card after the first: the label and the telemetry source's list stay those of the   *)
(* card built at start-up, so that mode is left out here.                              *)
RowsAreOneCard ==
  Sized /\ mode # "report" => \A k \in DOMAIN solvers : OnCard(solvers[k]) =>
    /\ labels[k] = solvers[k].card /\ table[solvers[k].pos].card = solvers[k].card
    /\ HaveNvml => TelemetryAt(k) = solvers[k].pos
    /\ SensorAt(k) = solvers[k].pos

(* Where CUDA lists the cards, no card is mined by two engines, whatever --devices     *)
(* repeats and however many OpenCL platforms show a card (resolve_devices, the join).  *)
OneEnginePerCard ==
  rig.cuda # <<>> =>
    \A j, k \in DOMAIN solvers : solvers[j].card = solvers[k].card => j = k

(* A cap reaches a card only from its own position in the list, --pl auto puts on      *)
(* each target the cap stored for that very card unless the driver refused, and a      *)
(* solver is sized under the cap that stands at its position (resolve_pl_auto, the      *)
(* order of the overclock block and make_solver).                                      *)
CapsAreTheirOwn ==
  LET targets == {p \in ToSet(OcTargets) : OnNvml(p)} IN
  Sized =>
    /\ \A c \in Cards : limit[c] # Stock =>
         \E p \in targets : NvmlCard(p) = c /\ (limit[c] = IF pl.auto THEN Stored[c] ELSE pl.list[p])
    /\ pl.auto /\ HaveNvml =>
         \A p \in targets \ denied : limit[NvmlCard(p)] = Stored[NvmlCard(p)]
    /\ \A s \in ToSet(solvers) :
         OnCard(s) /\ HaveNvml /\ OnNvml(s.pos) => s.cap = limit[NvmlCard(s.pos)]

(* A card that mines while NVML lists another card at its position, so that caps,       *)
(* sensors and telemetry are the other's, has been named on the console.                *)
Misaimed(s) == OnCard(s) /\ OnNvml(s.pos) /\ NvmlCard(s.pos) # s.card
Comparable(s) == rig.nvml[s.pos].pci /\ table[s.pos].pci
EveryMisaimIsTold ==
  Sized => \A s \in ToSet(solvers) : Misaimed(s) /\ Comparable(s) => s.pos \in told
(* It holds wherever --solver is not cuda.                                              *)
MisaimIsTold == backend # "cuda" => EveryMisaimIsTold

(* --report never measures without a solver, or one card under the position or the name *)
(* of another, even after a card between two that work fails to build: the failure      *)
(* frees the solver and leaves name and position (main()'s loop over the selection).    *)
ReportHasItsCard ==
  pc = "measure" =>
    /\ Len(solvers) = 1 /\ solvers[1].pos = selected[next]
    /\ solvers[1].card = table[selected[next]].card /\ name = solvers[1].card

(* So a solver, what is read about it and the card it drives stay together.              *)
SolversMatchCards == RowsAreOneCard /\ OneEnginePerCard /\ ReportHasItsCard

(* On every way out of main(), including the refusals met when threads already run, no  *)
(* thread can touch a local that is destroyed (the declaration order main()'s comments   *)
(* rely on).                                                                            *)
TeardownIsQuiet == \A t \in running : Touches(t) \subseteq alive
==============================================================================
