------------------------------- MODULE Options -------------------------------
(***************************************************************************)
(* What a run of the miner is asked to do: the command line, one argument  *)
(* at a time (cli/options.cpp), the configuration file, one table row at a  *)
(* time (config/config.cpp), the rules that hold between options, and the   *)
(* refusals at the top of main() that decide whether anything starts.       *)
(*                                                                         *)
(* The arguments and the file are chosen as they are read.  A spelling is  *)
(* a word: each field has a few that its parser accepts and at least one    *)
(* that it does not.  Help and error texts are left out.                    *)
(***************************************************************************)
EXTENDS Integers, Sequences, SequencesExt, FiniteSets

CONSTANTS IntMax,    \* the largest int, scaled down
          MaxArgs,   \* bound: arguments on the command line
          MaxRows,   \* bound: table keys present in the file
          MaxPools,  \* bound: pools on one side
          Themes     \* the sets of keys one run's operator draws from

ASSUME OptionsAssumption ==
  /\ IntMax \in Nat /\ IntMax > 200
  /\ {MaxArgs, MaxRows, MaxPools} \subseteq Nat

VARIABLES
  theme,   \* the keys this operator uses
  stage,
  opts,    \* cli::Options, the scalar fields
  seen,    \* cli::Options::Seen
  algo,    \* parse_args' local: what --algo, --coin or a mode wrote last
  lists,   \* parse_args' pool_args, user_args, pass_args and tls_args
  pools,   \* Options::pools
  file,    \* which loader runs: "none", "flat", "json"
  cliPools,  \* main()'s cli_pools
  row,     \* the loader's place in its tables
  typed,   \* history: per field, the value the command line gave ({} if none)
  filed    \* history: per field, the value the file gave ({} if none)

optionVars == <<theme, stage, opts, seen, algo, lists, pools, file, cliPools, row, typed, filed>>
cliVars == <<opts, seen, algo, lists, typed>>

------------------------------------------------------------------------------
(* The fields, their ranges and their words.                                *)

Limits == [apiport |-> <<0, 65535>>, shortstats |-> <<1, IntMax>>,
          longstats |-> <<1, IntMax>>, digits |-> <<0, 6>>, silence |-> <<0, 3>>,
          keepfree_mb |-> <<0, 1048576>>, tstop |-> <<0, 150>>, tstart |-> <<0, 150>>,
          benchmark_seconds |-> <<1, IntMax>>, report_seconds |-> <<1, IntMax>>,
          tune_seconds |-> <<15, IntMax>>, devfee_pct |-> <<0, 100>>]

(* The order both loaders walk their tables in: integers, switches, the fee and   *)
(* strings.                                                                     *)
TableRows ==
  <<"apiport", "shortstats", "longstats", "digits", "silence", "keepfree_mb",
    "tstop", "tstart", "benchmark_seconds",
    "nocolor", "log_enabled", "timeprint", "watchdog_requested", "no_oc_reset",
    "devices_by_pcie", "compactaccept", "vstats", "hstats",
    "devfee_pct",
    "apihost", "devices", "tmode", "statsformat", "log_path", "solver", "benchmark",
    "power_limit", "core_clock", "mem_clock", "core_offset", "mem_offset", "fan",
    "watchdog_script">>

Seconds == {"benchmark_seconds", "report_seconds", "tune_seconds"}
SignedLists == {"core_offset", "mem_offset", "fan"}
OcLists == SignedLists \cup {"power_limit", "core_clock", "mem_clock"}
Switches == {"nocolor", "compactaccept", "list_devices", "devices_by_pcie",
             "list_algos", "list_coins"}
OnOff == {"log_enabled", "timeprint", "no_oc_reset"}
Layouts == {"vstats", "hstats"}
FreeText == {"devices", "log_path", "watchdog_script", "report_out"}
Booleans == Switches \cup OnOff \cup Layouts \cup {"watchdog_requested"}

(* The fields that start with a value of their own; the others start off or empty. *)
Given ==
  [apiport |-> 0, apihost |-> "any", shortstats |-> 15, longstats |-> 60,
   watchdog_action |-> "exit", solver |-> "auto", silence |-> 0, stats_width |-> 0,
   keepfree_mb |-> -1, tstop |-> 0, tstart |-> 0, tmode |-> "edge", digits |-> 2,
   devfee_pct |-> -1, benchmark_seconds |-> 0, report_seconds |-> 120,
   tune_seconds |-> 60, tune_min_gain |-> 7]
Flags == Booleans \cup {"tune", "report"}
Fields == DOMAIN Given \cup Flags \cup OcLists \cup FreeText
          \cup {"statsformat", "benchmark", "tune_caps"}
Defaults ==
  [f \in Fields |-> IF f \in Flags THEN FALSE
                  ELSE IF f \in DOMAIN Given THEN Given[f] ELSE ""]

(* Which Seen flag a field sets on the command line.  --watchdogscript,       *)
(* --tune-min-gain, --tune and the list modes set none.                       *)
CliSeen(f) ==
  IF f \in {"watchdog_script", "tune_min_gain", "tune", "list_algos", "list_coins"}
    THEN {} ELSE {f}
(* Which Seen flag guards a field's row in the file tables.                   *)
RowSeen_FaultLogRow(f) ==   \* mutant: the LOGFILE row guarded by Seen::log
  IF f = "watchdog_script" THEN "watchdog_requested"
  ELSE IF f = "log_path" THEN "log_enabled" ELSE f
RowSeen(f) == IF f = "watchdog_script" THEN "watchdog_requested" ELSE f

(* The words offered for a field, in either source.                           *)
Words(f) ==
  CASE f \in {"tstop", "tstart"} -> {0, 60, 70, 151}
    [] f \in Seconds            -> {Limits[f][1] - 1, Limits[f][1], IntMax + 1}
    [] f \in DOMAIN Limits       -> {Limits[f][1] - 1, Limits[f][1], Limits[f][2], Limits[f][2] + 1}
    [] f \in Booleans           -> {"on", "off", "junk"}
    [] f \in OcLists            -> {"220,*", "-100,*", "junk"} \cup
                                   (IF f = "power_limit" THEN {"auto", "AUTO"} ELSE {})
    [] f = "tmode"              -> {"edge", "junction", "junk"}
    [] f = "solver"             -> {"cuda", "metal", "junk"}
    [] f = "apihost"            -> {"127.0.0.1", "name"}
    [] f = "benchmark"          -> {"BEAM", "junk"}
    [] f = "tune_caps"          -> {"100,140", "junk"}
    [] f = "tune_min_gain"      -> {0, 5}
    [] OTHER                    -> {"one", "junk"}

InRange(f, w) == Limits[f][1] <= w /\ w <= Limits[f][2]

(* Does parse_args take word w for field f?  The three durations are read      *)
(* with strtol and only their lower bound is tested.                          *)
CliAccepts(f, w) ==
  CASE f \in Seconds              -> w >= Limits[f][1]
    [] f \in DOMAIN Limits         -> InRange(f, w)
    [] f = "power_limit"          -> w \in {"220,*", "auto", "AUTO"}
    [] f \in SignedLists          -> w # "junk"
    [] f \in OcLists              -> w = "220,*"
    [] f = "apihost"              -> w = "127.0.0.1"
    [] f = "tune_min_gain"        -> w > 0
    [] f \in FreeText \cup {"statsformat"} -> TRUE
    [] OTHER                      -> w # "junk"

(* Does a loader take it?  The bounds are the same, the domains nearly so;     *)
(* lists and addresses are free text here.                                    *)
FileAccepts(f, w) ==
  CASE f \in DOMAIN Limits -> InRange(f, w)
    [] f = "solver"       -> w \notin {"junk", "metal"}
    [] f \in Booleans \cup {"tmode", "benchmark"} -> w # "junk"
    [] OTHER              -> TRUE

(* The cast to int of a long that has no upper bound.                          *)
Narrow(v) == ((v + IntMax + 1) % (2 * (IntMax + 1))) - (IntMax + 1)

(* What a word becomes in its field.                                           *)
Becomes(f, w) ==
  CASE f \in Seconds      -> Narrow(w)
    [] f \in Booleans     -> w = "on"
    [] f = "benchmark"    -> "BEAM-III"
    [] OTHER              -> w
(* The command line folds AUTO to auto; a file keeps the spelling.             *)
CliStored(f, w) == IF f = "power_limit" /\ w = "AUTO" THEN "auto" ELSE Becomes(f, w)

------------------------------------------------------------------------------
(* parse_args(): one action per kind of argument.                             *)

NoLists == [pool |-> <<>>, user |-> <<>>, pass |-> <<>>, tls |-> <<>>]

OptionsInit ==
  /\ theme \in Themes
  /\ stage = "scan"
  /\ opts = Defaults /\ seen = {} /\ algo = "" /\ lists = NoLists
  /\ pools = <<>> /\ file = "none" /\ cliPools = FALSE /\ row = 1
  /\ typed = [f \in Fields |-> {}] /\ filed = [f \in Fields |-> {}]

Refuse == stage' = "refused"

(* One more argument is read while the bound allows it.                        *)
Arguments == Cardinality({f \in Fields : typed[f] # {}})
             + Len(lists.pool) + Len(lists.user) + Len(lists.pass) + Len(lists.tls)
             + (IF file = "none" THEN 0 ELSE 1)
Reading == stage = "scan" /\ Arguments < MaxArgs
AfterArg == UNCHANGED <<theme, pools, cliPools, row, filed>>

(* A field takes value v from the command line.                                *)
Put(f, v) == /\ opts' = [opts EXCEPT ![f] = v]
             /\ typed' = [typed EXCEPT ![f] = {v}]
             /\ seen' = seen \cup CliSeen(f)

(* A flag whose value is tested as it is read.                                 *)
Valued == DOMAIN Limits \cup OcLists \cup FreeText \cup
          {"tmode", "statsformat", "apihost", "solver", "tune_caps", "tune_min_gain"}
TypeValue(f) ==
  /\ Reading /\ f \in Valued \cap theme
  /\ \E w \in Words(f) :
       IF CliAccepts(f, w)
         THEN /\ Put(f, CliStored(f, w))
              /\ UNCHANGED <<stage, algo, lists>>
         ELSE Refuse /\ UNCHANGED cliVars
  /\ UNCHANGED file /\ AfterArg

(* A bare switch, and a switch with an optional on/off word.                    *)
TypeSwitch(f) ==
  /\ Reading /\ f \in (Switches \cup OnOff) \cap theme
  /\ \E v \in BOOLEAN : (f \in Switches => v) /\ Put(f, v)
  /\ UNCHANGED <<stage, algo, lists, file>> /\ AfterArg

(* --vstats and --hstats, with an optional width that both share.              *)
TypeLayout(f) ==
  /\ Reading /\ f \in Layouts \cap theme
  /\ \/ /\ Put(f, TRUE)
        /\ UNCHANGED stage
     \/ /\ opts' = [opts EXCEPT ![f] = TRUE, !.stats_width = 80]
        /\ typed' = [typed EXCEPT ![f] = {TRUE}, !.stats_width = {80}]
        /\ seen' = seen \cup {f}
        /\ UNCHANGED stage
     \/ Refuse /\ UNCHANGED <<opts, typed, seen>>
  /\ UNCHANGED <<algo, lists, file>> /\ AfterArg

(* --watchdog with an optional action.                                         *)
TypeWatchdog ==
  /\ Reading /\ "watchdog_requested" \in theme
  /\ \E a \in {"off", "exit", "script", opts.watchdog_action} :
       /\ opts' = [opts EXCEPT !.watchdog_requested = TRUE, !.watchdog_action = a]
       /\ typed' = [typed EXCEPT !.watchdog_requested = {TRUE}, !.watchdog_action = {a}]
  /\ seen' = seen \cup {"watchdog_requested"}
  /\ UNCHANGED <<stage, algo, lists, file>> /\ AfterArg

(* --tune, --report and --benchmark name the work and so the algorithm.        *)
TypeMode(m) ==
  /\ Reading /\ m \in {"tune", "report", "benchmark"} \cap theme
  /\ \/ /\ Put(m, IF m = "benchmark" THEN "BEAM-III" ELSE TRUE)
        /\ algo' = "BEAM-III"
        /\ UNCHANGED stage
     \/ /\ m = "benchmark"
        /\ Refuse /\ UNCHANGED <<opts, typed, seen, algo>>
  /\ UNCHANGED <<lists, file>> /\ AfterArg

(* --algo is not judged until the scan ends; --coin is.                        *)
TypeAlgo ==
  /\ Reading /\ "algo" \in theme
  /\ \/ /\ \E a \in {"BEAM-III", "ETHASH"} \ {algo} : algo' = a
        /\ UNCHANGED stage
     \/ Refuse /\ UNCHANGED algo
  /\ UNCHANGED <<opts, seen, lists, typed, file>> /\ AfterArg

(* The four lists of a pool are collected apart.                               *)
PoolWords == [pool |-> {"localhost", "[::1]", "pool", "noport"}, user |-> {"", "alice", "bob"},
              pass |-> {"secret"}, tls |-> BOOLEAN]
TypePool(k) ==
  /\ Reading /\ "pools" \in theme
  /\ Len(lists[k]) < MaxPools
  /\ \E w \in PoolWords[k] : lists' = [lists EXCEPT ![k] = Append(@, w)]
  /\ UNCHANGED <<stage, opts, seen, algo, typed, file>> /\ AfterArg

(* --json wins over --config in either order; nothing clears it.               *)
TypeFile(k) ==
  /\ Reading /\ "file" \in theme
  /\ file' = IF file = "json" THEN "json" ELSE k
  /\ file' # file
  /\ UNCHANGED <<cliVars, stage>> /\ AfterArg

(* --help, --version, an unknown flag or a missing value ends the scan.         *)
EndsScan ==
  /\ stage = "scan"
  /\ stage' \in {"answered", "refused"}
  /\ UNCHANGED <<cliVars, file>> /\ AfterArg

(* The checks after the last argument; what main() answers first.              *)
ScanFaults ==
  \/ opts.vstats /\ opts.hstats
  \/ opts.statsformat = "junk"
  \/ opts.tstop # 0 /\ opts.tstart # 0 /\ opts.tstart >= opts.tstop
  \/ algo \notin {"", "BEAM-III"}
EndOfArgs ==
  /\ stage = "scan"
  /\ IF ScanFaults
       THEN Refuse /\ UNCHANGED seen
       ELSE /\ seen' = seen \cup (IF algo = "" THEN {} ELSE {"algo"})
                            \cup {k \in DOMAIN lists : lists[k] # <<>>}
            /\ stage' = "bind"
  /\ UNCHANGED <<opts, algo, lists, typed, file>> /\ AfterArg

------------------------------------------------------------------------------
(* Pools.                                                                     *)

IsLoopback(host) == host \in {"localhost", "::1"}
Unbracket(host) == IF host = "[::1]" THEN "::1" ELSE host
DefaultUser == "x"

BoundValue(vals, i, def) ==
  IF vals = <<>> THEN def ELSE vals[IF i < Len(vals) THEN i ELSE Len(vals)]

(* Mutant: any pool without a user gets the loopback stand-in.                  *)
CliPool_FaultAnyDefault(i) ==
  LET host == Unbracket(lists.pool[i])
      user == BoundValue(lists.user, i, "")
  IN [host |-> host, pass |-> BoundValue(lists.pass, i, ""),
      user |-> IF user = "" THEN DefaultUser ELSE user,
      tls |-> BoundValue(lists.tls, i, ~IsLoopback(host)), from |-> "cli"]

(* The entry the command line binds to its i-th --pool.                        *)
CliPool(i) ==
  LET host == Unbracket(lists.pool[i])
      user == BoundValue(lists.user, i, "")
      local == IsLoopback(host)
  IN [host |-> host, pass |-> BoundValue(lists.pass, i, ""),
      user |-> IF user = "" /\ local THEN DefaultUser ELSE user,
      tls |-> BoundValue(lists.tls, i, ~local), from |-> "cli"]

BindPool ==
  /\ stage = "bind" /\ Len(pools) < Len(lists.pool)
  /\ LET i == Len(pools) + 1
         p == CliPool(i)
     IN IF lists.pool[i] = "noport" \/ p.user = ""
          THEN Refuse /\ UNCHANGED pools
          ELSE pools' = Append(pools, p) /\ UNCHANGED stage
  /\ UNCHANGED <<theme, cliVars, file, cliPools, row, filed>>

(* main(): the list modes answer and leave; cli_pools is read before the merge. *)
Parsed ==
  /\ stage = "bind" /\ Len(pools) = Len(lists.pool)
  /\ cliPools' = ("pool" \in seen)
  /\ stage' = IF opts.list_algos \/ opts.list_coins THEN "answered"
           ELSE IF file = "none" THEN "implied" ELSE "open"
  /\ UNCHANGED <<theme, cliVars, pools, file, row, filed>>

------------------------------------------------------------------------------
(* The file loaders.                                                          *)

(* A JSON file may be missing or malformed, have no profile or not the one named, *)
(* or hold an ALGO that its guard refuses; a flat file fewer of these.             *)
OpenFile(k) ==
  /\ stage = "open" /\ file = k
  /\ \/ Refuse /\ UNCHANGED seen
     \/ stage' = "rows" /\ seen' \in {seen, seen \cup {"algo"}}
  /\ UNCHANGED <<theme, opts, algo, lists, typed, pools, file, cliPools, row, filed>>
OpenJson == OpenFile("json")
OpenFlat == OpenFile("flat")

Present == Cardinality({f \in Fields : filed[f] # {}})

(* A key that is present: skipped unread when its flag is set, or refused, or     *)
(* applied.                                                                       *)
TakeRow(f, w) ==
  \/ /\ RowSeen(f) \in seen
     /\ filed' = [filed EXCEPT ![f] = {Becomes(f, w)}]
     /\ UNCHANGED <<opts, seen, stage>>
  \/ /\ RowSeen(f) \notin seen /\ FileAccepts(f, w)
     /\ opts' = [opts EXCEPT ![f] = Becomes(f, w)]
     /\ seen' = seen \cup {RowSeen(f)}
     /\ filed' = [filed EXCEPT ![f] = {Becomes(f, w)}]
     /\ UNCHANGED stage
  \/ /\ RowSeen(f) \notin seen /\ ~FileAccepts(f, w)
     /\ Refuse /\ UNCHANGED <<opts, seen, filed>>

(* One row of the tables, whose key is absent or present.                         *)
ApplyRow ==
  /\ stage = "rows" /\ row <= Len(TableRows)
  /\ LET f == TableRows[row] IN
       \/ UNCHANGED <<opts, seen, filed, stage>>
       \/ f \in theme /\ Present < MaxRows /\ \E w \in Words(f) : TakeRow(f, w)
  /\ row' = row + 1
  /\ UNCHANGED <<theme, algo, lists, typed, pools, file, cliPools>>

(* The entries a file may hold: an absent or empty USER is "", TLS may be        *)
(* absent, and a profile's own TLS stands in for the entries that have none.     *)
FileEntry == [host : {"localhost", "[::1]", "pool"}, user : {"", "carol"},
              pass : {"kept"}, tls : {{}, {TRUE}, {FALSE}}]
ToPool(e, profileTls) ==
  LET local == IsLoopback(e.host)
      asked == IF e.tls # {} THEN e.tls ELSE profileTls
  IN [host |-> e.host, pass |-> e.pass, tls |-> IF asked = {} THEN ~local ELSE TRUE \in asked,
      user |-> IF e.user = "" /\ local THEN DefaultUser ELSE e.user, from |-> "file"]

(* The file's pools are read only when the command line named none.  An entry      *)
(* that does not parse, or a remote one without a user, refuses the whole file.     *)
TakePools(ps) ==
  \/ /\ "" \notin {ps[i].user : i \in DOMAIN ps}
     /\ pools' = ps /\ seen' = seen \cup {"pool"} /\ stage' = "implied"
  \/ Refuse /\ UNCHANGED <<pools, seen>>
FilePools ==
  /\ stage = "rows" /\ row > Len(TableRows)
  /\ "pool" \notin seen /\ "pools" \in theme
  /\ UNCHANGED <<theme, opts, algo, lists, typed, file, cliPools, row, filed>>

(* A profile's POOLS array, which may be empty.                                    *)
JsonPools ==
  /\ FilePools /\ file = "json"
  /\ \E n \in 0..MaxPools, t \in {{}, {TRUE}, {FALSE}} : \E es \in [1..n -> FileEntry] :
       TakePools([i \in 1..n |-> ToPool(es[i], t)])
(* The one pool of a flat file.                                                    *)
FlatPool ==
  /\ FilePools /\ file = "flat"
  /\ \E e \in FileEntry : TakePools(<<ToPool(e, {})>>)
(* The file names no pool, or may not.                                             *)
NoFilePools ==
  /\ stage = "rows" /\ row > Len(TableRows)
  /\ stage' = "implied"
  /\ UNCHANGED <<theme, cliVars, pools, file, cliPools, row, filed>>

------------------------------------------------------------------------------
(* main() after the merge.                                                    *)

ResolveImplied ==
  /\ stage = "implied"
  /\ opts' = IF "log_enabled" \notin seen /\ opts.log_path # ""
               THEN [opts EXCEPT !.log_enabled = TRUE] ELSE opts
  /\ seen' = IF opts.benchmark # "" THEN seen \cup {"algo"} ELSE seen
  /\ stage' = "gates"
  /\ UNCHANGED <<theme, algo, lists, typed, pools, file, cliPools, row, filed>>

Benchmarks == opts.benchmark # ""
Measures == Benchmarks \/ opts.tune \/ opts.report
Refusals ==
  \/ (opts.tstop # 0 \/ opts.tstart # 0) /\ opts.tmode # "edge"
  \/ opts.report /\ (Benchmarks \/ opts.tune)
  \/ opts.report /\ seen \cap {"tune_caps", "tune_seconds"} # {}
  \/ (opts.report \/ opts.tune) /\ opts.power_limit # ""
  \/ opts.tune /\ Benchmarks
  \/ "algo" \notin seen /\ ~Measures /\ ~opts.list_devices
  \/ pools = <<>> /\ ~Measures /\ ~opts.list_devices

Gates ==
  /\ stage = "gates"
  /\ stage' = IF Refusals THEN "refused" ELSE "run"
  /\ UNCHANGED <<theme, cliVars, pools, file, cliPools, row, filed>>

(* The note that command-line credentials went nowhere.                         *)
SaysIgnored_FaultAfterMerge ==   \* mutant: the pools flag read after the merge
  seen \cap {"user", "pass", "tls"} # {} /\ "pool" \notin seen /\ pools # <<>>
SaysIgnored == seen \cap {"user", "pass", "tls"} # {} /\ ~cliPools /\ pools # <<>>

Ended == stage \in {"answered", "refused", "run"} /\ UNCHANGED optionVars

OptionsNext ==
  \/ \E f \in Valued : TypeValue(f)
  \/ \E f \in Switches \cup OnOff : TypeSwitch(f)
  \/ \E f \in Layouts : TypeLayout(f)
  \/ TypeWatchdog
  \/ \E m \in {"tune", "report", "benchmark"} : TypeMode(m)
  \/ TypeAlgo
  \/ \E k \in DOMAIN PoolWords : TypePool(k)
  \/ \E k \in {"flat", "json"} : TypeFile(k)
  \/ EndsScan \/ EndOfArgs \/ BindPool \/ Parsed
  \/ OpenJson \/ OpenFlat \/ ApplyRow
  \/ JsonPools \/ FlatPool \/ NoFilePools
  \/ ResolveImplied \/ Gates
  \/ Ended

OptionsSpec == OptionsInit /\ [][OptionsNext]_optionVars

------------------------------------------------------------------------------
(* Properties.                                                                *)

Settled == stage \in {"gates", "run"}

(* The value the sources ask for: the command line's, else the file's, else the *)
(* built-in one.  A log path with no word on logging asks for a log.            *)
Asked(f) ==
  IF typed[f] # {} THEN typed[f]
  ELSE IF filed[f] # {} THEN filed[f]
  ELSE {IF f = "log_enabled" THEN opts.log_path # "" ELSE Defaults[f]}

(* For every field that has a Seen flag of its own, the command line's last      *)
(* word is what the run uses, whatever the file holds and in whatever order the  *)
(* tables are walked; the file's is used only where the command line is silent   *)
(* (cli/options.h, Seen; both loaders of config/config.cpp).                     *)
EachFlagWins ==
  Settled => \A f \in Fields \ {"watchdog_script"} : opts[f] \in Asked(f)

(* A run that connects takes all its pools from one side, the command line's if   *)
(* it named any, and each with credentials of that side; no remote pool is paid   *)
(* to the loopback stand-in, and none named on the command line goes without TLS  *)
(* unless --tls off was typed (parse_args' binding loop, the loaders' pools,      *)
(* main()'s missing --pool).                                                      *)
PoolsFromOneSide ==
  stage = "run" /\ ~Measures /\ ~opts.list_devices =>
    /\ pools # <<>>
    /\ \A p \in ToSet(pools) :
         /\ p.from = (IF lists.pool = <<>> THEN "file" ELSE "cli")
         /\ p.user \in (IF p.from = "cli" THEN ToSet(lists.user) ELSE {"carol"})
                       \cup (IF IsLoopback(p.host) THEN {DefaultUser} ELSE {})
         /\ p.pass \in (IF p.from = "cli" THEN ToSet(lists.pass) \cup {""} ELSE {"kept"})
         /\ p.from = "cli" /\ ~p.tls /\ ~IsLoopback(p.host) => FALSE \in ToSet(lists.tls)

(* Typed credentials that went nowhere are announced, and no others are: some     *)
(* were typed and every pool of the run came from the file (main()'s cli_pools).   *)
CredentialsAreUsedOrNoted ==
  /\ PoolsFromOneSide
  /\ Settled =>
       (SaysIgnored <=> /\ lists.user \o lists.pass # <<>> \/ lists.tls # <<>>
                        /\ pools # <<>>
                        /\ \A p \in ToSet(pools) : p.from = "file")

==============================================================================
