------------------------------ MODULE StartProofs ------------------------------
(***************************************************************************)
(* Theorems about how a run starts and ends.  Options: for any arguments,  *)
(* file and number of pools, which source each setting is of and whose     *)
(* credentials a pool is given.  Session: for any cards, any lists of the  *)
(* three drivers, any --devices and --pl, and any refusal on the way.      *)
(***************************************************************************)
EXTENDS Options, Session, FiniteSetTheorems, SequenceTheorems, WellFoundedInduction, TLAPS

-----------------------------------------------------------------------------
(***************************************************************************)
(* Options: the rows of the tables, in the order both loaders walk them.    *)
(***************************************************************************)
RowFields == {TableRows[i] : i \in 1 .. 33}

\* Where a field's row is; 0 where it has none.
Place(f) ==
  CASE f = "apiport" -> 1
    [] f = "shortstats" -> 2
    [] f = "longstats" -> 3
    [] f = "digits" -> 4
    [] f = "silence" -> 5
    [] f = "keepfree_mb" -> 6
    [] f = "tstop" -> 7
    [] f = "tstart" -> 8
    [] f = "benchmark_seconds" -> 9
    [] f = "nocolor" -> 10
    [] f = "log_enabled" -> 11
    [] f = "timeprint" -> 12
    [] f = "watchdog_requested" -> 13
    [] f = "no_oc_reset" -> 14
    [] f = "devices_by_pcie" -> 15
    [] f = "compactaccept" -> 16
    [] f = "vstats" -> 17
    [] f = "hstats" -> 18
    [] f = "devfee_pct" -> 19
    [] f = "apihost" -> 20
    [] f = "devices" -> 21
    [] f = "tmode" -> 22
    [] f = "statsformat" -> 23
    [] f = "log_path" -> 24
    [] f = "solver" -> 25
    [] f = "benchmark" -> 26
    [] f = "power_limit" -> 27
    [] f = "core_clock" -> 28
    [] f = "mem_clock" -> 29
    [] f = "core_offset" -> 30
    [] f = "mem_offset" -> 31
    [] f = "fan" -> 32
    [] f = "watchdog_script" -> 33
    [] OTHER -> 0

LEMMA RowAt ==
  /\ Len(TableRows) = 33
  /\ TableRows[1] = "apiport" /\ TableRows[2] = "shortstats" /\ TableRows[3] = "longstats"
  /\ TableRows[4] = "digits" /\ TableRows[5] = "silence" /\ TableRows[6] = "keepfree_mb"
  /\ TableRows[7] = "tstop" /\ TableRows[8] = "tstart" /\ TableRows[9] = "benchmark_seconds"
  /\ TableRows[10] = "nocolor" /\ TableRows[11] = "log_enabled" /\ TableRows[12] = "timeprint"
  /\ TableRows[13] = "watchdog_requested" /\ TableRows[14] = "no_oc_reset" /\ TableRows[15] = "devices_by_pcie"
  /\ TableRows[16] = "compactaccept" /\ TableRows[17] = "vstats" /\ TableRows[18] = "hstats"
  /\ TableRows[19] = "devfee_pct" /\ TableRows[20] = "apihost" /\ TableRows[21] = "devices"
  /\ TableRows[22] = "tmode" /\ TableRows[23] = "statsformat" /\ TableRows[24] = "log_path"
  /\ TableRows[25] = "solver" /\ TableRows[26] = "benchmark" /\ TableRows[27] = "power_limit"
  /\ TableRows[28] = "core_clock" /\ TableRows[29] = "mem_clock" /\ TableRows[30] = "core_offset"
  /\ TableRows[31] = "mem_offset" /\ TableRows[32] = "fan" /\ TableRows[33] = "watchdog_script"
  BY DEF TableRows

LEMMA PlaceOfRow == \A i \in 1 .. 33 : Place(TableRows[i]) = i
<1> SUFFICES ASSUME NEW i \in 1 .. 33 PROVE Place(TableRows[i]) = i
  OBVIOUS
<1>1. CASE i \in 1 .. 11
  BY <1>1, RowAt DEF Place
<1>2. CASE i \in 12 .. 22
  BY <1>2, RowAt DEF Place
<1>3. CASE i \in 23 .. 33
  BY <1>3, RowAt DEF Place
<1> QED BY <1>1, <1>2, <1>3

(***************************************************************************)
(* The invariant of the merge, while the run has been neither answered nor  *)
(* refused.  Every field holds what the command line, else the file, else   *)
(* the program itself gave it (ValueInv); the flags in seen say which rows  *)
(* of the file are to be skipped, and no others (SeenInv); the rows not yet *)
(* walked have given nothing (PendingInv).  This is the sense of the Seen   *)
(* flags: a row is skipped only where a value was typed, or given already.  *)
(***************************************************************************)
Script == "watchdog_script"
Going == stage \notin {"answered", "refused"}
BuiltIn(f) == IF f = "log_enabled" /\ Settled THEN opts.log_path # "" ELSE Defaults[f]

FieldMaps == /\ opts = [f \in Fields |-> opts[f]]
             /\ typed = [f \in Fields |-> typed[f]]
             /\ filed = [f \in Fields |-> filed[f]]
             /\ row \in 1 .. 34
ValueInv ==
  \A f \in Fields \ {Script} :
    /\ typed[f] # {} => typed[f] = {opts[f]}
    /\ typed[f] = {} /\ filed[f] # {} => filed[f] = {opts[f]}
    /\ typed[f] = {} /\ filed[f] = {} => opts[f] = BuiltIn(f)
SeenInv ==
  \A f \in RowFields \ {Script} :
    f \in seen <=> \/ typed[f] # {} \/ filed[f] # {}
                   \/ f = "watchdog_requested" /\ filed[Script] # {}
PendingInv == \A i \in row .. 33 : filed[TableRows[i]] = {}
MergeInv == FieldMaps /\ (Going => ValueInv /\ SeenInv /\ PendingInv)

(***************************************************************************)
(* The invariant of the pools.  A pool named on the command line is the     *)
(* entry its flags bind to it, and has a user (BoundInv); one of the file   *)
(* was taken only where the command line named none; the flags of seen tell *)
(* which of the four lists were given (ListsInv), and main()'s cli_pools    *)
(* remembers it of the pools when the file's have joined them.              *)
(***************************************************************************)
Hosts == {"localhost", "[::1]", "::1", "pool", "noport"}
PoolEntry == [host : Hosts, pass : {"", "secret", "kept"},
              user : {"", "alice", "bob", "carol", DefaultUser},
              tls : BOOLEAN, from : {"cli", "file"}]
ListsType == lists \in [pool : Seq(PoolWords.pool), user : Seq(PoolWords.user),
                        pass : Seq(PoolWords.pass), tls : Seq(BOOLEAN)]
FromFile(p) == /\ p.from = "file" /\ p.pass = "kept"
               /\ p.user \in {"carol"} \cup (IF IsLoopback(p.host) THEN {DefaultUser} ELSE {})
BoundInv ==
  /\ pools \in Seq(PoolEntry)
  /\ lists.pool # <<>> => /\ Len(pools) <= Len(lists.pool)
                          /\ \A i \in 1 .. Len(pools) : pools[i] = CliPool(i) /\ pools[i].user # ""
  /\ lists.pool = <<>> => \A i \in 1 .. Len(pools) : FromFile(pools[i])
ListsInv ==
  /\ stage = "scan" => pools = <<>> /\ seen \cap DOMAIN NoLists = {}
  /\ stage # "scan" => \A k \in {"user", "pass", "tls"} : k \in seen <=> lists[k] # <<>>
  /\ stage \in {"bind", "open", "rows"} => ("pool" \in seen <=> lists.pool # <<>>)
  /\ stage \in {"open", "rows", "implied", "gates", "run"} =>
       /\ cliPools <=> lists.pool # <<>>
       /\ lists.pool # <<>> => Len(pools) = Len(lists.pool)
  /\ stage \in {"bind", "open", "rows"} /\ lists.pool = <<>> => pools = <<>>
  /\ stage = "run" => ~Refusals
PoolsInv == ListsType /\ (Going => BoundInv /\ ListsInv)

LEMMA FieldNames ==
  /\ DOMAIN Given \cup Flags \cup OcLists \cup FreeText
     \cup {"statsformat", "benchmark", "tune_caps"} = Fields
  /\ DOMAIN Given = {"apiport", "apihost", "shortstats", "longstats", "watchdog_action",
       "solver", "silence", "stats_width", "keepfree_mb", "tstop", "tstart", "tmode", "digits",
       "devfee_pct", "benchmark_seconds", "report_seconds", "tune_seconds", "tune_min_gain"}
  /\ Fields \cap {"algo", "pool", "user", "pass", "tls"} = {}
<1>2. DOMAIN Given = {"apiport", "apihost", "shortstats", "longstats", "watchdog_action",
       "solver", "silence", "stats_width", "keepfree_mb", "tstop", "tstart", "tmode", "digits",
       "devfee_pct", "benchmark_seconds", "report_seconds", "tune_seconds", "tune_min_gain"}
  BY DEF Given
<1>3. Fields \cap {"algo", "pool", "user", "pass", "tls"} = {}
  BY <1>2 DEF Fields, Flags, Booleans, FreeText, OcLists, SignedLists, Switches, OnOff, Layouts
<1> QED BY <1>2, <1>3 DEF Fields

LEMMA RowFieldsAre ==
  /\ RowFields \subseteq Fields
  /\ \A f \in RowFields \ {"watchdog_script"} : CliSeen(f) = {f}
  /\ \A f \in Fields : CliSeen(f) \subseteq {f}
  /\ RowFields \cap {"algo", "pool", "user", "pass", "tls", "stats_width",
                     "watchdog_action", "tune_caps", "report", "tune"} = {}
  /\ {"watchdog_requested", "log_enabled", "log_path", "watchdog_script"} \subseteq RowFields
  /\ \A i \in 1 .. 33 : TableRows[i] \in RowFields
<1> DEFINE listed == {"apiport", "shortstats", "longstats", "digits", "silence", "keepfree_mb",
    "tstop", "tstart", "benchmark_seconds",
    "nocolor", "log_enabled", "timeprint", "watchdog_requested", "no_oc_reset",
    "devices_by_pcie", "compactaccept", "vstats", "hstats",
    "devfee_pct",
    "apihost", "devices", "tmode", "statsformat", "log_path", "solver", "benchmark",
    "power_limit", "core_clock", "mem_clock", "core_offset", "mem_offset", "fan",
    "watchdog_script"}
<1>1. \A i \in 1 .. 33 : TableRows[i] \in listed
  <2> SUFFICES ASSUME NEW i \in 1 .. 33 PROVE TableRows[i] \in listed
    OBVIOUS
  <2>1. CASE i \in 1 .. 11
    BY <2>1, RowAt
  <2>2. CASE i \in 12 .. 22
    BY <2>2, RowAt
  <2>3. CASE i \in 23 .. 33
    BY <2>3, RowAt
  <2> QED BY <2>1, <2>2, <2>3
<1>2. RowFields \subseteq listed
  BY <1>1 DEF RowFields
<1>3. listed \subseteq Fields
  BY FieldNames DEF Flags, Booleans, FreeText, OcLists, SignedLists, Switches, OnOff, Layouts
<1>4. \A f \in listed \ {"watchdog_script"} : CliSeen(f) = {f}
  BY DEF CliSeen
<1>5. \A f \in Fields : CliSeen(f) \subseteq {f}
  BY DEF CliSeen
<1>6. {"watchdog_requested", "log_enabled", "log_path", "watchdog_script"} \subseteq RowFields
  <2>1. 13 \in 1 .. 33 /\ 11 \in 1 .. 33 /\ 24 \in 1 .. 33 /\ 33 \in 1 .. 33
    OBVIOUS
  <2>2. {TableRows[13], TableRows[11], TableRows[24], TableRows[33]} \subseteq RowFields
    BY <2>1 DEF RowFields
  <2> QED BY <2>2, RowAt
<1>7. listed \cap {"algo", "pool", "user", "pass", "tls", "stats_width",
                 "watchdog_action", "tune_caps", "report", "tune"} = {}
  OBVIOUS
<1>8. \A i \in 1 .. 33 : TableRows[i] \in RowFields
  BY Zenon DEF RowFields
<1> QED
  <2> HIDE DEF listed
  <2> QED BY <1>2, <1>3, <1>4, <1>5, <1>6, <1>7, <1>8

\* Only TypePool changes the four lists, and one of them at a time.
LEMMA OnlyPoolsAreListed ==
  ASSUME OptionsNext
  PROVE  UNCHANGED lists \/ \E k \in DOMAIN PoolWords : TypePool(k)
  BY Zenon DEF OptionsNext, TypeValue, TypeSwitch, TypeLayout, TypeWatchdog, TypeMode, TypeAlgo,
     TypeFile, EndsScan, EndOfArgs, BindPool, Parsed, OpenJson, OpenFlat, OpenFile, ApplyRow,
     JsonPools, FlatPool, FilePools, NoFilePools, ResolveImplied, Gates, Ended, cliVars, optionVars

LEMMA ListsTypeStep == ListsType /\ [OptionsNext]_optionVars => ListsType'
<1> SUFFICES ASSUME ListsType, [OptionsNext]_optionVars PROVE ListsType'
  OBVIOUS
<1>1. CASE UNCHANGED lists
  BY <1>1 DEF ListsType
<1>2. ASSUME NEW k \in DOMAIN PoolWords, TypePool(k) PROVE ListsType'
  <2>1. PICK w \in PoolWords[k] : lists' = [lists EXCEPT ![k] = Append(lists[k], w)]
    BY <1>2 DEF TypePool
  <2>2. k \in {"pool", "user", "pass", "tls"}
    BY <1>2 DEF PoolWords
  <2>3. PoolWords.tls = BOOLEAN
    BY DEF PoolWords
  <2> DEFINE T(j) == Seq(PoolWords[j])
  <2>4. lists[k] \in Seq(PoolWords[k])
    BY <2>2, <2>3 DEF ListsType
  <2>5. Append(lists[k], w) \in Seq(PoolWords[k])
    BY <2>1, <2>4, AppendProperties
  <2> QED BY <2>1, <2>2, <2>3, <2>5 DEF ListsType
<1> QED BY <1>1, <1>2, OnlyPoolsAreListed DEF optionVars

LEMMA ListsTypeInit == OptionsInit => ListsType
<1>1. \A S : <<>> \in Seq(S)
  BY EmptySeq
<1>2. OptionsInit => lists = NoLists
  BY DEF OptionsInit
<1>3. NoLists \in [pool : Seq(PoolWords.pool), user : Seq(PoolWords.user),
                   pass : Seq(PoolWords.pass), tls : Seq(BOOLEAN)]
  BY <1>1 DEF NoLists
<1> QED BY <1>2, <1>3, Zenon DEF ListsType

LEMMA ListNames == ListsType => DOMAIN lists = {"pool", "user", "pass", "tls"}
  BY DEF ListsType

LEMMA NoListNames == DOMAIN NoLists = {"pool", "user", "pass", "tls"}
  BY DEF NoLists

(***************************************************************************)
(* The steps of the merge.  An argument gives some fields a value and sets  *)
(* their flags; a row does the same for the file where its flag is not set, *)
(* and nothing but itself where it is; every other step leaves the fields.  *)
(***************************************************************************)
LEMMA TypedKeeps ==
  ASSUME FieldMaps, ValueInv, SeenInv, PendingInv, FieldMaps', UNCHANGED <<filed, row>>,
         ~Settled, ~Settled', NEW G, G \subseteq Fields,
         \A f \in Fields \ G : opts'[f] = opts[f] /\ typed'[f] = typed[f],
         \A f \in G : typed'[f] = {opts'[f]},
         \A f \in RowFields \ {Script} : f \in seen' <=> f \in seen \/ f \in G
  PROVE  ValueInv' /\ SeenInv' /\ PendingInv'
<1>1. ValueInv'
  <2> SUFFICES ASSUME NEW f \in Fields \ {Script}
               PROVE  /\ typed'[f] # {} => typed'[f] = {opts'[f]}
                      /\ typed'[f] = {} /\ filed[f] # {} => filed[f] = {opts'[f]}
                      /\ typed'[f] = {} /\ filed[f] = {} => opts'[f] = Defaults[f]
    BY DEF ValueInv, BuiltIn
  <2>1. CASE f \in G
    BY <2>1
  <2>2. CASE f \notin G
    BY <2>2 DEF ValueInv, BuiltIn
  <2> QED BY <2>1, <2>2
<1>2. SeenInv'
  <2> SUFFICES ASSUME NEW f \in RowFields \ {Script}
               PROVE  f \in seen' <=> \/ typed'[f] # {} \/ filed[f] # {}
                                      \/ f = "watchdog_requested" /\ filed[Script] # {}
    BY DEF SeenInv
  <2>1. f \in Fields
    BY RowFieldsAre
  <2>2. CASE f \in G
    BY <2>2
  <2>3. CASE f \notin G
    BY <2>1, <2>3 DEF SeenInv
  <2> QED BY <2>2, <2>3
<1>3. PendingInv'
  BY DEF PendingInv
<1> QED BY <1>1, <1>2, <1>3

LEMMA OthersKeep ==
  ASSUME FieldMaps, ValueInv, SeenInv, PendingInv, UNCHANGED <<opts, typed, filed, row>>,
         Settled' = Settled,
         \A f \in RowFields : f \in seen' <=> f \in seen
  PROVE  FieldMaps' /\ ValueInv' /\ SeenInv' /\ PendingInv'
<1>1. ValueInv'
  <2>1. \A f : BuiltIn(f)' = BuiltIn(f)
    BY DEF BuiltIn
  <2> QED BY <2>1 DEF ValueInv
<1>2. SeenInv'
  BY DEF SeenInv
<1> QED BY <1>1, <1>2 DEF FieldMaps, PendingInv

\* One field, as Put leaves it.
LEMMA PutKeeps ==
  ASSUME FieldMaps, ValueInv, SeenInv, PendingInv, UNCHANGED <<filed, row>>,
         ~Settled, ~Settled', NEW g \in Fields, NEW v, Put(g, v)
  PROVE  FieldMaps' /\ ValueInv' /\ SeenInv' /\ PendingInv'
<1>1. FieldMaps'
  BY DEF FieldMaps, Put
<1>2. /\ opts'[g] = v /\ typed'[g] = {v}
      /\ \A f \in Fields \ {g} : opts'[f] = opts[f] /\ typed'[f] = typed[f]
  BY DEF FieldMaps, Put
<1>3. \A f \in RowFields \ {Script} : f \in seen' <=> f \in seen \/ f \in {g}
  BY RowFieldsAre DEF Put, Script
<1> DEFINE G == {g}
<1>4. /\ G \subseteq Fields
      /\ \A f \in Fields \ G : opts'[f] = opts[f] /\ typed'[f] = typed[f]
      /\ \A f \in G : typed'[f] = {opts'[f]}
      /\ \A f \in RowFields \ {Script} : f \in seen' <=> f \in seen \/ f \in G
  BY <1>2, <1>3
<1> HIDE DEF G
<1> QED BY <1>1, <1>4, TypedKeeps

\* Two fields at once, the first alone with a flag.
LEMMA PairKeeps ==
  ASSUME FieldMaps, ValueInv, SeenInv, PendingInv, UNCHANGED <<filed, row>>,
         ~Settled, ~Settled', NEW g \in Fields, NEW h \in Fields, g # h, NEW v, NEW u,
         opts' = [opts EXCEPT ![g] = v, ![h] = u],
         typed' = [typed EXCEPT ![g] = {v}, ![h] = {u}],
         seen' = seen \cup {g}, h \notin RowFields
  PROVE  FieldMaps' /\ ValueInv' /\ SeenInv' /\ PendingInv'
<1>1. FieldMaps'
  BY DEF FieldMaps
<1>2. /\ opts'[g] = v /\ typed'[g] = {v} /\ opts'[h] = u /\ typed'[h] = {u}
      /\ \A f \in Fields \ {g, h} : opts'[f] = opts[f] /\ typed'[f] = typed[f]
  BY DEF FieldMaps
<1> DEFINE G == {g, h}
<1>4. /\ G \subseteq Fields
      /\ \A f \in Fields \ G : opts'[f] = opts[f] /\ typed'[f] = typed[f]
      /\ \A f \in G : typed'[f] = {opts'[f]}
      /\ \A f \in RowFields \ {Script} : f \in seen' <=> f \in seen \/ f \in G
  BY <1>2
<1> HIDE DEF G
<1> QED BY <1>1, <1>4, TypedKeeps

\* A row that is applied.
LEMMA AppliedKeeps ==
  ASSUME FieldMaps, ValueInv, SeenInv, PendingInv, UNCHANGED typed,
         ~Settled, ~Settled', row \in 1 .. 33, row' = row + 1, NEW v,
         RowSeen(TableRows[row]) \notin seen,
         opts' = [opts EXCEPT ![TableRows[row]] = v],
         filed' = [filed EXCEPT ![TableRows[row]] = {v}],
         seen' = seen \cup {RowSeen(TableRows[row])}
  PROVE  FieldMaps' /\ ValueInv' /\ SeenInv' /\ PendingInv'
<1> DEFINE g == TableRows[row]
<1>1. g \in RowFields /\ g \in Fields
  BY RowFieldsAre
<1>2. /\ opts'[g] = v /\ filed'[g] = {v}
      /\ \A f \in Fields \ {g} : opts'[f] = opts[f] /\ filed'[f] = filed[f]
      /\ FieldMaps'
  <2> HIDE DEF g
  <2>1. /\ opts = [f \in Fields |-> opts[f]] /\ opts' = [opts EXCEPT ![g] = v]
        /\ filed = [f \in Fields |-> filed[f]] /\ filed' = [filed EXCEPT ![g] = {v}]
        /\ typed = [f \in Fields |-> typed[f]] /\ typed' = typed
    BY Zenon DEF FieldMaps, g
  <2>2. /\ opts'[g] = v
        /\ \A f \in Fields \ {g} : opts'[f] = opts[f]
        /\ opts' = [f \in Fields |-> opts'[f]]
    BY <2>1, <1>1
  <2>3. /\ filed'[g] = {v}
        /\ \A f \in Fields \ {g} : filed'[f] = filed[f]
        /\ filed' = [f \in Fields |-> filed'[f]]
    BY <2>1, <1>1
  <2>4. row' \in 1 .. 34
    OBVIOUS
  <2> QED BY <2>1, <2>2, <2>3, <2>4 DEF FieldMaps
<1>3. \A i \in row + 1 .. 33 : TableRows[i] # g
  BY PlaceOfRow
<1>4. PendingInv'
  <2> SUFFICES ASSUME NEW i \in row + 1 .. 33 PROVE filed'[TableRows[i]] = {}
    BY DEF PendingInv
  <2>1. i \in row .. 33 /\ i \in 1 .. 33
    OBVIOUS
  <2>2. TableRows[i] \in Fields /\ filed[TableRows[i]] = {}
    BY <2>1, RowFieldsAre DEF PendingInv
  <2> QED BY <1>2, <1>3, <2>2
<1>5. g # Script => typed[g] = {}
  BY <1>1 DEF SeenInv, RowSeen, Script
<1>6. ValueInv'
  <2> SUFFICES ASSUME NEW f \in Fields \ {Script}
               PROVE  /\ typed[f] # {} => typed[f] = {opts'[f]}
                      /\ typed[f] = {} /\ filed'[f] # {} => filed'[f] = {opts'[f]}
                      /\ typed[f] = {} /\ filed'[f] = {} => opts'[f] = Defaults[f]
    BY DEF ValueInv, BuiltIn
  <2>1. CASE f = g
    BY <2>1, <1>2, <1>5
  <2>2. CASE f # g
    BY <2>2, <1>2 DEF ValueInv, BuiltIn
  <2> QED BY <2>1, <2>2
<1>7. SeenInv'
  <2> SUFFICES ASSUME NEW f \in RowFields \ {Script}
               PROVE  f \in seen' <=> \/ typed[f] # {} \/ filed'[f] # {}
                                      \/ f = "watchdog_requested" /\ filed'[Script] # {}
    BY DEF SeenInv
  <2>1. f \in Fields /\ Script \in Fields
    BY RowFieldsAre DEF Script
  <2>2. CASE g # Script
    <3>1. RowSeen(g) = g /\ filed'[Script] = filed[Script]
      BY <2>1, <2>2, <1>2 DEF RowSeen, Script
    <3>2. CASE f = g
      BY <3>1, <3>2, <1>2
    <3>3. CASE f # g
      BY <3>1, <3>3, <2>1, <1>2 DEF SeenInv
    <3> QED BY <3>2, <3>3
  <2>3. CASE g = Script
    <3>1. RowSeen(g) = "watchdog_requested" /\ filed'[Script] # {} /\ filed'[f] = filed[f]
      BY <2>1, <2>3, <1>2 DEF RowSeen, Script
    <3> QED BY <3>1, <2>1 DEF SeenInv
  <2> QED BY <2>2, <2>3
<1> QED BY <1>2, <1>4, <1>6, <1>7

\* A row that is skipped: its field was typed.
LEMMA SkippedKeeps ==
  ASSUME FieldMaps, ValueInv, SeenInv, PendingInv, UNCHANGED <<typed, opts, seen>>,
         ~Settled, ~Settled', row \in 1 .. 33, row' = row + 1, NEW v,
         RowSeen(TableRows[row]) \in seen,
         filed' = [filed EXCEPT ![TableRows[row]] = {v}]
  PROVE  FieldMaps' /\ ValueInv' /\ SeenInv' /\ PendingInv'
<1> DEFINE g == TableRows[row]
<1>1. g \in RowFields /\ g \in Fields
  BY RowFieldsAre
<1>2. /\ filed'[g] = {v}
      /\ \A f \in Fields \ {g} : filed'[f] = filed[f]
      /\ FieldMaps'
  BY <1>1 DEF FieldMaps
<1>3. \A i \in row + 1 .. 33 : TableRows[i] # g
  BY PlaceOfRow
<1>4. PendingInv'
  <2> SUFFICES ASSUME NEW i \in row + 1 .. 33 PROVE filed'[TableRows[i]] = {}
    BY DEF PendingInv
  <2>1. i \in row .. 33 /\ i \in 1 .. 33
    OBVIOUS
  <2>2. TableRows[i] \in Fields /\ filed[TableRows[i]] = {}
    BY <2>1, RowFieldsAre DEF PendingInv
  <2> QED BY <1>2, <1>3, <2>2
<1>5. filed[g] = {} /\ filed[Script] = {}
  <2>1. row \in row .. 33 /\ 33 \in row .. 33
    OBVIOUS
  <2>2. TableRows[33] = Script
    BY RowAt DEF Script
  <2> QED BY <2>1, <2>2 DEF PendingInv
<1>6. g # Script => typed[g] # {}
  BY <1>1, <1>5 DEF SeenInv, RowSeen, Script
<1>7. ValueInv'
  <2> SUFFICES ASSUME NEW f \in Fields \ {Script}
               PROVE  /\ typed[f] # {} => typed[f] = {opts[f]}
                      /\ typed[f] = {} /\ filed'[f] # {} => filed'[f] = {opts[f]}
                      /\ typed[f] = {} /\ filed'[f] = {} => opts[f] = Defaults[f]
    BY DEF ValueInv, BuiltIn
  <2>1. CASE f = g
    BY <2>1, <1>2, <1>6 DEF ValueInv
  <2>2. CASE f # g
    BY <2>2, <1>2 DEF ValueInv, BuiltIn
  <2> QED BY <2>1, <2>2
<1>8. SeenInv'
  <2> SUFFICES ASSUME NEW f \in RowFields \ {Script}
               PROVE  f \in seen <=> \/ typed[f] # {} \/ filed'[f] # {}
                                     \/ f = "watchdog_requested" /\ filed'[Script] # {}
    BY DEF SeenInv
  <2>1. f \in Fields /\ Script \in Fields
    BY RowFieldsAre DEF Script
  <2>2. CASE g # Script
    <3>1. RowSeen(g) = g /\ filed'[Script] = filed[Script]
      BY <2>1, <2>2, <1>2 DEF RowSeen, Script
    <3>2. CASE f = g
      BY <3>1, <3>2, <1>2
    <3>3. CASE f # g
      BY <3>1, <3>3, <2>1, <1>2 DEF SeenInv
    <3> QED BY <3>2, <3>3
  <2>3. CASE g = Script
    <3>1. RowSeen(g) = "watchdog_requested" /\ filed'[Script] # {} /\ filed'[f] = filed[f]
      BY <2>1, <2>3, <1>2 DEF RowSeen, Script
    <3> QED BY <3>1, <2>1 DEF SeenInv
  <2> QED BY <2>2, <2>3
<1> QED BY <1>2, <1>4, <1>7, <1>8

LEMMA StillKeeps ==
  ASSUME MergeInv, Going, UNCHANGED <<opts, typed, filed, row>>,
         \/ stage' \in {"answered", "refused"}
         \/ Settled' = Settled /\ \A f \in RowFields : f \in seen' <=> f \in seen
  PROVE  MergeInv'
<1>1. CASE stage' \in {"answered", "refused"}
  BY <1>1 DEF MergeInv, FieldMaps, Going
<1>2. CASE Settled' = Settled /\ \A f \in RowFields : f \in seen' <=> f \in seen
  BY <1>2, OthersKeep DEF MergeInv
<1> QED BY <1>1, <1>2

LEMMA PutMerges ==
  ASSUME MergeInv, stage = "scan", stage' = "scan", UNCHANGED <<filed, row>>,
         NEW g \in Fields, NEW v, Put(g, v)
  PROVE  MergeInv'
<1>1. Going /\ ~Settled /\ ~Settled'
  BY DEF Going, Settled
<1> QED BY <1>1, PutKeeps DEF MergeInv

LEMMA ArgumentMerges ==
  ASSUME MergeInv,
         \/ \E f \in Valued : TypeValue(f)
         \/ \E f \in Switches \cup OnOff : TypeSwitch(f)
         \/ \E f \in Layouts : TypeLayout(f)
         \/ TypeWatchdog
         \/ \E m \in {"tune", "report", "benchmark"} : TypeMode(m)
         \/ TypeAlgo
         \/ \E k \in DOMAIN PoolWords : TypePool(k)
         \/ \E k \in {"flat", "json"} : TypeFile(k)
         \/ EndsScan
  PROVE  MergeInv'
<1>1. ASSUME NEW f \in Valued, TypeValue(f) PROVE MergeInv'
  <2>1. stage = "scan" /\ Going /\ UNCHANGED <<filed, row>>
    BY <1>1 DEF TypeValue, Reading, Going, AfterArg
  <2>2. CASE Refuse /\ UNCHANGED cliVars
    BY <2>1, <2>2, StillKeeps DEF Refuse, cliVars
  <2>3. ASSUME NEW w, Put(f, CliStored(f, w)), UNCHANGED stage PROVE MergeInv'
    <3>1. f \in Fields
      BY FieldNames DEF Valued, Limits
    <3> QED BY <2>1, <2>3, <3>1, PutMerges
  <2> QED BY <1>1, <2>2, <2>3 DEF TypeValue
<1>2. ASSUME NEW f \in Switches \cup OnOff, TypeSwitch(f) PROVE MergeInv'
  <2>1. stage = "scan" /\ stage' = "scan" /\ UNCHANGED <<filed, row>>
    BY <1>2 DEF TypeSwitch, Reading, AfterArg
  <2>2. PICK v \in BOOLEAN : Put(f, v)
    BY <1>2 DEF TypeSwitch
  <2>3. f \in Fields
    BY FieldNames DEF Flags, Booleans
  <2> QED BY <2>1, <2>2, <2>3, PutMerges
<1>3. ASSUME NEW f \in Layouts, TypeLayout(f) PROVE MergeInv'
  <2>1. stage = "scan" /\ Going /\ UNCHANGED <<filed, row>>
    BY <1>3 DEF TypeLayout, Reading, Going, AfterArg
  <2>2. f \in Fields /\ "stats_width" \in Fields /\ f # "stats_width"
    BY FieldNames DEF Flags, Booleans, Layouts
  <2>3. CASE Put(f, TRUE) /\ UNCHANGED stage
    BY <2>1, <2>2, <2>3, PutMerges
  <2>4. CASE /\ opts' = [opts EXCEPT ![f] = TRUE, !.stats_width = 80]
             /\ typed' = [typed EXCEPT ![f] = {TRUE}, !.stats_width = {80}]
             /\ seen' = seen \cup {f}
             /\ UNCHANGED stage
    <3>1. ~Settled /\ ~Settled' /\ Going' /\ "stats_width" \notin RowFields
      BY <2>1, <2>4, RowFieldsAre DEF Settled, Going
    <3> QED BY <2>1, <2>2, <2>4, <3>1, PairKeeps DEF MergeInv
  <2>5. CASE Refuse /\ UNCHANGED <<opts, typed, seen>>
    BY <2>1, <2>5, StillKeeps DEF Refuse
  <2> QED BY <1>3, <2>3, <2>4, <2>5 DEF TypeLayout
<1>4. CASE TypeWatchdog
  <2>1. stage = "scan" /\ stage' = "scan" /\ UNCHANGED <<filed, row>>
    BY <1>4 DEF TypeWatchdog, Reading, AfterArg
  <2>2. PICK a : /\ opts' = [opts EXCEPT !.watchdog_requested = TRUE, !.watchdog_action = a]
                 /\ typed' = [typed EXCEPT !.watchdog_requested = {TRUE}, !.watchdog_action = {a}]
    BY <1>4 DEF TypeWatchdog
  <2>3. seen' = seen \cup {"watchdog_requested"}
    BY <1>4 DEF TypeWatchdog
  <2>4. /\ Going /\ Going' /\ ~Settled /\ ~Settled' /\ "watchdog_action" \notin RowFields
        /\ "watchdog_requested" \in Fields /\ "watchdog_action" \in Fields
    BY <2>1, FieldNames, RowFieldsAre DEF Settled, Going
  <2> QED BY <2>1, <2>2, <2>3, <2>4, PairKeeps DEF MergeInv
<1>5. ASSUME NEW m \in {"tune", "report", "benchmark"}, TypeMode(m) PROVE MergeInv'
  <2>1. stage = "scan" /\ Going /\ UNCHANGED <<filed, row>>
    BY <1>5 DEF TypeMode, Reading, Going, AfterArg
  <2>2. m \in Fields
    BY FieldNames DEF Flags
  <2>3. CASE Refuse /\ UNCHANGED <<opts, typed, seen, algo>>
    BY <2>1, <2>3, StillKeeps DEF Refuse
  <2>4. ASSUME NEW v, Put(m, v), UNCHANGED stage PROVE MergeInv'
    BY <2>1, <2>2, <2>4, PutMerges
  <2> QED BY <1>5, <2>3, <2>4 DEF TypeMode
<1>6. CASE \/ TypeAlgo
           \/ \E k \in DOMAIN PoolWords : TypePool(k)
           \/ \E k \in {"flat", "json"} : TypeFile(k)
  <2>1. /\ stage = "scan" /\ UNCHANGED <<opts, typed, filed, row, seen>>
        /\ stage' = "scan" \/ stage' = "refused"
    BY <1>6 DEF TypeAlgo, TypePool, TypeFile, Reading, Refuse, AfterArg, cliVars
  <2>2. Going /\ (stage' \in {"answered", "refused"} \/ Settled' = Settled)
    BY <2>1 DEF Going, Settled
  <2> QED BY <2>1, <2>2, StillKeeps
<1>7. CASE EndsScan
  <2>1. /\ stage = "scan" /\ UNCHANGED <<opts, typed, filed, row>>
        /\ stage' \in {"answered", "refused"}
    BY <1>7 DEF EndsScan, AfterArg, cliVars
  <2>2. Going
    BY <2>1 DEF Going
  <2> QED BY <2>1, <2>2, StillKeeps
<1> QED BY <1>1, <1>2, <1>3, <1>4, <1>5, <1>6, <1>7

LEMMA RowMerges == ASSUME MergeInv, ApplyRow PROVE MergeInv'
<1>1. stage = "rows" /\ row \in 1 .. 33 /\ row' = row + 1 /\ UNCHANGED typed
  BY RowAt DEF ApplyRow, MergeInv, FieldMaps
<1>2. Going /\ ~Settled
  BY <1>1 DEF Going, Settled
<1> DEFINE g == TableRows[row]
<1>3. /\ FieldMaps /\ ValueInv /\ SeenInv /\ PendingInv
      /\ g \in Fields
  BY <1>1, <1>2, RowFieldsAre DEF MergeInv
<1>4. CASE UNCHANGED <<opts, seen, filed, stage>>
  <2>1. ~Settled' /\ FieldMaps'
    BY <1>1, <1>3, <1>4 DEF Settled, FieldMaps
  <2>2. PendingInv'
    BY <1>1, <1>3, <1>4 DEF PendingInv
  <2>3. ValueInv' /\ SeenInv'
    BY <1>1, <1>2, <1>3, <1>4, <2>1 DEF ValueInv, SeenInv, BuiltIn
  <2> QED BY <2>1, <2>2, <2>3 DEF MergeInv
<1>5. ASSUME NEW w, TakeRow(g, w) PROVE MergeInv'
  <2> DEFINE v == Becomes(g, w)
  <2>1. CASE RowSeen(g) \in seen /\ filed' = [filed EXCEPT ![g] = {v}] /\ UNCHANGED <<opts, seen, stage>>
    <3>1. ~Settled'
      BY <1>1, <2>1 DEF Settled
    <3> HIDE DEF v
    <3> QED BY <1>1, <1>2, <1>3, <2>1, <3>1, SkippedKeeps DEF MergeInv
  <2>2. CASE /\ RowSeen(g) \notin seen /\ UNCHANGED stage
             /\ opts' = [opts EXCEPT ![g] = v]
             /\ seen' = seen \cup {RowSeen(g)}
             /\ filed' = [filed EXCEPT ![g] = {v}]
    <3>1. ~Settled'
      BY <1>1, <2>2 DEF Settled
    <3> HIDE DEF v
    <3> QED BY <1>1, <1>2, <1>3, <2>2, <3>1, AppliedKeeps DEF MergeInv
  <2>3. CASE Refuse /\ UNCHANGED <<opts, seen, filed>>
    BY <1>1, <1>3, <2>3 DEF Refuse, MergeInv, Going, FieldMaps
  <2> QED BY <1>5, <2>1, <2>2, <2>3, Zenon DEF TakeRow
<1> QED BY <1>4, <1>5 DEF ApplyRow

LEMMA ImpliedMerges == ASSUME MergeInv, ResolveImplied PROVE MergeInv'
<1>1. /\ stage = "implied" /\ stage' = "gates" /\ UNCHANGED <<typed, filed, row>>
      /\ opts' = IF "log_enabled" \notin seen /\ opts.log_path # ""
                   THEN [opts EXCEPT !.log_enabled = TRUE] ELSE opts
      /\ seen' \in {seen, seen \cup {"algo"}}
  BY DEF ResolveImplied
<1>2. Going /\ ~Settled /\ Settled'
  BY <1>1 DEF Going, Settled
<1>3. FieldMaps /\ ValueInv /\ SeenInv /\ PendingInv
  BY <1>2 DEF MergeInv
<1>4. "log_enabled" \in Fields /\ "log_path" \in Fields /\ "log_enabled" \in RowFields
  BY RowFieldsAre
<1>5. /\ \A f \in Fields \ {"log_enabled"} : opts'[f] = opts[f]
      /\ opts'.log_path = opts.log_path
      /\ "log_enabled" \in seen => opts'.log_enabled = opts.log_enabled
      /\ "log_enabled" \notin seen /\ opts.log_path = "" => opts'.log_enabled = opts.log_enabled
      /\ "log_enabled" \notin seen /\ opts.log_path # "" => opts'.log_enabled = TRUE
      /\ FieldMaps'
  BY <1>1, <1>3, <1>4 DEF FieldMaps
<1>6. Defaults["log_enabled"] = FALSE
  BY <1>4 DEF Defaults, Flags, Booleans, OnOff
<1>7. ValueInv'
  <2> SUFFICES ASSUME NEW f \in Fields \ {Script}
               PROVE  /\ typed[f] # {} => typed[f] = {opts'[f]}
                      /\ typed[f] = {} /\ filed[f] # {} => filed[f] = {opts'[f]}
                      /\ typed[f] = {} /\ filed[f] = {} => opts'[f] = BuiltIn(f)'
    BY <1>1 DEF ValueInv
  <2>1. CASE f # "log_enabled"
    BY <1>3, <1>5, <2>1 DEF ValueInv, BuiltIn
  <2>2. CASE f = "log_enabled"
    <3>1. f \in seen <=> typed[f] # {} \/ filed[f] # {}
      BY <1>3, <1>4, <2>2 DEF SeenInv, Script
    <3>2. CASE f \in seen
      BY <1>3, <1>5, <2>2, <3>1, <3>2 DEF ValueInv
    <3>3. CASE f \notin seen
      <4>1. typed[f] = {} /\ filed[f] = {} /\ opts[f] = FALSE
        BY <1>2, <1>3, <1>6, <2>2, <3>1, <3>3 DEF ValueInv, BuiltIn
      <4>2. BuiltIn(f)' = (opts.log_path # "")
        BY <1>2, <1>5, <2>2 DEF BuiltIn
      <4>3. opts'[f] = (opts.log_path # "")
        BY <1>5, <2>2, <3>3, <4>1
      <4> QED BY <4>1, <4>2, <4>3
    <3> QED BY <3>2, <3>3
  <2> QED BY <2>1, <2>2
<1>8. SeenInv' /\ PendingInv'
  BY <1>1, <1>3, RowFieldsAre DEF SeenInv, PendingInv
<1> QED BY <1>5, <1>7, <1>8 DEF MergeInv

LEMMA MergeStep == ListsType /\ MergeInv /\ [OptionsNext]_optionVars => MergeInv'
<1> SUFFICES ASSUME ListsType, MergeInv, [OptionsNext]_optionVars PROVE MergeInv'
  OBVIOUS
<1>1. CASE UNCHANGED optionVars
  BY <1>1 DEF optionVars, MergeInv, FieldMaps, Going, ValueInv, SeenInv, PendingInv, BuiltIn, Settled
<1>2. CASE EndOfArgs
  <2>1. /\ stage = "scan" /\ UNCHANGED <<opts, typed, filed, row>>
        /\ \/ stage' = "refused"
           \/ /\ stage' = "bind"
              /\ seen \subseteq seen' /\ seen' \subseteq seen \cup {"algo"} \cup DOMAIN lists
    BY <1>2 DEF EndOfArgs, AfterArg, Refuse
  <2>2. Going /\ (stage' = "refused" \/ Settled' = Settled)
    BY <2>1 DEF Going, Settled
  <2> QED BY <2>1, <2>2, ListNames, RowFieldsAre, StillKeeps
<1>3. CASE BindPool \/ Parsed \/ NoFilePools \/ Gates
  <2>1. /\ stage \in {"bind", "rows", "gates"} /\ UNCHANGED <<opts, typed, filed, row, seen>>
        /\ \/ stage' \in {"answered", "refused"}
           \/ stage \in {"bind", "rows"} /\ stage' \in {"bind", "implied", "open"}
           \/ stage = "gates" /\ stage' = "run"
    BY <1>3 DEF BindPool, Parsed, NoFilePools, Gates, cliVars, Refuse
  <2>2. Going /\ (stage' \in {"answered", "refused"} \/ Settled' = Settled)
    BY <2>1 DEF Going, Settled
  <2> QED BY <2>1, <2>2, StillKeeps
<1>4. CASE OpenJson \/ OpenFlat
  <2>1. /\ stage = "open" /\ UNCHANGED <<opts, typed, filed, row>>
        /\ stage' \in {"refused", "rows"}
        /\ seen' \in {seen, seen \cup {"algo"}}
    BY <1>4 DEF OpenJson, OpenFlat, OpenFile, Refuse
  <2>2. Going /\ (stage' = "refused" \/ Settled' = Settled)
    BY <2>1 DEF Going, Settled
  <2> QED BY <2>1, <2>2, RowFieldsAre, StillKeeps
<1>5. CASE JsonPools \/ FlatPool
  <2>1. /\ stage = "rows" /\ UNCHANGED <<opts, typed, filed, row>>
        /\ stage' \in {"refused", "implied"}
        /\ seen' \in {seen, seen \cup {"pool"}}
    <3>1. \E ps : FilePools /\ TakePools(ps)
      BY <1>5, Zenon DEF JsonPools, FlatPool
    <3> QED BY <3>1 DEF FilePools, TakePools, Refuse
  <2>2. Going /\ (stage' = "refused" \/ Settled' = Settled)
    BY <2>1 DEF Going, Settled
  <2> QED BY <2>1, <2>2, RowFieldsAre, StillKeeps
<1>6. CASE Ended
  BY <1>6, <1>1 DEF Ended
<1> QED BY <1>1, <1>2, <1>3, <1>4, <1>5, <1>6, ArgumentMerges, RowMerges, ImpliedMerges DEF OptionsNext

LEMMA MergeStarts == OptionsInit => MergeInv
<1> SUFFICES ASSUME OptionsInit PROVE MergeInv
  OBVIOUS
<1>1. /\ stage = "scan" /\ opts = Defaults /\ seen = {} /\ row = 1
      /\ typed = [f \in Fields |-> {}] /\ filed = [f \in Fields |-> {}]
  BY DEF OptionsInit
<1>2. FieldMaps /\ ValueInv
  <2>1. Defaults = [f \in Fields |-> Defaults[f]]
    BY DEF Defaults
  <2>2. ~Settled
    BY <1>1 DEF Settled
  <2> QED BY <1>1, <2>1, <2>2 DEF FieldMaps, ValueInv, BuiltIn
<1>3. SeenInv /\ PendingInv
  BY <1>1, RowFieldsAre DEF SeenInv, PendingInv, Script
<1> QED BY <1>2, <1>3 DEF MergeInv

(* EachFlagWins: the value a run uses is the command line's last word, else   *)
(* the file's, else the program's own (cli::Options::Seen and both loaders of *)
(* config/config.cpp).                                                        *)
THEOREM FlagsWin == OptionsSpec => []EachFlagWins
<1>1. OptionsInit => ListsType /\ MergeInv
  BY ListsTypeInit, MergeStarts
<1>2. ListsType /\ MergeInv /\ [OptionsNext]_optionVars => (ListsType /\ MergeInv)'
  BY ListsTypeStep, MergeStep
<1>3. MergeInv => EachFlagWins
  <2> SUFFICES ASSUME MergeInv, Settled, NEW f \in Fields \ {Script} PROVE opts[f] \in Asked(f)
    BY DEF EachFlagWins, Script
  <2>1. ValueInv
    BY DEF MergeInv, Going, Settled
  <2>2. CASE typed[f] # {}
    BY <2>1, <2>2 DEF ValueInv, Asked
  <2>3. CASE typed[f] = {} /\ filed[f] # {}
    BY <2>1, <2>3 DEF ValueInv, Asked
  <2>4. CASE typed[f] = {} /\ filed[f] = {}
    BY <2>1, <2>4 DEF ValueInv, Asked, BuiltIn
  <2> QED BY <2>2, <2>3, <2>4
<1> QED BY <1>1, <1>2, <1>3, PTL DEF OptionsSpec

(***************************************************************************)
(* The steps of the pools.                                                  *)
(***************************************************************************)
LEMMA BoundFrom ==
  ASSUME NEW S, NEW s \in Seq(S), NEW i \in Nat \ {0}, NEW d
  PROVE  /\ s = <<>> => BoundValue(s, i, d) = d
         /\ s # <<>> => BoundValue(s, i, d) \in ToSet(s) /\ BoundValue(s, i, d) \in S
<1>1. s = <<>> => BoundValue(s, i, d) = d
  BY DEF BoundValue
<1>2. ASSUME s # <<>> PROVE BoundValue(s, i, d) \in ToSet(s) /\ BoundValue(s, i, d) \in S
  <2> DEFINE k == IF i < Len(s) THEN i ELSE Len(s)
  <2>1. Len(s) \in Nat \ {0} /\ DOMAIN s = 1 .. Len(s)
    BY <1>2, EmptySeq, LenProperties
  <2>2. k \in 1 .. Len(s)
    BY <2>1
  <2>3. BoundValue(s, i, d) = s[k]
    BY <1>2 DEF BoundValue
  <2>4. s[k] \in S
    BY <2>2, ElementOfSeq
  <2> HIDE DEF k
  <2> QED BY <2>1, <2>2, <2>3, <2>4, Zenon DEF ToSet
<1> QED BY <1>1, <1>2

\* What the command line binds to its i-th pool, and whose credentials they are.
LEMMA CliPoolIs ==
  ASSUME ListsType, NEW i \in 1 .. Len(lists.pool)
  PROVE  /\ CliPool(i) \in PoolEntry
         /\ CliPool(i).from = "cli"
         /\ CliPool(i).user # "" =>
              CliPool(i).user \in ToSet(lists.user)
                                  \cup (IF IsLoopback(CliPool(i).host) THEN {DefaultUser} ELSE {})
         /\ CliPool(i).pass \in ToSet(lists.pass) \cup {""}
         /\ ~CliPool(i).tls /\ ~IsLoopback(CliPool(i).host) => FALSE \in ToSet(lists.tls)
<1> DEFINE h == Unbracket(lists.pool[i])
           u == BoundValue(lists.user, i, "")
           p == BoundValue(lists.pass, i, "")
           t == BoundValue(lists.tls, i, ~IsLoopback(h))
           w == IF u = "" /\ IsLoopback(h) THEN DefaultUser ELSE u
<1>1. /\ lists.pool \in Seq(PoolWords.pool) /\ lists.user \in Seq(PoolWords.user)
      /\ lists.pass \in Seq(PoolWords.pass) /\ lists.tls \in Seq(BOOLEAN)
  BY DEF ListsType
<1>2. Len(lists.pool) \in Nat /\ i \in Nat \ {0}
  BY <1>1, LenProperties
<1>3. lists.pool[i] \in PoolWords.pool
  BY <1>1, ElementOfSeq
<1>4. h \in Hosts
  BY <1>3 DEF PoolWords, Hosts, Unbracket
<1>5. u \in PoolWords.user /\ (u = "" \/ u \in ToSet(lists.user))
  <2>1. "" \in PoolWords.user
    BY DEF PoolWords
  <2>2. lists.user = <<>> => u = ""
    BY DEF BoundValue
  <2>3. lists.user # <<>> => u \in ToSet(lists.user) /\ u \in PoolWords.user
    BY <1>1, <1>2, BoundFrom
  <2> HIDE DEF u
  <2> QED BY <2>1, <2>2, <2>3
<1>6. p \in PoolWords.pass \cup {""} /\ p \in ToSet(lists.pass) \cup {""}
  <2>2. lists.pass = <<>> => p = ""
    BY DEF BoundValue
  <2>3. lists.pass # <<>> => p \in ToSet(lists.pass) /\ p \in PoolWords.pass
    BY <1>1, <1>2, BoundFrom
  <2> HIDE DEF p
  <2> QED BY <2>2, <2>3
<1>7. IsLoopback(h) \in BOOLEAN
  BY DEF IsLoopback
<1>8. t \in BOOLEAN /\ (~t /\ ~IsLoopback(h) => FALSE \in ToSet(lists.tls))
  <2>2. lists.tls = <<>> => t = ~IsLoopback(h)
    BY Zenon DEF BoundValue
  <2>3. lists.tls # <<>> => t \in ToSet(lists.tls) /\ t \in BOOLEAN
    BY <1>1, <1>2, BoundFrom, Zenon
  <2> HIDE DEF t, h
  <2> QED BY <2>2, <2>3, <1>7
<1>9. CliPool(i) = [host |-> h, pass |-> p, user |-> w, tls |-> t, from |-> "cli"]
  BY Zenon DEF CliPool
<1>10. /\ w \in {"", "alice", "bob", "carol", DefaultUser}
       /\ w # "" => w \in ToSet(lists.user) \cup (IF IsLoopback(h) THEN {DefaultUser} ELSE {})
  <2> HIDE DEF u, h
  <2> QED BY <1>5 DEF PoolWords
<1>11. p \in {"", "secret", "kept"}
  <2> HIDE DEF p
  <2> QED BY <1>6 DEF PoolWords
<1> HIDE DEF h, u, p, t, w
<1>12. /\ CliPool(i) \in PoolEntry
       /\ CliPool(i).host = h /\ CliPool(i).pass = p /\ CliPool(i).user = w
       /\ CliPool(i).tls = t /\ CliPool(i).from = "cli"
  <2>1. "cli" \in {"cli", "file"}
    OBVIOUS
  <2>2. /\ h \in Hosts /\ p \in {"", "secret", "kept"} /\ t \in BOOLEAN
        /\ w \in {"", "alice", "bob", "carol", DefaultUser}
    BY <1>4, <1>8, <1>10, <1>11, Zenon
  <2>3. CliPool(i) \in PoolEntry
    <3>1. [host |-> h, pass |-> p, user |-> w, tls |-> t, from |-> "cli"] \in PoolEntry
      BY <2>1, <2>2 DEF PoolEntry
    <3> QED BY <1>9, <3>1, Zenon
  <2>4. /\ CliPool(i).host = h /\ CliPool(i).pass = p /\ CliPool(i).user = w
        /\ CliPool(i).tls = t /\ CliPool(i).from = "cli"
    BY <1>9
  <2> QED BY <2>3, <2>4
<1> QED BY <1>6, <1>8, <1>10, <1>12

LEMMA ToPoolIs ==
  ASSUME NEW e \in FileEntry, NEW t \in {{}, {TRUE}, {FALSE}}
  PROVE  /\ ToPool(e, t) \in PoolEntry
         /\ ToPool(e, t).user # "" => FromFile(ToPool(e, t))
<1> DEFINE a == IF e.tls # {} THEN e.tls ELSE t
           q == IF a = {} THEN ~IsLoopback(e.host) ELSE TRUE \in a
           w == IF e.user = "" /\ IsLoopback(e.host) THEN DefaultUser ELSE e.user
<1>1. /\ e.host \in {"localhost", "[::1]", "pool"} /\ e.user \in {"", "carol"} /\ e.pass = "kept"
  BY DEF FileEntry
<1>2. ToPool(e, t) = [host |-> e.host, pass |-> e.pass, tls |-> q, user |-> w, from |-> "file"]
  BY Zenon DEF ToPool
<1>3. q \in BOOLEAN
  <2> HIDE DEF a
  <2>1. CASE a = {}
    BY <2>1, Zenon DEF IsLoopback
  <2>2. CASE a # {}
    <3>1. q = (TRUE \in a)
      BY <2>2, Zenon
    <3>2. (TRUE \in a) \in BOOLEAN
      OBVIOUS
    <3> HIDE DEF q
    <3> QED BY <3>1, <3>2, Zenon
  <2> QED BY <2>1, <2>2
<1>4. /\ w \in {"", "alice", "bob", "carol", DefaultUser}
      /\ w # "" => w \in {"carol"} \cup (IF IsLoopback(e.host) THEN {DefaultUser} ELSE {})
  BY <1>1
<1> HIDE DEF a, q, w
<1>5. /\ ToPool(e, t) \in PoolEntry
      /\ ToPool(e, t).host = e.host /\ ToPool(e, t).pass = "kept" /\ ToPool(e, t).user = w
      /\ ToPool(e, t).from = "file"
  <2>1. /\ e.host \in Hosts /\ e.pass \in {"", "secret", "kept"} /\ "file" \in {"cli", "file"}
    BY <1>1 DEF Hosts
  <2>2. ToPool(e, t) = [host |-> e.host, pass |-> e.pass, user |-> w, tls |-> q, from |-> "file"]
    BY <1>2, Zenon
  <2>3. w \in {"", "alice", "bob", "carol", DefaultUser} /\ e.pass = "kept"
    BY <1>1, <1>4, Zenon
  <2>4. ToPool(e, t) \in PoolEntry
    <3>1. [host |-> e.host, pass |-> e.pass, tls |-> q, user |-> w, from |-> "file"] \in PoolEntry
      BY <1>3, <2>1, <2>3 DEF PoolEntry
    <3> QED BY <2>2, <3>1, Zenon
  <2>5. /\ ToPool(e, t).host = e.host /\ ToPool(e, t).pass = e.pass /\ ToPool(e, t).user = w
        /\ ToPool(e, t).from = "file"
    BY <2>2
  <2> QED BY <2>3, <2>4, <2>5
<1> QED BY <1>4, <1>5 DEF FromFile

\* The pools a file gives, when it is not refused.
LEMMA FilePoolsAre ==
  ASSUME JsonPools \/ FlatPool
  PROVE  /\ stage = "rows" /\ UNCHANGED <<lists, cliPools>> /\ "pool" \notin seen
         /\ \/ stage' = "refused"
            \/ /\ stage' = "implied" /\ seen' = seen \cup {"pool"}
               /\ pools' \in Seq(PoolEntry)
               /\ \A i \in 1 .. Len(pools') : FromFile(pools'[i])
<1>1. \E ps : FilePools /\ TakePools(ps)
  BY Zenon DEF JsonPools, FlatPool
<1>2. stage = "rows" /\ UNCHANGED <<lists, cliPools>> /\ "pool" \notin seen
  BY <1>1 DEF FilePools
<1>3. ASSUME NEW n \in Nat, NEW ps, NEW t \in {{}, {TRUE}, {FALSE}}, NEW es \in [1 .. n -> FileEntry],
             ps = [i \in 1 .. n |-> ToPool(es[i], t)], TakePools(ps)
      PROVE  \/ stage' = "refused"
             \/ /\ stage' = "implied" /\ seen' = seen \cup {"pool"}
                /\ pools' \in Seq(PoolEntry)
                /\ \A i \in 1 .. Len(pools') : FromFile(pools'[i])
  <2>1. \A i \in 1 .. n : /\ ps[i] = ToPool(es[i], t) /\ ps[i] \in PoolEntry
                          /\ ps[i].user # "" => FromFile(ps[i])
    BY <1>3, ToPoolIs
  <2>2. ps \in [1 .. n -> PoolEntry]
    BY <1>3, <2>1
  <2>3. ps \in Seq(PoolEntry) /\ Len(ps) = n /\ DOMAIN ps = 1 .. n
    <3>1. ps \in Seq(PoolEntry)
      BY <2>2, SeqDef
    <3>2. DOMAIN ps = 1 .. n
      BY <2>2
    <3> QED BY <3>1, <3>2, LenProperties
  <2>4. CASE Refuse
    BY <2>4 DEF Refuse
  <2>5. CASE /\ "" \notin {ps[i].user : i \in DOMAIN ps}
             /\ pools' = ps /\ seen' = seen \cup {"pool"} /\ stage' = "implied"
    BY <2>1, <2>3, <2>5
  <2> QED BY <1>3, <2>4, <2>5 DEF TakePools
<1>4. CASE JsonPools
  <2>0. PICK n \in 0 .. MaxPools, t \in {{}, {TRUE}, {FALSE}} :
          \E es \in [1 .. n -> FileEntry] : TakePools([i \in 1 .. n |-> ToPool(es[i], t)])
    BY <1>4, Zenon DEF JsonPools
  <2>1. PICK es \in [1 .. n -> FileEntry] : TakePools([i \in 1 .. n |-> ToPool(es[i], t)])
    BY <2>0
  <2>2. n \in Nat
    BY OptionsAssumption
  <2> QED BY <1>2, <1>3, <2>1, <2>2
<1>5. CASE FlatPool
  <2>1. PICK e \in FileEntry : TakePools(<<ToPool(e, {})>>)
    BY <1>5, Zenon DEF FlatPool
  <2> DEFINE es == [i \in 1 .. 1 |-> e]
             ps == [i \in 1 .. 1 |-> ToPool(es[i], {})]
  <2>2. es \in [1 .. 1 -> FileEntry] /\ es[1] = e
    OBVIOUS
  <2>3. ps = <<ToPool(e, {})>>
    OBVIOUS
  <2>4. TakePools(ps) /\ {} \in {{}, {TRUE}, {FALSE}} /\ 1 \in Nat
    BY <2>1, <2>3
  <2> QED BY <1>2, <1>3, <2>2, <2>4
<1> QED BY <1>4, <1>5

PoolFlags == {"pool", "user", "pass", "tls"}

LEMMA LenNotEmpty == ASSUME NEW S, NEW s \in Seq(S) PROVE Len(s) \in Nat /\ (Len(s) = 0 <=> s = <<>>)
  BY EmptySeq, LenProperties

LEMMA CliPoolStays == UNCHANGED lists => \A i : CliPool(i)' = CliPool(i)
  BY DEF CliPool

\* While the arguments are read no pool is bound and no flag of the four lists set.
LEMMA ScanPools ==
  ASSUME ListsType', PoolsInv, stage = "scan", stage' = "scan", UNCHANGED pools,
         NEW D, D \cap PoolFlags = {}, seen' \subseteq seen \cup D
  PROVE  PoolsInv'
<1>1. pools = <<>> /\ pools' = <<>> /\ seen' \cap DOMAIN NoLists = {}
  BY NoListNames DEF PoolsInv, Going, ListsInv, PoolFlags
<1>2. pools' \in Seq(PoolEntry) /\ Len(pools') = 0
  BY <1>1, EmptySeq
<1>3. Len(lists'.pool) >= 0
  <2>1. lists'.pool \in Seq(PoolWords.pool)
    BY DEF ListsType
  <2> QED BY <2>1, LenNotEmpty
<1>4. BoundInv'
  <2>1. 1 .. Len(pools') = {}
    BY <1>2
  <2>2. Len(pools') <= Len(lists'.pool)
    BY <1>2, <1>3
  <2> QED BY <1>2, <2>1, <2>2, Zenon DEF BoundInv
<1>5. ListsInv'
  BY <1>1 DEF ListsInv
<1> QED BY <1>4, <1>5 DEF PoolsInv

LEMMA ArgumentPools ==
  ASSUME ListsType', PoolsInv,
         \/ \E f \in Valued : TypeValue(f)
         \/ \E f \in Switches \cup OnOff : TypeSwitch(f)
         \/ \E f \in Layouts : TypeLayout(f)
         \/ TypeWatchdog
         \/ \E m \in {"tune", "report", "benchmark"} : TypeMode(m)
         \/ TypeAlgo
         \/ \E k \in DOMAIN PoolWords : TypePool(k)
         \/ \E k \in {"flat", "json"} : TypeFile(k)
         \/ EndsScan
  PROVE  PoolsInv'
<1>1. stage = "scan" /\ UNCHANGED pools
  BY Zenon DEF TypeValue, TypeSwitch, TypeLayout, TypeWatchdog, TypeMode, TypeAlgo, TypePool, TypeFile,
     EndsScan, Reading, AfterArg
<1>2. CASE stage' \in {"answered", "refused"}
  BY <1>2 DEF PoolsInv, Going
<1>3. ASSUME NEW f \in Fields, seen' \subseteq seen \cup {f}, stage' = "scan" PROVE PoolsInv'
  <2>1. {f} \cap PoolFlags = {}
    BY FieldNames DEF PoolFlags
  <2> QED BY <1>1, <1>3, <2>1, ScanPools
<1>4. ASSUME NEW f \in Fields, NEW v, Put(f, v), stage' = "scan" PROVE PoolsInv'
  <2>1. seen' \subseteq seen \cup {f}
    BY <1>4, RowFieldsAre DEF Put
  <2> QED BY <1>3, <1>4, <2>1
<1>5. CASE seen' = seen /\ stage' = "scan"
  <2>1. {} \cap PoolFlags = {} /\ seen' \subseteq seen \cup {}
    BY <1>5
  <2> QED BY <1>1, <1>5, <2>1, ScanPools
<1>6. ASSUME NEW f \in Valued, TypeValue(f) PROVE PoolsInv'
  <2>1. f \in Fields
    BY FieldNames DEF Valued, Limits
  <2>2. stage' = "refused" \/ \E v : Put(f, v) /\ UNCHANGED stage
    BY <1>6, Zenon DEF TypeValue, Refuse
  <2> QED BY <1>1, <1>2, <1>4, <2>1, <2>2
<1>7. ASSUME NEW f \in Switches \cup OnOff, TypeSwitch(f) PROVE PoolsInv'
  <2>1. f \in Fields
    BY FieldNames DEF Flags, Booleans
  <2>2. (\E v : Put(f, v)) /\ UNCHANGED stage
    BY <1>7, Zenon DEF TypeSwitch
  <2> QED BY <1>1, <1>4, <2>1, <2>2
<1>8. ASSUME NEW f \in Layouts, TypeLayout(f) PROVE PoolsInv'
  <2>1. f \in Fields
    BY FieldNames DEF Flags, Booleans
  <2>2. stage' = "refused" \/ (UNCHANGED stage /\ (Put(f, TRUE) \/ seen' = seen \cup {f}))
    BY <1>8, Zenon DEF TypeLayout, Refuse
  <2> QED BY <1>1, <1>2, <1>3, <1>4, <2>1, <2>2
<1>9. CASE TypeWatchdog
  <2>1. UNCHANGED stage /\ seen' = seen \cup {"watchdog_requested"}
    BY <1>9 DEF TypeWatchdog
  <2>2. "watchdog_requested" \in Fields
    BY RowFieldsAre
  <2> QED BY <1>1, <1>3, <2>1, <2>2
<1>10. ASSUME NEW m \in {"tune", "report", "benchmark"}, TypeMode(m) PROVE PoolsInv'
  <2>1. m \in Fields
    BY FieldNames DEF Flags
  <2>2. stage' = "refused" \/ \E v : Put(m, v) /\ UNCHANGED stage
    BY <1>10, Zenon DEF TypeMode, Refuse
  <2> QED BY <1>1, <1>2, <1>4, <2>1, <2>2
<1>11. CASE \/ TypeAlgo
            \/ \E k \in DOMAIN PoolWords : TypePool(k)
            \/ \E k \in {"flat", "json"} : TypeFile(k)
            \/ EndsScan
  <2>1. seen' = seen /\ (UNCHANGED stage \/ stage' \in {"answered", "refused"})
    BY <1>11 DEF TypeAlgo, TypePool, TypeFile, EndsScan, Refuse, cliVars
  <2> QED BY <1>1, <1>2, <1>5, <2>1
<1> QED BY <1>6, <1>7, <1>8, <1>9, <1>10, <1>11

LEMMA EndOfArgsPools == ASSUME PoolsInv, ListsType', EndOfArgs PROVE PoolsInv'
<1>1. stage = "scan" /\ UNCHANGED <<pools, lists>>
  BY DEF EndOfArgs, AfterArg
<1>2. CASE stage' = "refused"
  BY <1>2 DEF PoolsInv, Going
<1>3. CASE stage' = "bind"
  <2>1. seen' = seen \cup (IF algo = "" THEN {} ELSE {"algo"})
                     \cup {k \in DOMAIN lists : lists[k] # <<>>}
    BY <1>3 DEF EndOfArgs, Refuse
  <2>2. DOMAIN lists = {"pool", "user", "pass", "tls"}
    BY ListNames DEF PoolsInv
  <2>3. pools = <<>> /\ seen \cap {"pool", "user", "pass", "tls"} = {}
    BY <1>1, NoListNames DEF PoolsInv, Going, ListsInv
  <2>4. \A k \in {"pool", "user", "pass", "tls"} : k \in seen' <=> lists[k] # <<>>
    BY <2>1, <2>2, <2>3
  <2>5. pools' \in Seq(PoolEntry) /\ Len(pools') = 0
    BY <1>1, <2>3, EmptySeq
  <2>6. BoundInv'
    <3>1. lists'.pool \in Seq(PoolWords.pool)
      BY DEF ListsType
    <3>2. Len(pools') <= Len(lists'.pool) /\ 1 .. Len(pools') = {}
      BY <2>5, <3>1, LenNotEmpty
    <3> QED BY <2>5, <3>2, Zenon DEF BoundInv
  <2>7. ListsInv'
    <3>1. /\ "pool" \in seen' <=> lists'.pool # <<>>
          /\ \A k \in {"user", "pass", "tls"} : k \in seen' <=> lists'[k] # <<>>
      BY <1>1, <2>4
    <3> QED BY <1>1, <1>3, <2>3, <3>1 DEF ListsInv
  <2> QED BY <2>6, <2>7 DEF PoolsInv
<1> QED BY <1>2, <1>3 DEF EndOfArgs, Refuse

LEMMA BindPools == ASSUME PoolsInv, ListsType', BindPool PROVE PoolsInv'
<1>1. /\ stage = "bind" /\ Len(pools) < Len(lists.pool) /\ UNCHANGED <<seen, lists, cliPools>>
  BY DEF BindPool, cliVars
<1>2. CASE Refuse
  BY <1>2 DEF PoolsInv, Going, Refuse
<1>3. CASE ~Refuse
  <2>0. PICK n : n = Len(pools)
    OBVIOUS
  <2>1. /\ UNCHANGED stage /\ pools' = Append(pools, CliPool(n + 1)) /\ CliPool(n + 1).user # ""
    BY <1>3, <2>0 DEF BindPool
  <2>2. BoundInv /\ ListsInv /\ ListsType
    BY <1>1 DEF PoolsInv, Going
  <2>3. /\ pools \in Seq(PoolEntry) /\ n \in Nat /\ Len(lists.pool) \in Nat
        /\ lists.pool # <<>>
    <3>1. lists.pool \in Seq(PoolWords.pool) /\ pools \in Seq(PoolEntry)
      BY <2>2 DEF BoundInv, ListsType
    <3>2. Len(lists.pool) \in Nat /\ n \in Nat /\ (Len(lists.pool) = 0 <=> lists.pool = <<>>)
      BY <2>0, <3>1, LenNotEmpty
    <3> QED BY <1>1, <2>0, <3>1, <3>2
  <2>4. n + 1 \in 1 .. Len(lists.pool)
    BY <1>1, <2>0, <2>3
  <2>5. CliPool(n + 1) \in PoolEntry
    BY <2>2, <2>4, CliPoolIs
  <2>6. /\ pools' \in Seq(PoolEntry) /\ Len(pools') = n + 1
        /\ \A i \in 1 .. n : pools'[i] = pools[i]
        /\ pools'[n + 1] = CliPool(n + 1)
    <3>1. PICK e \in PoolEntry : e = CliPool(n + 1)
      BY <2>5
    <3>2. pools \in Seq(PoolEntry) /\ pools' = Append(pools, e)
      BY <2>1, <2>3, <3>1
    <3>3. /\ pools' \in Seq(PoolEntry) /\ Len(pools') = Len(pools) + 1
          /\ \A i \in 1 .. Len(pools) : pools'[i] = pools[i]
          /\ pools'[Len(pools) + 1] = e
      BY <3>2, AppendProperties
    <3> QED BY <2>0, <3>1, <3>3
  <2>7. \A i \in 1 .. n + 1 : pools'[i] = CliPool(i) /\ pools'[i].user # ""
    <3>1. \A i \in 1 .. n : pools[i] = CliPool(i) /\ pools[i].user # ""
      BY <2>0, <2>2, <2>3 DEF BoundInv
    <3> SUFFICES ASSUME NEW i \in 1 .. n + 1 PROVE pools'[i] = CliPool(i) /\ pools'[i].user # ""
      OBVIOUS
    <3>2. CASE i \in 1 .. n
      BY <3>1, <3>2, <2>6
    <3>3. CASE i = n + 1
      BY <3>3, <2>1, <2>6
    <3>4. n \in Nat
      BY <2>3
    <3>5. i \in 1 .. n \/ i = n + 1
      BY <3>4
    <3> QED BY <3>2, <3>3, <3>5
  <2>8. BoundInv'
    <3>1. Len(pools') <= Len(lists.pool)
      BY <2>3, <2>4, <2>6
    <3>2. \A i : CliPool(i)' = CliPool(i)
      BY <1>1, CliPoolStays
    <3>3. \A i \in 1 .. Len(pools') : pools'[i] = CliPool(i)' /\ pools'[i].user # ""
      BY <2>6, <2>7, <3>2, Zenon
    <3>4. UNCHANGED lists /\ pools' \in Seq(PoolEntry) /\ lists.pool # <<>>
      BY <1>1, <2>3, <2>6
    <3> QED BY <3>1, <3>3, <3>4, Zenon DEF BoundInv
  <2>9. ListsInv'
    BY <1>1, <2>1, <2>2, <2>3 DEF ListsInv
  <2> QED BY <2>8, <2>9 DEF PoolsInv
<1> QED BY <1>2, <1>3

\* A step that leaves the pools, and the flags of three lists, as they were.
LEMMA PoolsKept ==
  ASSUME PoolsInv, Going, ListsType', UNCHANGED <<pools, lists>>,
         stage' \in {"answered", "refused"} \/ ListsInv'
  PROVE  PoolsInv'
<1>1. BoundInv
  BY DEF PoolsInv
<1>2. BoundInv'
  BY <1>1, CliPoolStays, Zenon DEF BoundInv
<1> QED BY <1>2 DEF PoolsInv, Going

LEMMA LaterPools ==
  ASSUME PoolsInv, ListsType', FieldMaps,
         Parsed \/ OpenJson \/ OpenFlat \/ ApplyRow \/ NoFilePools \/ ResolveImplied \/ Gates
  PROVE  PoolsInv'
<1>1. /\ stage \notin {"scan", "answered", "refused"} /\ Going /\ UNCHANGED <<pools, lists>>
  BY Zenon DEF Parsed, OpenJson, OpenFlat, OpenFile, ApplyRow, NoFilePools, ResolveImplied, Gates, Going, cliVars
<1>2. ListsInv /\ BoundInv /\ ListsType
  BY <1>1 DEF PoolsInv
<1>3. CASE stage' \in {"answered", "refused"}
  BY <1>1, <1>3, PoolsKept
<1>4. CASE Parsed /\ stage' \notin {"answered", "refused"}
  <2>1. /\ stage = "bind" /\ Len(pools) = Len(lists.pool) /\ UNCHANGED seen
        /\ stage' \in {"implied", "open"}
    BY <1>4 DEF Parsed, cliVars
  <2>2. cliPools' <=> "pool" \in seen
    BY <1>4, Zenon DEF Parsed
  <2>3. cliPools' <=> lists.pool # <<>>
    BY <1>2, <2>1, <2>2 DEF ListsInv
  <2>4. ListsInv'
    BY <1>1, <1>2, <2>1, <2>3 DEF ListsInv
  <2> QED BY <1>1, <2>4, PoolsKept
<1>5. CASE (OpenJson \/ OpenFlat \/ ApplyRow \/ NoFilePools \/ ResolveImplied \/ Gates)
           /\ stage' \notin {"answered", "refused"}
  <2>1. UNCHANGED cliPools
    BY <1>5 DEF OpenJson, OpenFlat, OpenFile, ApplyRow, NoFilePools, ResolveImplied, Gates
  <2>2. /\ \/ stage \in {"open", "rows"} /\ stage' \in {"rows", "implied"}
           \/ stage = "implied" /\ stage' = "gates"
           \/ stage = "gates" /\ stage' = "run"
        /\ stage' # "run" \/ Gates
    <3>1. CASE ApplyRow
      <4>1. stage = "rows" /\ (UNCHANGED stage \/ Refuse)
        BY <3>1, Zenon DEF ApplyRow, TakeRow
      <4> QED BY <1>5, <4>1 DEF Refuse
    <3>2. CASE ~ApplyRow
      BY <1>5, <3>2 DEF OpenJson, OpenFlat, OpenFile, NoFilePools, ResolveImplied, Gates, Refuse
    <3> QED BY <3>1, <3>2
  <2>3. \A k \in PoolFlags : k \in seen' <=> k \in seen
    <3>1. CASE ApplyRow
      <4>1. row \in 1 .. 33
        BY <3>1, RowAt DEF ApplyRow, FieldMaps
      <4>2. seen' = seen \/ seen' = seen \cup {RowSeen(TableRows[row])}
        BY <3>1, Zenon DEF ApplyRow, TakeRow
      <4>3. RowSeen(TableRows[row]) \in RowFields
        BY <4>1, RowFieldsAre DEF RowSeen
      <4> QED BY <4>2, <4>3, RowFieldsAre DEF PoolFlags
    <3>2. CASE ~ApplyRow
      BY <1>5, <3>2 DEF OpenJson, OpenFlat, OpenFile, NoFilePools, ResolveImplied, Gates, cliVars, Refuse, PoolFlags
    <3> QED BY <3>1, <3>2
  <2>4. stage' = "run" => ~Refusals'
    <3> SUFFICES ASSUME stage' = "run" PROVE ~Refusals'
      OBVIOUS
    <3>1. Gates
      BY <2>2
    <3>2. ~Refusals /\ UNCHANGED <<opts, seen, pools>>
      BY <3>1 DEF Gates, cliVars
    <3> QED BY <3>2 DEF Refusals, Measures, Benchmarks
  <2>5. ListsInv'
    <3>1. /\ "pool" \in seen' <=> "pool" \in seen
          /\ \A k \in {"user", "pass", "tls"} : k \in seen' <=> k \in seen
      BY <2>3 DEF PoolFlags
    <3> QED BY <1>1, <1>2, <2>1, <2>2, <2>4, <3>1 DEF ListsInv
  <2> QED BY <1>1, <2>5, PoolsKept
<1> QED BY <1>3, <1>4, <1>5

LEMMA Widened ==
  ASSUME NEW S, NEW T, S \subseteq T, NEW s \in Seq(S)
  PROVE  s \in Seq(T)
<1>1. s \in [1 .. Len(s) -> S] /\ Len(s) \in Nat
  BY LenProperties
<1>2. s \in [1 .. Len(s) -> T]
  BY <1>1
<1> QED BY <1>1, <1>2, SeqDef

LEMMA FilePoolsStep == ASSUME PoolsInv, ListsType', JsonPools \/ FlatPool PROVE PoolsInv'
<1>1. stage = "rows" /\ UNCHANGED <<lists, cliPools>> /\ "pool" \notin seen
  BY FilePoolsAre
<1>2. CASE stage' = "refused"
  BY <1>2 DEF PoolsInv, Going
<1>3. CASE /\ stage' = "implied" /\ seen' = seen \cup {"pool"}
           /\ pools' \in Seq(PoolEntry)
           /\ \A i \in 1 .. Len(pools') : FromFile(pools'[i])
  <2>1. ListsInv
    BY <1>1 DEF PoolsInv, Going
  <2>2. lists.pool = <<>> /\ ~cliPools
    BY <1>1, <2>1 DEF ListsInv
  <2>3. BoundInv'
    <3>1. lists'.pool = <<>>
      BY <1>1, <2>2
    <3>2. \A i \in 1 .. Len(pools') : FromFile(pools'[i])
      BY <1>3
    <3> QED BY <1>3, <3>1, <3>2, Zenon DEF BoundInv
  <2>4. \A k \in {"user", "pass", "tls"} : k \in seen' <=> lists'[k] # <<>>
    BY <1>1, <1>3, <2>1 DEF ListsInv
  <2>5. ListsInv'
    BY <1>1, <1>3, <2>2, <2>4 DEF ListsInv
  <2> QED BY <2>3, <2>5 DEF PoolsInv
<1> QED BY <1>2, <1>3, FilePoolsAre

LEMMA PoolsStep == MergeInv /\ PoolsInv /\ [OptionsNext]_optionVars => PoolsInv'
<1> SUFFICES ASSUME MergeInv, PoolsInv, [OptionsNext]_optionVars PROVE PoolsInv'
  OBVIOUS
<1>0. ListsType' /\ FieldMaps
  BY ListsTypeStep DEF PoolsInv, MergeInv
<1>1. CASE UNCHANGED optionVars
  <2>1. UNCHANGED <<pools, lists, stage, seen, cliPools, opts>>
    BY <1>1 DEF optionVars
  <2>2. CASE Going
    <3>1. ListsInv
      BY <2>2 DEF PoolsInv
    <3>2. ListsInv'
      BY <2>1, <3>1 DEF ListsInv, Refusals, Measures, Benchmarks
    <3> QED BY <1>0, <2>1, <2>2, <3>2, PoolsKept
  <2>3. CASE ~Going
    BY <1>0, <2>1, <2>3 DEF PoolsInv, Going
  <2> QED BY <2>2, <2>3
<1>2. CASE Ended
  BY <1>1, <1>2 DEF Ended
<1>3. CASE OptionsNext
  BY <1>0, <1>2, <1>3, ArgumentPools, EndOfArgsPools, BindPools, LaterPools, FilePoolsStep
     DEF OptionsNext
<1> QED BY <1>1, <1>3

LEMMA PoolsStart == OptionsInit => PoolsInv
<1> SUFFICES ASSUME OptionsInit PROVE PoolsInv
  OBVIOUS
<1>1. stage = "scan" /\ pools = <<>> /\ seen = {} /\ lists = NoLists
  BY DEF OptionsInit
<1>2. lists.pool = <<>>
  BY <1>1 DEF NoLists
<1>3. BoundInv
  <2>1. pools \in Seq(PoolEntry) /\ Len(pools) = 0
    BY <1>1, EmptySeq
  <2>2. 1 .. Len(pools) = {}
    BY <2>1
  <2> QED BY <1>2, <2>1, <2>2, Zenon DEF BoundInv
<1>4. ListsInv
  BY <1>1 DEF ListsInv
<1> QED BY <1>3, <1>4, ListsTypeInit DEF PoolsInv

LEMMA SideIsOne == PoolsInv => PoolsFromOneSide
<1> SUFFICES ASSUME PoolsInv, stage = "run", ~Measures, ~opts.list_devices
             PROVE  /\ pools # <<>>
                    /\ \A p \in ToSet(pools) :
                         /\ p.from = (IF lists.pool = <<>> THEN "file" ELSE "cli")
                         /\ p.user \in (IF p.from = "cli" THEN ToSet(lists.user) ELSE {"carol"})
                                       \cup (IF IsLoopback(p.host) THEN {DefaultUser} ELSE {})
                         /\ p.pass \in (IF p.from = "cli" THEN ToSet(lists.pass) \cup {""} ELSE {"kept"})
                         /\ p.from = "cli" /\ ~p.tls /\ ~IsLoopback(p.host) => FALSE \in ToSet(lists.tls)
  BY Zenon DEF PoolsFromOneSide
<1>1. BoundInv /\ ListsInv /\ ListsType
  BY DEF PoolsInv, Going
<1>2. pools # <<>>
  BY <1>1 DEF ListsInv, Refusals
<1>3. ASSUME NEW i \in DOMAIN pools
      PROVE  /\ pools[i].from = (IF lists.pool = <<>> THEN "file" ELSE "cli")
             /\ pools[i].user \in (IF pools[i].from = "cli" THEN ToSet(lists.user) ELSE {"carol"})
                                  \cup (IF IsLoopback(pools[i].host) THEN {DefaultUser} ELSE {})
             /\ pools[i].pass \in (IF pools[i].from = "cli" THEN ToSet(lists.pass) \cup {""} ELSE {"kept"})
             /\ pools[i].from = "cli" /\ ~pools[i].tls /\ ~IsLoopback(pools[i].host)
                  => FALSE \in ToSet(lists.tls)
  <2>1. i \in 1 .. Len(pools)
    BY <1>1, LenProperties DEF BoundInv
  <2>2. CASE lists.pool = <<>>
    <3>1. FromFile(pools[i])
      BY <1>1, <2>1, <2>2 DEF BoundInv
    <3>2. pools[i].from = "file" /\ "file" # "cli"
      BY <3>1 DEF FromFile
    <3> QED BY <2>2, <3>1, <3>2, Zenon DEF FromFile
  <2>3. CASE lists.pool # <<>>
    <3>1. pools[i] = CliPool(i) /\ pools[i].user # "" /\ Len(pools) = Len(lists.pool)
      BY <1>1, <2>1, <2>3 DEF BoundInv, ListsInv
    <3>2. i \in 1 .. Len(lists.pool)
      BY <2>1, <3>1
    <3>3. /\ pools[i].from = "cli"
          /\ pools[i].user \in ToSet(lists.user) \cup (IF IsLoopback(pools[i].host) THEN {DefaultUser} ELSE {})
          /\ pools[i].pass \in ToSet(lists.pass) \cup {""}
          /\ ~pools[i].tls /\ ~IsLoopback(pools[i].host) => FALSE \in ToSet(lists.tls)
      BY <1>1, <3>1, <3>2, CliPoolIs, Zenon
    <3> QED BY <2>3, <3>3, Zenon
  <2> QED BY <2>2, <2>3
<1>4. ToSet(pools) = {pools[i] : i \in DOMAIN pools}
  BY DEF ToSet
<1> QED BY <1>2, <1>3, <1>4, Zenon

LEMMA IgnoredIsSaid ==
  ASSUME PoolsInv, Settled
  PROVE  SaysIgnored <=> /\ lists.user \o lists.pass # <<>> \/ lists.tls # <<>>
                         /\ pools # <<>>
                         /\ \A p \in ToSet(pools) : p.from = "file"
<1>1. BoundInv /\ ListsInv /\ ListsType
  BY DEF PoolsInv, Going, Settled
<1>2. \A k \in {"user", "pass", "tls"} : k \in seen <=> lists[k] # <<>>
  BY <1>1 DEF ListsInv, Settled
<1>3. cliPools <=> lists.pool # <<>>
  BY <1>1 DEF ListsInv, Settled
<1>4. lists.user \o lists.pass # <<>> <=> lists.user # <<>> \/ lists.pass # <<>>
  <2> DEFINE S == PoolWords.user \cup PoolWords.pass
  <2>1. lists.user \in Seq(S) /\ lists.pass \in Seq(S)
    <3>1. lists.user \in Seq(PoolWords.user) /\ lists.pass \in Seq(PoolWords.pass)
      BY <1>1 DEF ListsType
    <3> QED BY <3>1, Widened
  <2>2. /\ lists.user \o lists.pass \in Seq(S)
        /\ Len(lists.user \o lists.pass) = Len(lists.user) + Len(lists.pass)
    BY <2>1, ConcatProperties
  <2> HIDE DEF S
  <2>3. /\ Len(lists.user) \in Nat /\ (Len(lists.user) = 0 <=> lists.user = <<>>)
        /\ Len(lists.pass) \in Nat /\ (Len(lists.pass) = 0 <=> lists.pass = <<>>)
        /\ Len(lists.user \o lists.pass) = 0 <=> lists.user \o lists.pass = <<>>
    BY <2>1, <2>2, LenNotEmpty
  <2> QED BY <2>2, <2>3
<1>5. seen \cap {"user", "pass", "tls"} # {} <=> lists.user \o lists.pass # <<>> \/ lists.tls # <<>>
  BY <1>2, <1>4
<1>6. CASE pools = <<>>
  BY <1>6, Zenon DEF SaysIgnored
<1>7. CASE pools # <<>>
  <2>1. DOMAIN pools = 1 .. Len(pools) /\ 1 \in DOMAIN pools
    <3>1. pools \in Seq(PoolEntry)
      BY <1>1 DEF BoundInv
    <3>2. DOMAIN pools = 1 .. Len(pools) /\ Len(pools) \in Nat /\ Len(pools) # 0
      BY <1>7, <3>1, LenProperties, LenNotEmpty
    <3> QED BY <3>2
  <2>2. lists.pool = <<>> => \A i \in DOMAIN pools : pools[i].from = "file"
    BY <1>1, <2>1 DEF BoundInv, FromFile
  <2>3. lists.pool # <<>> => pools[1].from = "cli"
    <3>1. SUFFICES ASSUME lists.pool # <<>> PROVE pools[1].from = "cli"
      OBVIOUS
    <3>2. pools[1] = CliPool(1) /\ Len(pools) = Len(lists.pool)
      BY <1>1, <2>1, <3>1 DEF BoundInv, ListsInv, Settled
    <3>3. 1 \in 1 .. Len(lists.pool)
      BY <2>1, <3>2
    <3> QED BY <1>1, <3>2, <3>3, CliPoolIs
  <2>4. (\A p \in ToSet(pools) : p.from = "file") <=> \A i \in DOMAIN pools : pools[i].from = "file"
    BY Zenon DEF ToSet
  <2>5. (\A p \in ToSet(pools) : p.from = "file") <=> lists.pool = <<>>
    <3>1. "cli" # "file"
      OBVIOUS
    <3> QED BY <2>1, <2>2, <2>3, <2>4, <3>1, Zenon
  <2> QED BY <1>3, <1>5, <1>7, <2>5, Zenon DEF SaysIgnored
<1> QED BY <1>6, <1>7

LEMMA OptionsInvariant == OptionsSpec => [](ListsType /\ MergeInv /\ PoolsInv)
<1>1. OptionsInit => ListsType /\ MergeInv /\ PoolsInv
  BY ListsTypeInit, MergeStarts, PoolsStart
<1>2. ListsType /\ MergeInv /\ PoolsInv /\ [OptionsNext]_optionVars
      => (ListsType /\ MergeInv /\ PoolsInv)'
  BY ListsTypeStep, MergeStep, PoolsStep
<1> QED BY <1>1, <1>2, PTL DEF OptionsSpec

(* CredentialsAreUsedOrNoted: all pools of a run are of one side, each with    *)
(* credentials of that side, and typed credentials that went nowhere are       *)
(* announced (parse_args' binding loop, the loaders' pools, main()).           *)
THEOREM CredentialsGoOrAreNoted == OptionsSpec => []CredentialsAreUsedOrNoted
<1>1. PoolsInv => CredentialsAreUsedOrNoted
  BY SideIsOne, IgnoredIsSaid, Zenon DEF CredentialsAreUsedOrNoted
<1> QED BY <1>1, OptionsInvariant, PTL

-----------------------------------------------------------------------------
(***************************************************************************)
(* Session.                                                                *)
(***************************************************************************)

(***************************************************************************)
(* The table: row p is of one card, whichever driver runs it.               *)
(***************************************************************************)
Rows == 1 .. Len(table)
SomePaths == {"cuda", "opencl"}

Fixed ==
  /\ rig \in Rigs
  /\ backend \in {"auto", "cuda", "opencl", "ref"}
  /\ mode \in {"mine", "bench", "report"}
  /\ table = JoinDevices

LEMMA RigLists ==
  ASSUME rig \in Rigs
  PROVE  /\ rig.cuda \in Seq([card : Nvidia, viable : BOOLEAN])
         /\ Len(rig.cuda) \in Nat /\ DOMAIN rig.cuda = 1 .. Len(rig.cuda)
         /\ \A i, j \in DOMAIN rig.cuda : rig.cuda[i].card = rig.cuda[j].card => i = j
         /\ Len(rig.cl) \in Nat /\ DOMAIN rig.cl = 1 .. Len(rig.cl)
         /\ Len(rig.nvml) \in Nat /\ DOMAIN rig.nvml = 1 .. Len(rig.nvml)
         /\ \A i \in DOMAIN rig.cl : rig.cl[i].card \in Cards /\ rig.cl[i].pci \in BOOLEAN
         /\ \A i \in DOMAIN rig.nvml : rig.nvml[i].card \in Cards
         /\ (rig.cuda = <<>> <=> Len(rig.cuda) = 0)
<1> DEFINE A == [card : Nvidia, viable : BOOLEAN]
           B == [card : Cards, pci : BOOLEAN, named : BOOLEAN]
           C == [card : Nvidia, pci : BOOLEAN]
<1>1. /\ rig.cuda \in Seq(A) /\ rig.cl \in Seq(B) /\ rig.nvml \in Seq(C)
      /\ \A i, j \in DOMAIN rig.cuda : rig.cuda[i].card = rig.cuda[j].card => i = j
  BY SessionAssumption
<1>2. /\ \A a \in A : a.card \in Nvidia
      /\ \A b \in B : b.card \in Cards /\ b.pci \in BOOLEAN
      /\ \A c \in C : c.card \in Nvidia
  OBVIOUS
<1> HIDE DEF A, B, C
<1>3. /\ Len(rig.cuda) \in Nat /\ DOMAIN rig.cuda = 1 .. Len(rig.cuda)
      /\ Len(rig.cl) \in Nat /\ DOMAIN rig.cl = 1 .. Len(rig.cl)
      /\ Len(rig.nvml) \in Nat /\ DOMAIN rig.nvml = 1 .. Len(rig.nvml)
  BY <1>1, LenProperties
<1>4. \A i \in 1 .. Len(rig.cl) : rig.cl[i] \in B
  BY <1>1, ElementOfSeq
<1>5. \A i \in 1 .. Len(rig.nvml) : rig.nvml[i] \in C
  BY <1>1, ElementOfSeq
<1>6. rig.cuda = <<>> <=> Len(rig.cuda) = 0
  BY <1>1, EmptySeq
<1>7. Nvidia \subseteq Cards
  BY DEF Cards
<1>8. \A i \in DOMAIN rig.cl : rig.cl[i].card \in Cards /\ rig.cl[i].pci \in BOOLEAN
  BY <1>2, <1>3, <1>4
<1>9. \A i \in DOMAIN rig.nvml : rig.nvml[i].card \in Cards
  BY <1>2, <1>3, <1>5, <1>7
<1> QED BY <1>1, <1>3, <1>6, <1>8, <1>9 DEF A

LEMMA TableMembers ==
  ASSUME Fixed
  PROVE  /\ Len(table) \in Nat /\ DOMAIN table = Rows
         /\ rig.cuda # <<>> => /\ Rows = DOMAIN rig.cuda
                               /\ \A p \in Rows : table[p] = JoinCuda(p)
         /\ rig.cuda = <<>> => /\ Rows = DOMAIN rig.cl
                               /\ \A p \in Rows : table[p] = JoinCl(p)
<1> USE RigLists DEF Fixed
<1>1. CASE rig.cuda # <<>>
  <2>1. table = [i \in 1 .. Len(rig.cuda) |-> JoinCuda(i)]
    BY <1>1 DEF JoinDevices
  <2> HIDE DEF Fixed
  <2>2. Len(table) = Len(rig.cuda) /\ DOMAIN table = 1 .. Len(rig.cuda)
    BY <2>1
  <2> QED BY <1>1, <2>1, <2>2 DEF Rows
<1>2. CASE rig.cuda = <<>>
  <2>1. table = [i \in 1 .. Len(rig.cl) |-> JoinCl(i)]
    BY <1>2 DEF JoinDevices
  <2> HIDE DEF Fixed
  <2>2. Len(table) = Len(rig.cl) /\ DOMAIN table = 1 .. Len(rig.cl)
    BY <2>1
  <2> QED BY <1>2, <2>1, <2>2 DEF Rows
<1> QED BY <1>1, <1>2

LEMMA CudaRow ==
  ASSUME Fixed, rig.cuda # <<>>, NEW p \in Rows
  PROVE  LET c == rig.cuda[p].card
             twins == Twins(c)
             crossed == NvmlDisagrees(p, c, TRUE)
             match == ~crossed /\ WantOpenCl /\ Cardinality(twins) = 1
                      /\ \A d \in twins : rig.cl[d].named
         IN /\ table[p].card = c
            /\ table[p].backend \in {"cuda", "opencl", "none"}
            /\ table[p].cl = IF match THEN CHOOSE d \in twins : TRUE ELSE 0
            /\ crossed => table[p].degraded
            /\ table[p].backend = "opencl" => match
            /\ crossed /\ table[p].backend = "cuda" /\ backend # "cuda" => table[p].reason
<1>1. table[p] = JoinCuda(p)
  BY TableMembers
<1> DEFINE c == rig.cuda[p].card
           twins == Twins(c)
           crossed == NvmlDisagrees(p, c, TRUE)
           look == ~crossed /\ WantOpenCl
           named == \A d \in twins : rig.cl[d].named
           match == look /\ Cardinality(twins) = 1 /\ named
           chosen == CHOOSE d \in twins : TRUE
           degraded == crossed \/ (look /\ twins # {} /\ ~match)
           runs == IF WantCuda /\ rig.cuda[p].viable THEN "cuda"
                   ELSE IF match THEN "opencl" ELSE "none"
           reason == IF runs = "none" THEN WantCuda \/ WantOpenCl
                     ELSE runs = "cuda" /\ backend # "cuda" /\ degraded
<1>2. JoinCuda(p) = [card |-> c, pci |-> TRUE, backend |-> runs, cuda |-> p,
                     cl |-> IF match THEN chosen ELSE 0,
                     degraded |-> degraded, reason |-> reason]
  BY Zenon DEF JoinCuda
<1> HIDE DEF c, twins, crossed, look, named, match, chosen, degraded, runs, reason
<1>3. /\ table[p].card = c
      /\ table[p].backend = runs
      /\ table[p].cl = IF match THEN chosen ELSE 0
  BY <1>1, <1>2
<1>4. table[p].degraded = degraded
  BY <1>1, <1>2
<1>5. table[p].reason = reason
  BY <1>1, <1>2
<1>6. crossed => table[p].degraded
  BY <1>4, Zenon DEF degraded
<1>7. table[p].backend = "opencl" => match
  BY <1>3 DEF runs
<1>8. crossed /\ table[p].backend = "cuda" /\ backend # "cuda" => table[p].reason
  <2>1. crossed /\ runs = "cuda" /\ backend # "cuda" => reason
    BY DEF reason, degraded
  <2> QED BY <2>1, <1>3, <1>5, Zenon
<1>9. runs \in {"cuda", "opencl", "none"}
  BY DEF runs
<1> QED BY <1>3, <1>6, <1>7, <1>8, <1>9 DEF c, twins, crossed, look, named, match, chosen

LEMMA ClRow ==
  ASSUME Fixed, rig.cuda = <<>>, NEW p \in Rows
  PROVE  /\ table[p].card = rig.cl[p].card /\ table[p].cl = p
         /\ table[p].pci = rig.cl[p].pci
         /\ table[p].backend \in {"opencl", "none"}
         /\ NvmlDisagrees(p, table[p].card, table[p].pci) => table[p].degraded /\ table[p].reason
<1>1. table[p] = JoinCl(p)
  BY TableMembers
<1> DEFINE crossed == NvmlDisagrees(p, rig.cl[p].card, rig.cl[p].pci)
           reason == crossed \/ backend = "cuda"
           runs == IF WantOpenCl THEN "opencl" ELSE "none"
           known == rig.cl[p].pci
<1>2. JoinCl(p) = [card |-> rig.cl[p].card, pci |-> known, backend |-> runs,
                   cuda |-> 0, cl |-> p, degraded |-> crossed, reason |-> reason]
  BY Zenon DEF JoinCl
<1>3. known = rig.cl[p].pci
  OBVIOUS
<1> HIDE DEF crossed, reason, runs, known
<1>4. /\ table[p].card = rig.cl[p].card /\ table[p].cl = p
      /\ table[p].backend = runs
  BY <1>1, <1>2
<1>5. table[p].pci = known
  BY <1>1, <1>2
<1>6. table[p].degraded = crossed /\ table[p].reason = reason
  BY <1>1, <1>2
<1>7. NvmlDisagrees(p, table[p].card, table[p].pci) = crossed
  BY <1>4, <1>5, Zenon DEF crossed, known
<1>8. crossed => reason
  BY DEF reason
<1>9. NvmlDisagrees(p, table[p].card, table[p].pci) => table[p].degraded /\ table[p].reason
  BY <1>6, <1>7, <1>8, Zenon
<1>10. runs \in {"opencl", "none"}
  BY DEF runs
<1>11. table[p].pci = rig.cl[p].pci
  BY <1>3, <1>5
<1> QED BY <1>4, <1>11, <1>9, <1>10, Zenon

\* The OpenCL device a CUDA row falls back to is on the bus of that very card.
LEMMA MatchIsThisCard ==
  ASSUME Fixed, rig.cuda # <<>>, NEW p \in Rows, table[p].cl # 0
  PROVE  rig.cl[table[p].cl].card = table[p].card
<1> DEFINE twins == Twins(rig.cuda[p].card)
<1>1. /\ table[p].card = rig.cuda[p].card
      /\ Cardinality(twins) = 1
      /\ table[p].cl = CHOOSE d \in twins : TRUE
  <2> HIDE DEF twins
  <2> QED BY CudaRow DEF twins
<1>2. twins # {}
  BY <1>1, FS_EmptySet
<1>3. table[p].cl \in twins
  <2> HIDE DEF twins
  <2> QED BY <1>1, <1>2
<1> QED BY <1>1, <1>3 DEF Twins

\* A solver built for row p drives the card of row p, by either path.
LEMMA BuiltIsItsCard ==
  ASSUME Fixed, NEW p \in Rows, NEW path \in Paths(p)
  PROVE  /\ path \in SomePaths
         /\ Built(p, path).card = table[p].card
         /\ Built(p, path).pos = p /\ Built(p, path).path = path
<1>1. path \in SomePaths
  BY DEF Paths, SomePaths
<1>2. Built(p, path).card = table[p].card
  <2>1. CASE rig.cuda # <<>>
    <3>1. table[p] = JoinCuda(p)
      BY <2>1, TableMembers
    <3>2. CASE path = "cuda"
      BY <3>1, <3>2 DEF JoinCuda, Built
    <3>3. CASE path = "opencl"
      <4>1. table[p].cl # 0
        BY <3>3 DEF Paths
      <4> QED BY <4>1, <3>3, <2>1, MatchIsThisCard DEF Built
    <3> QED BY <1>1, <3>2, <3>3 DEF SomePaths
  <2>2. CASE rig.cuda = <<>>
    <3>2. table[p].backend # "cuda" /\ table[p].cl = p /\ table[p].card = rig.cl[p].card
      BY <2>2, ClRow
    <3>3. path = "opencl"
      BY <3>2, <1>1 DEF Paths, SomePaths
    <3> QED BY <3>2, <3>3 DEF Built
  <2> QED BY <2>1, <2>2
<1> QED BY <1>1, <1>2 DEF Built

\* Where CUDA lists the cards, two rows are of two cards.
LEMMA RowsAreCards ==
  ASSUME Fixed, rig.cuda # <<>>, NEW p \in Rows, NEW q \in Rows, table[p].card = table[q].card
  PROVE  p = q
<1>1. /\ table[p].card = rig.cuda[p].card /\ table[q].card = rig.cuda[q].card
      /\ p \in DOMAIN rig.cuda /\ q \in DOMAIN rig.cuda
  <2>1. table[p] = JoinCuda(p) /\ table[q] = JoinCuda(q) /\ Rows = DOMAIN rig.cuda
    BY TableMembers
  <2> QED BY <2>1 DEF JoinCuda
<1>2. rig \in Rigs
  BY DEF Fixed
<1> QED BY <1>1, <1>2, RigLists

\* A row that runs while NVML's entry disagrees has a warning to print.
LEMMA MisaimSpeaks ==
  ASSUME Fixed, backend # "cuda", NEW p \in Rows, NEW path \in Paths(p),
         OnNvml(p), rig.nvml[p].pci, table[p].pci, NvmlCard(p) # table[p].card
  PROVE  Speaks(p)
<1>1. table[p].backend # "none"
  BY DEF Paths
<1>2. CASE rig.cuda # <<>>
  <2>1. table[p].card = rig.cuda[p].card
    BY <1>2, CudaRow
  <2>2. NvmlDisagrees(p, rig.cuda[p].card, TRUE)
    BY <2>1 DEF NvmlDisagrees, OnNvml, NvmlCard
  <2>3. table[p].degraded /\ table[p].backend # "opencl"
    BY <2>2, <1>2, CudaRow
  <2>4. table[p].backend \in {"cuda", "opencl"}
    BY <1>1, <1>2, CudaRow
  <2>5. table[p].reason
    BY <2>2, <2>3, <2>4, <1>2, CudaRow
  <2> QED BY <2>3, <2>5 DEF Speaks
<1>3. CASE rig.cuda = <<>>
  <2>1. NvmlDisagrees(p, table[p].card, table[p].pci)
    BY DEF NvmlDisagrees, OnNvml, NvmlCard
  <2> QED BY <2>1, <1>3, ClRow DEF Speaks
<1> QED BY <1>2, <1>3

(***************************************************************************)
(* The cards: what is selected, what is built and what stands at a row.    *)
(***************************************************************************)
Early == {"join", "select", "resolve", "oc"}
Distinct(s) == \A i, j \in 1 .. Len(s) : s[i] = s[j] => i = j
BuiltSet == {Built(p, path) : p \in Rows, path \in SomePaths}

\* Solver k was built for row positions[k], and a row with a warning has printed it.
Aligned ==
  /\ solvers \in Seq(BuiltSet) /\ Len(solvers) = Len(positions)
  /\ \A k \in 1 .. Len(positions) :
       /\ \E path \in Paths(positions[k]) : solvers[k] = Built(positions[k], path)
       /\ Speaks(positions[k]) => positions[k] \in told

SetUp ==
  /\ rig \in Rigs
  /\ backend \in {"auto", "cuda", "opencl", "ref"}
  /\ mode \in {"mine", "bench", "report"}
  /\ table = IF pc = "join" THEN <<>> ELSE JoinDevices

SelectedInv ==
  /\ selected \in Seq(Rows) /\ Distinct(selected)
  /\ pc \in {"join", "select"} => selected = <<>>
  /\ next \in Nat \ {0}

EarlyInv ==
  pc \in Early => /\ solvers = <<>> /\ labels = <<>> /\ positions = <<>>
                  /\ limit = [c \in Cards |-> Stock] /\ pl = NoLimit

CapsLanded ==
  LET targets == {p \in ToSet(OcTargets) : OnNvml(p)} IN
    /\ \A c \in Cards : limit[c] # Stock =>
         \E p \in targets : NvmlCard(p) = c /\ (limit[c] = IF pl.auto THEN Stored[c] ELSE pl.list[p])
    /\ pl.auto /\ HaveNvml =>
         \A p \in targets \ denied : limit[NvmlCard(p)] = Stored[NvmlCard(p)]

BuiltInv ==
  /\ positions \in Seq(Rows) /\ Distinct(positions)
  /\ \/ Aligned
     \/ solvers = <<Reference>> /\ positions = <<>>
     \/ solvers = <<>>

\* The rows built for come from the part of the selection already walked.
BuildInv ==
  pc = "build" =>
    /\ Aligned
    /\ \A k \in 1 .. Len(positions) :
         \E j \in 1 .. Len(selected) : j < next /\ positions[k] = selected[j]
    /\ Measuring => next <= 2 /\ Len(positions) < next

\* A failed rebuild leaves the name of an earlier row, never of the one to come.
ReportInv ==
  /\ pc \in {"report", "measure"} =>
       /\ Len(positions) <= 1
       /\ positions # <<>> =>
            \E j \in 1 .. Len(selected) :
              /\ j <= next /\ positions[1] = selected[j]
              /\ solvers = <<>> => j < next
       /\ solvers # <<>> => Aligned \/ positions = <<>>
  /\ pc = "measure" => /\ Aligned /\ Len(positions) = 1
                       /\ next \in 1 .. Len(selected) /\ positions[1] = selected[next]

CardInv == /\ SetUp /\ SelectedInv /\ EarlyInv /\ CapsLanded
           /\ BuiltInv /\ BuildInv /\ ReportInv

\* What is said of a row depends on the drivers' lists, the selection and the caps alone.
LEMMA SameRows ==
  ASSUME UNCHANGED <<rig, backend, mode, table, selected, limit>>
  PROVE  /\ Rows' = Rows /\ Measuring' = Measuring /\ BuiltSet' = BuiltSet
         /\ \A p, path : Built(p, path)' = Built(p, path)
         /\ \A p : Paths(p)' = Paths(p) /\ (Speaks(p)' <=> Speaks(p))
<1>1. Rows' = Rows /\ Measuring' = Measuring
  BY DEF Rows, Measuring
<1>2. HaveNvml' = HaveNvml
  BY DEF HaveNvml, Primary
<1>3. \A p : OnNvml(p)' = OnNvml(p) /\ NvmlCard(p)' = NvmlCard(p)
  BY DEF OnNvml, NvmlCard
<1>4. \A p, path : Built(p, path)' = Built(p, path)
  BY <1>2, <1>3 DEF Built
<1>5. \A p : Paths(p)' = Paths(p)
  BY DEF Paths
<1>6. \A p : Speaks(p)' <=> Speaks(p)
  BY DEF Speaks
<1>7. BuiltSet' = BuiltSet
  BY <1>1, <1>4 DEF BuiltSet
<1> QED BY <1>1, <1>4, <1>5, <1>6, <1>7

LEMMA SameCaps ==
  ASSUME UNCHANGED <<rig, backend, mode, table, selected, limit, pl, denied>>, CapsLanded
  PROVE  CapsLanded'
<1>1. HaveNvml' = HaveNvml /\ OcTargets' = OcTargets
  BY DEF HaveNvml, Primary, OcTargets, Measuring
<1>2. \A p : (OnNvml(p)' <=> OnNvml(p)) /\ NvmlCard(p)' = NvmlCard(p)
  BY DEF OnNvml, NvmlCard
<1> QED BY <1>1, <1>2 DEF CapsLanded

LEMMA SameJoin ==
  ASSUME UNCHANGED <<rig, backend>>
  PROVE  JoinDevices' = JoinDevices
BY DEF JoinDevices, JoinCuda, JoinCl, Twins, NvmlDisagrees, WantCuda, WantOpenCl

\* Nothing is built yet.
LEMMA NothingBuilt ==
  ASSUME solvers = <<>>, positions = <<>>
  PROVE  Aligned /\ BuiltInv /\ Len(positions) = 0
<1>1. /\ solvers \in Seq(BuiltSet) /\ positions \in Seq(Rows)
      /\ Len(solvers) = 0 /\ Len(positions) = 0
  BY EmptySeq
<1>2. Aligned
  BY <1>1 DEF Aligned
<1> QED BY <1>1, <1>2 DEF BuiltInv, Distinct

\* No cap is asked for yet.
LEMMA NothingCapped ==
  ASSUME limit = [c \in Cards |-> Stock], pl = NoLimit
  PROVE  CapsLanded
BY DEF CapsLanded, NoLimit

LEMMA CardInit == Init => CardInv
<1> SUFFICES ASSUME Init PROVE CardInv
  OBVIOUS
<1>1. SetUp /\ EarlyInv
  BY DEF Init, SetUp, EarlyInv, Early
<1>2. SelectedInv
  <2>1. selected \in Seq(Rows) /\ Len(selected) = 0
    BY EmptySeq DEF Init
  <2> QED BY <2>1 DEF Init, SelectedInv, Distinct
<1>3. CapsLanded
  BY NothingCapped DEF Init
<1>4. BuiltInv
  BY NothingBuilt DEF Init
<1>5. BuildInv /\ ReportInv
  BY DEF Init, BuildInv, ReportInv
<1> QED BY <1>1, <1>2, <1>3, <1>4, <1>5 DEF CardInv

\* A step that leaves the cards and what is built alone, and neither enters nor leaves
\* the part of main() that walks them.
LEMMA CardStutter ==
  ASSUME CardInv, UNCHANGED <<rigVars, cardVars, builtVars>>,
         \/ pc' = pc
         \/ pc \notin Early \cup {"build"} /\ pc' \notin Early \cup {"build", "report", "measure"}
  PROVE  CardInv'
<1> USE DEF rigVars, cardVars, builtVars
<1>1. SetUp'
  BY SameJoin DEF CardInv, SetUp, Early
<1>2. SelectedInv'
  BY SameRows DEF CardInv, SelectedInv, Distinct, Early
<1>3. EarlyInv'
  BY DEF CardInv, EarlyInv, Early
<1>4. CapsLanded'
  BY SameCaps DEF CardInv
<1>5. Aligned => Aligned'
  BY SameRows DEF Aligned
<1>6. BuiltInv'
  BY <1>5, SameRows DEF CardInv, BuiltInv, Distinct, Reference
<1>7. BuildInv'
  BY <1>5, SameRows DEF CardInv, BuildInv
<1>8. ReportInv'
  BY <1>5 DEF CardInv, ReportInv
<1> QED BY <1>1, <1>2, <1>3, <1>4, <1>6, <1>7, <1>8 DEF CardInv

LEMMA CardJoin == CardInv /\ Join => CardInv'
<1> SUFFICES ASSUME CardInv, Join PROVE CardInv'
  OBVIOUS
<1> USE DEF rigVars, cardVars, builtVars, threadVars
<1>1. pc = "join" /\ pc' \in {"select", "gone"} /\ next' = next /\ selected' = <<>>
  BY DEF Join, CardInv, SelectedInv
<1>2. /\ solvers' = <<>> /\ labels' = <<>> /\ positions' = <<>>
      /\ limit' = [c \in Cards |-> Stock] /\ pl' = NoLimit
  BY DEF Join, CardInv, EarlyInv, Early
<1>3. SetUp'
  BY <1>1, SameJoin DEF Join, CardInv, SetUp
<1>4. SelectedInv'
  <2>1. selected' \in Seq(Rows') /\ Len(selected') = 0
    BY <1>1, EmptySeq
  <2> QED BY <2>1, <1>1 DEF CardInv, SelectedInv, Distinct
<1>5. EarlyInv'
  BY <1>2 DEF EarlyInv
<1>6. CapsLanded'
  BY <1>2 DEF CapsLanded, NoLimit
<1>7. BuiltInv'
  <2>1. positions' \in Seq(Rows') /\ Len(positions') = 0
    BY <1>2, EmptySeq
  <2> QED BY <2>1, <1>2 DEF BuiltInv, Distinct
<1>8. BuildInv' /\ ReportInv'
  BY <1>1 DEF BuildInv, ReportInv
<1> QED BY <1>3, <1>4, <1>5, <1>6, <1>7, <1>8 DEF CardInv

\* A step that selects keeps what early steps leave alone.
LEMMA EarlyStep ==
  ASSUME CardInv, pc \in Early \ {"join"}, pc' \in Early \cup {"gone"}, pc' # "join",
         UNCHANGED <<rigVars, table, pl, limit, denied, solvers, labels, positions, told>>
  PROVE  SetUp' /\ EarlyInv' /\ CapsLanded' /\ BuiltInv' /\ BuildInv' /\ ReportInv'
<1> USE DEF rigVars
<1>1. /\ solvers' = <<>> /\ labels' = <<>> /\ positions' = <<>>
      /\ limit' = [c \in Cards |-> Stock] /\ pl' = NoLimit
  BY DEF CardInv, EarlyInv
<1>2. SetUp'
  BY SameJoin DEF CardInv, SetUp
<1>3. BuiltInv'
  <2>1. positions' \in Seq(Rows') /\ Len(positions') = 0
    BY <1>1, EmptySeq
  <2> QED BY <2>1, <1>1 DEF BuiltInv, Distinct
<1>4. CapsLanded'
  BY <1>1 DEF CapsLanded, NoLimit
<1>5. EarlyInv' /\ BuildInv' /\ ReportInv'
  BY <1>1 DEF EarlyInv, BuildInv, ReportInv, Early
<1> QED BY <1>2, <1>3, <1>4, <1>5

LEMMA CardSelect == CardInv /\ Select => CardInv'
<1> SUFFICES ASSUME CardInv, Select PROVE CardInv'
  OBVIOUS
<1> USE DEF rigVars, builtVars
<1>1. /\ pc = "select" /\ pc' = "resolve"
      /\ UNCHANGED <<rigVars, table, selected, pl, limit, denied, builtVars>>
  BY DEF Select, Goto
<1>2. SelectedInv'
  BY <1>1 DEF CardInv, SelectedInv, Distinct, Rows
<1>3. SetUp' /\ EarlyInv' /\ CapsLanded' /\ BuiltInv' /\ BuildInv' /\ ReportInv'
  BY <1>1, EarlyStep DEF Early
<1> QED BY <1>2, <1>3 DEF CardInv

LEMMA CardResolveRow == CardInv /\ ResolveRow => CardInv'
<1> SUFFICES ASSUME CardInv, ResolveRow PROVE CardInv'
  OBVIOUS
<1>1. /\ pc = "resolve" /\ pc' = "resolve" /\ next <= Len(table) /\ next' = next + 1
      /\ UNCHANGED <<rigVars, table, pl, limit, denied, solvers, labels, positions, told>>
      /\ selected' \in {selected, Take(selected, next)}
  BY DEF ResolveRow
<1>2. /\ selected \in Seq(Rows) /\ Distinct(selected) /\ next \in Rows /\ next' \in Nat \ {0}
      /\ Rows' = Rows
  <2>1. Len(table) \in Nat
    BY <1>1, TableMembers DEF CardInv, SetUp, Fixed
  <2> QED BY <2>1, <1>1 DEF CardInv, SelectedInv, Rows
<1>3. ASSUME ~Contains(selected, next)
      PROVE  Append(selected, next) \in Seq(Rows) /\ Distinct(Append(selected, next))
  <2> HIDE DEF Rows
  <2>1. /\ Append(selected, next) \in Seq(Rows)
        /\ Len(Append(selected, next)) = Len(selected) + 1
        /\ \A i \in 1 .. Len(selected) : Append(selected, next)[i] = selected[i]
        /\ Append(selected, next)[Len(selected) + 1] = next
        /\ Len(selected) \in Nat
    BY <1>2, AppendProperties, LenProperties
  <2>2. \A i \in 1 .. Len(selected) : selected[i] # next
    BY <1>3 DEF Contains
  <2>3. Distinct(Append(selected, next))
    BY <2>1, <2>2, <1>2 DEF Distinct
  <2> QED BY <2>1, <2>3
<1>4. SelectedInv'
  BY <1>1, <1>2, <1>3 DEF SelectedInv, Take, Distinct
<1>5. SetUp' /\ EarlyInv' /\ CapsLanded' /\ BuiltInv' /\ BuildInv' /\ ReportInv'
  BY <1>1, EarlyStep DEF Early
<1> QED BY <1>4, <1>5 DEF CardInv

LEMMA CardResolveWord == CardInv /\ ResolveWord => CardInv'
<1> SUFFICES ASSUME CardInv, ResolveWord PROVE CardInv'
  OBVIOUS
<1>1. /\ pc = "resolve" /\ pc' \in {"gone", "oc", "resolve"} /\ next' = 1
      /\ UNCHANGED <<rigVars, table, selected, pl, limit, denied, solvers, labels, positions, told>>
  BY DEF ResolveWord, Goto
<1>2. SelectedInv'
  BY <1>1 DEF CardInv, SelectedInv, Distinct, Rows
<1>3. SetUp' /\ EarlyInv' /\ CapsLanded' /\ BuiltInv' /\ BuildInv' /\ ReportInv'
  BY <1>1, EarlyStep DEF Early
<1> QED BY <1>2, <1>3 DEF CardInv

\* --pl auto comes to the cap stored for the card at the position, or to none.
LEMMA AutoCap ==
  ASSUME NEW p \in Nat \ {0}, NEW list, OnNvml(p)
  PROVE  CapFor(list, TRUE, p) = Stored[NvmlCard(p)]
<1>1. CASE Stored[NvmlCard(p)] = 0
  <2>1. ResolveAuto(p) = <<>>
    BY <1>1 DEF ResolveAuto
  <2>2. ListAt(<<>>, p) = Skip
    BY DEF ListAt
  <2> QED BY <2>1, <2>2, <1>1 DEF CapFor, Skip
<1>2. CASE Stored[NvmlCard(p)] # 0
  <2> DEFINE w == Stored[NvmlCard(p)]
             spec == [i \in 1 .. p |-> IF i = p THEN w ELSE Skip]
  <2>1. ResolveAuto(p) = spec
    BY <1>2 DEF ResolveAuto, SpecAt
  <2>2. Len(spec) = p /\ spec[p] = w
    OBVIOUS
  <2>3. ListAt(spec, p) = w
    <3> HIDE DEF spec, w
    <3> QED BY <2>2 DEF ListAt
  <2> QED BY <2>1, <2>3 DEF CapFor
<1> QED BY <1>1, <1>2

\* A list that speaks of a position speaks with its own entry.
LEMMA ListCap ==
  ASSUME NEW p, NEW list, CapFor(list, FALSE, p) # Skip
  PROVE  CapFor(list, FALSE, p) = list[p]
BY DEF CapFor, ListAt

LEMMA TargetsAreRows ==
  ASSUME selected \in Seq(Rows)
  PROVE  \A p \in ToSet(OcTargets) : p \in Nat \ {0}
<1> SUFFICES ASSUME NEW p \in ToSet(OcTargets) PROVE p \in Nat \ {0}
  OBVIOUS
<1>1. Rows \subseteq Nat \ {0}
  BY DEF Rows
<1>2. \A i \in DOMAIN selected : selected[i] \in Rows
  <2> HIDE DEF Rows
  <2> QED BY LenProperties, ElementOfSeq
<1>3. selected # <<>> => 1 \in DOMAIN selected
  <2> HIDE DEF Rows
  <2> QED BY LenProperties, EmptySeq
<1>4. Primary \in Nat \ {0}
  <2>1. CASE selected = <<>>
    <3>1. Primary = 1
      BY <2>1 DEF Primary
    <3> QED BY <3>1
  <2>2. CASE selected # <<>>
    <3>1. Primary = selected[1] /\ selected[1] \in Rows
      BY <2>2, <1>2, <1>3 DEF Primary
    <3> QED BY <3>1, <1>1
  <2> QED BY <2>1, <2>2
<1>5. CASE OcTargets = <<Primary>>
  BY <1>4, <1>5 DEF ToSet
<1>6. CASE OcTargets = selected
  BY <1>1, <1>2, <1>6 DEF ToSet
<1> QED BY <1>5, <1>6 DEF OcTargets

LEMMA CardApplyOc == CardInv /\ ApplyOc => CardInv'
<1> SUFFICES ASSUME CardInv, ApplyOc PROVE CardInv'
  OBVIOUS
<1> USE DEF rigVars, builtVars
<1>1. /\ pc = "oc" /\ pc' = "build" /\ next = 1
      /\ UNCHANGED <<rigVars, table, selected, builtVars>>
  BY DEF ApplyOc, Goto
<1>2. solvers' = <<>> /\ labels' = <<>> /\ positions' = <<>>
  BY <1>1 DEF CardInv, EarlyInv, Early
<1>3. /\ HaveNvml' = HaveNvml /\ OcTargets' = OcTargets
      /\ \A p : (OnNvml(p)' <=> OnNvml(p)) /\ NvmlCard(p)' = NvmlCard(p)
  BY <1>1 DEF HaveNvml, Primary, OcTargets, Measuring, OnNvml, NvmlCard
<1>4. limit = [c \in Cards |-> Stock]
  BY <1>1 DEF CardInv, EarlyInv, Early
<1> DEFINE targets == {p \in ToSet(OcTargets) : OnNvml(p)}
<1>5. \A p \in targets : p \in Nat \ {0} /\ NvmlCard(p) \in Cards
  <2>1. \A p \in targets : p \in Nat \ {0}
    BY TargetsAreRows DEF CardInv, SelectedInv
  <2>2. \A p \in targets : p \in DOMAIN rig.nvml
    BY <2>1, RigLists DEF CardInv, SetUp, OnNvml
  <2> QED BY <2>1, <2>2, RigLists DEF CardInv, SetUp, NvmlCard
<1>6. /\ \A c \in Cards : limit'[c] # Stock =>
           \E p \in targets : NvmlCard(p) = c
                              /\ (limit'[c] = IF pl'.auto THEN Stored[c] ELSE pl'.list[p])
      /\ pl'.auto /\ HaveNvml =>
           \A p \in targets \ denied' : limit'[NvmlCard(p)] = Stored[NvmlCard(p)]
  <2>1. CASE pl' = NoLimit /\ UNCHANGED <<limit, denied>>
    BY <2>1, <1>4 DEF NoLimit
  <2>2. ASSUME NEW list \in PowerLists, NEW auto \in BOOLEAN, NEW no,
               pl' = [auto |-> auto, list |-> list], denied' = no,
               limit' = [c \in Cards |->
                  LET sets == IF HaveNvml
                              THEN {p \in ToSet(OcTargets) :
                                     OnNvml(p) /\ CapFor(list, auto, p) # Skip} \ no ELSE {}
                      at == {p \in sets : NvmlCard(p) = c} IN
                    IF at = {} THEN limit[c]
                    ELSE CapFor(list, auto, CHOOSE p \in at : TRUE)]
        PROVE  <1>6!1 /\ <1>6!2
    <3> DEFINE asks == {p \in ToSet(OcTargets) : OnNvml(p) /\ CapFor(list, auto, p) # Skip}
               sets == IF HaveNvml THEN asks \ no ELSE {}
               at(c) == {p \in sets : NvmlCard(p) = c}
               chosen(c) == CHOOSE p \in at(c) : TRUE
    <3>1. \A c \in Cards : at(c) # {} => chosen(c) \in at(c)
      <4> HIDE DEF at
      <4> QED OBVIOUS
    <3>2. \A c \in Cards : limit'[c] = IF at(c) = {} THEN Stock ELSE CapFor(list, auto, chosen(c))
      BY <2>2, <1>4
    <3>3. \A c \in Cards : at(c) # {} =>
             /\ chosen(c) \in targets /\ NvmlCard(chosen(c)) = c
             /\ CapFor(list, auto, chosen(c)) # Skip
      <4> HIDE DEF chosen
      <4> QED BY <3>1
    <3>4. /\ \A p \in targets : CapFor(list, TRUE, p) = Stored[NvmlCard(p)]
          /\ \A p : CapFor(list, FALSE, p) # Skip => CapFor(list, FALSE, p) = list[p]
      BY <1>5, AutoCap, ListCap
    <3>5. pl'.auto = auto /\ pl'.list = list
      BY <2>2
    <3>6. <1>6!1
      <4> HIDE DEF chosen, at, targets
      <4> SUFFICES ASSUME NEW c \in Cards, limit'[c] # Stock
                   PROVE  \E p \in targets : NvmlCard(p) = c
                             /\ (limit'[c] = IF auto THEN Stored[c] ELSE list[p])
        BY <3>5
      <4>1. at(c) # {} /\ limit'[c] = CapFor(list, auto, chosen(c))
        BY <3>2
      <4>2. CASE auto = TRUE
        BY <4>1, <4>2, <3>3, <3>4
      <4>3. CASE auto = FALSE
        BY <4>1, <4>3, <3>3, <3>4
      <4> QED BY <4>2, <4>3
    <3>7. <1>6!2
      <4> SUFFICES ASSUME auto = TRUE, HaveNvml, NEW p \in targets, p \notin no
                   PROVE  limit'[NvmlCard(p)] = Stored[NvmlCard(p)]
        BY <3>5, <2>2
      <4>1. NvmlCard(p) \in Cards /\ CapFor(list, TRUE, p) = Stored[NvmlCard(p)]
        BY <1>5, <3>4
      <4>2. CASE at(NvmlCard(p)) = {}
        <5>1. CapFor(list, auto, p) = Skip
          BY <4>2
        <5>2. limit'[NvmlCard(p)] = Stock
          <6> HIDE DEF at
          <6> QED BY <3>2, <4>1, <4>2
        <5> QED BY <5>1, <5>2, <4>1 DEF Skip, Stock
      <4>3. CASE at(NvmlCard(p)) # {}
        <5> HIDE DEF at, chosen, targets
        <5> DEFINE q == chosen(NvmlCard(p))
        <5>1. limit'[NvmlCard(p)] = CapFor(list, auto, q)
          BY <3>2, <4>1, <4>3
        <5>2. q \in targets /\ NvmlCard(q) = NvmlCard(p)
          BY <3>3, <4>1, <4>3
        <5> HIDE DEF q
        <5>3. CapFor(list, TRUE, q) = Stored[NvmlCard(q)]
          BY <3>4, <5>2
        <5> QED BY <5>1, <5>2, <5>3
      <4> QED BY <4>2, <4>3
    <3> QED BY <3>6, <3>7
  <2> QED BY <2>1, <2>2 DEF ApplyOc
<1>7. CapsLanded'
  BY <1>3, <1>6 DEF CapsLanded
<1>8. SetUp'
  BY <1>1, SameJoin DEF CardInv, SetUp
<1>9. SelectedInv'
  BY <1>1 DEF CardInv, SelectedInv, Distinct, Rows
<1>10. EarlyInv' /\ ReportInv'
  BY <1>1 DEF EarlyInv, ReportInv, Early
<1>11. BuiltInv' /\ BuildInv'
  <2>1. /\ positions' \in Seq(Rows') /\ Len(positions') = 0
        /\ solvers' \in Seq(BuiltSet') /\ Len(solvers') = 0
    BY <1>2, EmptySeq
  <2>2. Aligned'
    BY <2>1 DEF Aligned
  <2>3. next' = 1
    BY <1>1
  <2> QED BY <2>1, <2>2, <2>3 DEF BuiltInv, BuildInv, Distinct
<1> QED BY <1>7, <1>8, <1>9, <1>10, <1>11 DEF CardInv

\* A column of a list: the card of each entry, and one value for each.
LEMMA Columns ==
  ASSUME NEW S, NEW made \in Seq(S), NEW T, NEW p \in T
  PROVE  LET cards == [i \in DOMAIN made |-> made[i].card]
             same == [i \in DOMAIN made |-> p]
         IN /\ cards \in Seq({b.card : b \in S}) /\ Len(cards) = Len(made)
            /\ \A i \in 1 .. Len(made) : cards[i] = made[i].card
            /\ same \in Seq(T) /\ Len(same) = Len(made)
            /\ \A i \in 1 .. Len(made) : same[i] = p
<1> DEFINE n == Len(made)
           L == {b.card : b \in S}
           cards == [i \in 1 .. n |-> made[i].card]
           same == [i \in 1 .. n |-> p]
<1>1. n \in Nat /\ DOMAIN made = 1 .. n /\ \A i \in 1 .. n : made[i] \in S
  BY LenProperties, ElementOfSeq
<1>2. cards \in [1 .. n -> L] /\ same \in [1 .. n -> T]
  BY <1>1
<1> HIDE DEF n, L
<1>3. /\ Len(cards) = n /\ Len(same) = n
      /\ \A i \in 1 .. n : cards[i] = made[i].card /\ same[i] = p
  BY <1>1
<1>4. cards \in Seq(L) /\ same \in Seq(T)
  <2> HIDE DEF cards, same
  <2> QED BY <1>1, <1>2, SeqDef
<1> QED BY <1>1, <1>3, <1>4 DEF n, L

LEMMA LastOrBefore ==
  ASSUME NEW n \in Nat, NEW m \in {0, 1}, NEW k \in 1 .. n + m
  PROVE  k \in 1 .. n \/ (k = n + 1 /\ m = 1)
OBVIOUS

LEMMA AtMostOneMore ==
  ASSUME NEW S, NEW s \in Seq(S), NEW t \in Seq(S), NEW r, r = s \o t
  PROVE  /\ r \in Seq(S) /\ Len(r) = Len(s) + Len(t)
         /\ \A k \in 1 .. Len(s) : r[k] = s[k]
         /\ Len(t) = 1 => r[Len(s) + 1] = t[1]
<1>1. /\ r \in Seq(S) /\ Len(r) = Len(s) + Len(t) /\ Len(s) \in Nat
      /\ \A i \in 1 .. Len(s) + Len(t) : r[i] = IF i <= Len(s) THEN s[i] ELSE t[i - Len(s)]
  BY ConcatProperties, LenProperties
<1>2. \A k \in 1 .. Len(s) : r[k] = s[k]
  BY <1>1
<1>3. ASSUME Len(t) = 1 PROVE r[Len(s) + 1] = t[1]
  <2>1. Len(s) + 1 \in 1 .. Len(s) + Len(t) /\ ~(Len(s) + 1 <= Len(s)) /\ Len(s) + 1 - Len(s) = 1
    BY <1>1, <1>3
  <2> QED BY <1>1, <2>1
<1> QED BY <1>1, <1>2, <1>3

LEMMA BuildStepIsARow ==
  ASSUME CardInv, pc \in {"build", "report", "measure"}, next <= Len(selected)
  PROVE  /\ Fixed /\ next \in 1 .. Len(selected) /\ selected[next] \in Rows
         /\ Len(selected) \in Nat
<1> USE DEF CardInv
<1>1. Fixed
  BY DEF Fixed, SetUp
<1>2. selected \in Seq(Rows) /\ next \in Nat \ {0}
  BY DEF SelectedInv
<1>3. Len(selected) \in Nat /\ next \in 1 .. Len(selected)
  BY <1>2, LenProperties
<1>4. selected[next] \in Rows
  BY <1>2, <1>3, ElementOfSeq
<1> QED BY <1>1, <1>3, <1>4

LEMMA CardBuildSolver == CardInv /\ BuildSolver => CardInv'
<1> SUFFICES ASSUME CardInv, BuildSolver PROVE CardInv'
  OBVIOUS
<1> USE DEF rigVars, cardVars
<1> DEFINE p == selected[next]
<1>1. /\ pc = "build" /\ pc' = "build" /\ next' = next + 1
      /\ UNCHANGED <<rigVars, cardVars>>
  BY DEF BuildSolver
<1>2. /\ selected \in Seq(Rows) /\ Distinct(selected) /\ next \in Nat \ {0} /\ Len(selected) \in Nat
      /\ selected # <<>> => Len(selected) # 0
  BY LenProperties, EmptySeq DEF CardInv, SelectedInv
<1>3. next <= Len(selected) /\ (Measuring => next <= 1)
  BY <1>2 DEF BuildSolver
<1>4. Fixed /\ p \in Rows /\ next \in 1 .. Len(selected)
  BY <1>1, <1>3, BuildStepIsARow
<1>5. PICK made \in {<<>>} \cup {<<Built(p, path)>> : path \in Paths(p)} :
        /\ AddSolver(p, made)
        /\ told' = IF Speaks(p) \/ (made = <<>> /\ Paths(p) # {}) THEN told \cup {p} ELSE told
  BY DEF BuildSolver
<1>6. /\ Aligned /\ positions \in Seq(Rows) /\ Distinct(positions)
      /\ \A k \in 1 .. Len(positions) :
           \E j \in 1 .. Len(selected) : j < next /\ positions[k] = selected[j]
      /\ Measuring => Len(positions) < next
  BY <1>1 DEF CardInv, BuiltInv, BuildInv
<1>7. /\ made \in Seq(BuiltSet) /\ Len(made) \in {0, 1}
      /\ Len(made) = 1 => \E path \in Paths(p) : made[1] = Built(p, path)
  <2>1. CASE made = <<>>
    BY <2>1, EmptySeq
  <2>2. ASSUME NEW path \in Paths(p), made = <<Built(p, path)>>
        PROVE  <1>7
    <3>1. Built(p, path) \in BuiltSet
      BY <1>4, BuiltIsItsCard DEF BuiltSet
    <3> HIDE DEF p
    <3> QED BY <2>2, <3>1
  <2> QED BY <2>1, <2>2, <1>5
<1> DEFINE n == Len(positions)
<1>8. PICK same \in Seq(Rows) :
        /\ Len(same) = Len(made)
        /\ \A i \in 1 .. Len(made) : same[i] = p
        /\ positions' = positions \o same
  <2> DEFINE same == [i \in DOMAIN made |-> p]
  <2>1. /\ same \in Seq(Rows) /\ Len(same) = Len(made)
        /\ \A i \in 1 .. Len(made) : same[i] = p
    <3> HIDE DEF p, BuiltSet, Rows
    <3> QED BY <1>4, <1>7, Columns
  <2>2. positions' = positions \o same
    BY <1>5 DEF AddSolver
  <2> HIDE DEF same
  <2> QED BY <2>1, <2>2
<1>9. solvers' = solvers \o made
  BY <1>5 DEF AddSolver
<1>10. solvers \in Seq(BuiltSet) /\ n \in Nat /\ Len(solvers) = n
  BY <1>6, LenProperties DEF Aligned
<1> HIDE DEF p
<1>11. /\ solvers' \in Seq(BuiltSet) /\ positions' \in Seq(Rows)
       /\ Len(solvers') = n + Len(made) /\ Len(positions') = n + Len(made)
       /\ \A k \in 1 .. n : solvers'[k] = solvers[k] /\ positions'[k] = positions[k]
       /\ Len(made) = 1 => solvers'[n + 1] = made[1] /\ positions'[n + 1] = p
  <2>1. /\ solvers' \in Seq(BuiltSet) /\ Len(solvers') = n + Len(made)
        /\ \A k \in 1 .. n : solvers'[k] = solvers[k]
        /\ Len(made) = 1 => solvers'[n + 1] = made[1]
    <3>1. /\ solvers' \in Seq(BuiltSet) /\ Len(solvers') = Len(solvers) + Len(made)
          /\ \A k \in 1 .. Len(solvers) : solvers'[k] = solvers[k]
          /\ Len(made) = 1 => solvers'[Len(solvers) + 1] = made[1]
      <4>1. solvers \in Seq(BuiltSet) /\ made \in Seq(BuiltSet)
        BY <1>7, <1>10
      <4> HIDE DEF BuiltSet
      <4> QED BY <4>1, <1>9, AtMostOneMore
    <3> HIDE DEF BuiltSet, n
    <3> QED BY <3>1, <1>10
  <2>2. /\ positions' \in Seq(Rows) /\ Len(positions') = n + Len(made)
        /\ \A k \in 1 .. n : positions'[k] = positions[k]
        /\ Len(made) = 1 => positions'[n + 1] = p
    <3>1. Len(same) = Len(made) /\ (Len(made) = 1 => same[1] = p)
      BY <1>8
    <3>2. /\ positions' \in Seq(Rows) /\ Len(positions') = Len(positions) + Len(same)
          /\ \A k \in 1 .. Len(positions) : positions'[k] = positions[k]
          /\ Len(same) = 1 => positions'[Len(positions) + 1] = same[1]
      <4>1. positions \in Seq(Rows) /\ positions' = positions \o same
        BY <1>6, <1>8
      <4> HIDE DEF Rows
      <4> QED BY <4>1, AtMostOneMore
    <3> QED BY <3>1, <3>2
  <2> QED BY <2>1, <2>2
<1>12. /\ Rows' = Rows /\ Measuring' = Measuring /\ BuiltSet' = BuiltSet
       /\ \A r, path : Built(r, path)' = Built(r, path)
       /\ \A r : Paths(r)' = Paths(r) /\ (Speaks(r)' <=> Speaks(r))
  BY <1>1, SameRows
<1>13. \A k \in 1 .. Len(positions') :
         \/ k \in 1 .. n
         \/ k = n + 1 /\ Len(made) = 1
  <2>1. n \in Nat /\ Len(made) \in {0, 1} /\ Len(positions') = n + Len(made)
    BY <1>7, <1>10, <1>11
  <2> HIDE DEF n
  <2> QED BY <2>1, LastOrBefore
<1>14. Aligned'
  <2>1. ASSUME NEW k \in 1 .. Len(positions')
        PROVE  /\ \E path \in Paths(positions'[k]) : solvers'[k] = Built(positions'[k], path)
               /\ Speaks(positions'[k]) => positions'[k] \in told'
    <3>1. CASE k \in 1 .. n
      <4>1. solvers'[k] = solvers[k] /\ positions'[k] = positions[k]
        BY <3>1, <1>11
      <4>2. told \subseteq told'
        BY <1>5
      <4> QED BY <3>1, <4>1, <4>2, <1>6 DEF Aligned
    <3>2. CASE k = n + 1 /\ Len(made) = 1
      <4>1. solvers'[k] = made[1] /\ positions'[k] = p
        BY <3>2, <1>11
      <4>2. Speaks(p) => p \in told'
        BY <1>5
      <4> QED BY <3>2, <4>1, <4>2, <1>7
    <3> QED BY <3>1, <3>2, <1>13
  <2> QED BY <2>1, <1>11, <1>12 DEF Aligned
<1>15. \A k \in 1 .. Len(positions') :
         \E j \in 1 .. Len(selected) : j < next + 1 /\ positions'[k] = selected[j]
  <2>1. ASSUME NEW k \in 1 .. n
        PROVE  \E j \in 1 .. Len(selected) : j < next + 1 /\ positions'[k] = selected[j]
    <3>1. PICK j \in 1 .. Len(selected) : j < next /\ positions[k] = selected[j]
      BY <1>6
    <3>2. j < next + 1
      BY <3>1, <1>2
    <3>3. positions'[k] = positions[k]
      BY <1>11
    <3> QED BY <3>1, <3>2, <3>3
  <2>2. ASSUME NEW k, k = n + 1, Len(made) = 1
        PROVE  \E j \in 1 .. Len(selected) : j < next + 1 /\ positions'[k] = selected[j]
    BY <2>2, <1>2, <1>4, <1>11 DEF p
  <2> QED BY <2>1, <2>2, <1>13
<1>16. Distinct(positions')
  <2>1. Len(made) = 1 => \A k \in 1 .. n : positions[k] # p
    BY <1>2, <1>4, <1>6 DEF Distinct, p
  <2>2. SUFFICES ASSUME NEW j \in 1 .. Len(positions'), NEW k \in 1 .. Len(positions'),
                        positions'[j] = positions'[k]
                 PROVE  j = k
    BY DEF Distinct
  <2>3. CASE j \in 1 .. n /\ k \in 1 .. n
    BY <2>2, <2>3, <1>6, <1>11 DEF Distinct
  <2>4. CASE j \in 1 .. n /\ k = n + 1 /\ Len(made) = 1
    BY <2>1, <2>2, <2>4, <1>11
  <2>5. CASE j = n + 1 /\ k \in 1 .. n /\ Len(made) = 1
    BY <2>1, <2>2, <2>5, <1>11
  <2> QED BY <2>3, <2>4, <2>5, <1>13
<1>17. BuiltInv'
  BY <1>11, <1>12, <1>14, <1>16 DEF BuiltInv, Distinct
<1>18. Measuring => next + 1 <= 2 /\ Len(positions') < next + 1
  <2> SUFFICES ASSUME Measuring PROVE next + 1 <= 2 /\ Len(positions') < next + 1
    OBVIOUS
  <2>1. next = 1 /\ n = 0
    <3>1. next \in Nat /\ next >= 1 /\ next <= 1 /\ n < next /\ n \in Nat
      BY <1>2, <1>3, <1>6, <1>10
    <3> HIDE DEF n
    <3> QED BY <3>1
  <2>2. Len(made) \in {0, 1} /\ Len(positions') = n + Len(made)
    BY <1>7, <1>11
  <2> DEFINE size == Len(made)
             after == Len(positions')
  <2> HIDE DEF n, size, after
  <2>3. size \in {0, 1} /\ after = n + size
    BY <2>2 DEF size, after
  <2>4. next + 1 = 2 /\ after < 2
    BY <2>1, <2>3
  <2> QED BY <2>4 DEF after
<1>19. BuildInv'
  BY <1>1, <1>12, <1>14, <1>15, <1>18 DEF BuildInv
<1>20. SetUp'
  BY <1>1, SameJoin DEF CardInv, SetUp
<1>21. SelectedInv'
  BY <1>1, <1>2, <1>12 DEF SelectedInv, Distinct
<1>22. EarlyInv' /\ ReportInv'
  BY <1>1 DEF EarlyInv, ReportInv, Early
<1>23. CapsLanded'
  BY <1>1, SameCaps DEF CardInv
<1> QED BY <1>17, <1>19, <1>20, <1>21, <1>22, <1>23 DEF CardInv

LEMMA CardBuildEnds == CardInv /\ BuildEnds => CardInv'
<1> SUFFICES ASSUME CardInv, BuildEnds PROVE CardInv'
  OBVIOUS
<1> USE DEF rigVars, cardVars
<1>1. /\ pc = "build" /\ pc' \in {"engines", "unwind", "bench", "report"}
      /\ next' = 1 /\ positions' = positions /\ told' = told
      /\ UNCHANGED <<rigVars, cardVars>>
      /\ pc' = "report" => Measuring
  BY DEF BuildEnds, Goto, CardInv, SetUp, Measuring
<1>2. /\ Aligned /\ positions \in Seq(Rows) /\ Distinct(positions) /\ Len(positions) \in Nat
      /\ \A k \in 1 .. Len(positions) :
           \E j \in 1 .. Len(selected) : j < next /\ positions[k] = selected[j]
      /\ Measuring => next <= 2 /\ Len(positions) < next
      /\ next \in Nat \ {0}
  BY <1>1, LenProperties DEF CardInv, BuiltInv, BuildInv, SelectedInv
<1>3. \/ solvers' = solvers
      \/ solvers = <<>> /\ solvers' = <<Reference>>
  BY DEF BuildEnds
<1>4. solvers = <<>> => positions = <<>>
  <2> SUFFICES ASSUME solvers = <<>> PROVE positions = <<>>
    OBVIOUS
  <2>1. Len(positions) = 0
    BY <1>2, EmptySeq DEF Aligned
  <2> HIDE DEF Rows
  <2> QED BY <2>1, <1>2, EmptySeq
<1>5. positions = <<>> => Len(positions) = 0
  BY EmptySeq
<1>6. /\ Rows' = Rows /\ BuiltSet' = BuiltSet
      /\ \A r, path : Built(r, path)' = Built(r, path)
      /\ \A r : Paths(r)' = Paths(r) /\ (Speaks(r)' <=> Speaks(r))
  BY <1>1, SameRows
<1>7. solvers' = solvers => Aligned'
  BY <1>1, <1>2, <1>6 DEF Aligned
<1>8. BuiltInv'
  BY <1>1, <1>2, <1>3, <1>4, <1>6, <1>7 DEF BuiltInv, Distinct, Reference
<1>9. BuildInv' /\ EarlyInv'
  BY <1>1 DEF BuildInv, EarlyInv, Early
<1>10. ReportInv'
  <2> SUFFICES ASSUME pc' = "report"
               PROVE  /\ Len(positions) <= 1
                      /\ positions # <<>> =>
                           \E j \in 1 .. Len(selected) :
                             /\ j <= 1 /\ positions[1] = selected[j]
                             /\ solvers' = <<>> => j < 1
                      /\ solvers' # <<>> => Aligned' \/ positions = <<>>
    BY <1>1 DEF ReportInv
  <2>1. next <= 2 /\ Len(positions) < next
    BY <1>1, <1>2
  <2>2. Len(positions) <= 1
    BY <2>1, <1>2
  <2>3. solvers' # <<>> => Aligned' \/ positions = <<>>
    BY <1>3, <1>4, <1>7
  <2>4. ASSUME positions # <<>>
        PROVE  \E j \in 1 .. Len(selected) :
                 /\ j <= 1 /\ positions[1] = selected[j]
                 /\ solvers' = <<>> => j < 1
    <3>1. solvers' # <<>>
      BY <1>3, <1>4, <2>4
    <3>2. 1 \in 1 .. Len(positions)
      <4>1. Len(positions) # 0
        BY <2>4, <1>2, EmptySeq
      <4> QED BY <4>1, <1>2
    <3>3. PICK j \in 1 .. Len(selected) : j < next /\ positions[1] = selected[j]
      BY <3>2, <1>2
    <3>4. j <= 1
      BY <3>3, <2>1, <1>2
    <3> QED BY <3>1, <3>3, <3>4
  <2> QED BY <2>2, <2>3, <2>4
<1>11. SetUp'
  BY <1>1, SameJoin DEF CardInv, SetUp
<1>12. SelectedInv'
  BY <1>1, <1>6 DEF CardInv, SelectedInv, Distinct
<1>13. CapsLanded'
  BY <1>1, SameCaps DEF CardInv
<1> QED BY <1>8, <1>9, <1>10, <1>11, <1>12, <1>13 DEF CardInv

\* What the report leaves alone.
LEMMA ReportStep ==
  ASSUME CardInv, pc \in {"report", "measure"}, pc' \in {"report", "measure", "unwind"},
         UNCHANGED <<rigVars, cardVars>>, next' \in {next, next + 1}
  PROVE  SetUp' /\ SelectedInv' /\ EarlyInv' /\ CapsLanded' /\ BuildInv'
<1> USE DEF rigVars, cardVars
<1>1. SetUp'
  BY SameJoin DEF CardInv, SetUp
<1>2. SelectedInv'
  <2>1. Rows' = Rows
    BY DEF Rows
  <2>2. next' \in Nat \ {0}
    BY DEF CardInv, SelectedInv
  <2> QED BY <2>1, <2>2 DEF CardInv, SelectedInv, Distinct
<1>3. CapsLanded'
  BY SameCaps DEF CardInv
<1>4. EarlyInv' /\ BuildInv'
  BY DEF EarlyInv, BuildInv, Early
<1> QED BY <1>1, <1>2, <1>3, <1>4

LEMMA CardReportRebuild == CardInv /\ ReportRebuild => CardInv'
<1> SUFFICES ASSUME CardInv, ReportRebuild PROVE CardInv'
  OBVIOUS
<1> USE DEF rigVars, cardVars
<1> DEFINE p == selected[next]
<1>1. /\ pc = "report" /\ next <= Len(selected) /\ ~Holds(p) /\ UNCHANGED <<rigVars, cardVars>>
      /\ pc' \in {"report", "measure"} /\ next' \in {next, next + 1}
      /\ told' = IF Speaks(p) \/ (solvers' = <<>> /\ Paths(p) # {}) THEN told \cup {p} ELSE told
  BY DEF ReportRebuild, Goto
<1>2. Fixed /\ next \in 1 .. Len(selected) /\ p \in Rows
  BY <1>1, BuildStepIsARow
<1>3. /\ Rows' = Rows /\ BuiltSet' = BuiltSet
      /\ \A r, path : Built(r, path)' = Built(r, path)
      /\ \A r : Paths(r)' = Paths(r) /\ (Speaks(r)' <=> Speaks(r))
  BY <1>1, SameRows
<1>4. SetUp' /\ SelectedInv' /\ EarlyInv' /\ CapsLanded' /\ BuildInv'
  BY <1>1, ReportStep
<1>5. CASE \E path \in Paths(p) : solvers' = <<Built(p, path)>>
  <2>1. PICK path \in Paths(p) : solvers' = <<Built(p, path)>>
    BY <1>5
  <2>2. Built(p, path) \in BuiltSet /\ solvers' # <<>>
    BY <1>2, <2>1, BuiltIsItsCard DEF BuiltSet
  <2>4. positions' = <<p>> /\ pc' = "measure" /\ next' = next
    BY <1>5, <2>2 DEF ReportRebuild, Goto
  <2>5. /\ Len(solvers') = 1 /\ solvers'[1] = Built(p, path) /\ solvers' \in Seq(BuiltSet)
        /\ Len(positions') = 1 /\ positions'[1] = p /\ positions' \in Seq(Rows)
    <3> HIDE DEF p, BuiltSet, Rows
    <3> QED BY <1>2, <2>1, <2>2, <2>4
  <2>7. Speaks(p) => p \in told'
    BY <1>1
  <2>8. Aligned'
    <3> HIDE DEF p
    <3> QED BY <1>3, <2>1, <2>5, <2>7 DEF Aligned
  <2>9. BuiltInv'
    BY <1>3, <2>5, <2>8 DEF BuiltInv, Distinct
  <2>10. ReportInv'
    <3>1. selected' = selected /\ next \in 1 .. Len(selected) /\ next \in Nat /\ next <= next
      BY <1>1, <1>2 DEF CardInv, SelectedInv
    <3> QED BY <3>1, <2>2, <2>4, <2>5, <2>8 DEF ReportInv
  <2> QED BY <1>4, <2>9, <2>10 DEF CardInv
<1>6. CASE solvers' = <<>> /\ next' = next + 1 /\ UNCHANGED <<positions, pc>>
  <2>1. BuiltInv'
    BY <1>3, <1>6 DEF CardInv, BuiltInv, Distinct
  <2>2. ReportInv'
    <3>1. ASSUME positions # <<>>
          PROVE  \E j \in 1 .. Len(selected) : j < next + 1 /\ positions[1] = selected[j]
      <4>1. PICK j \in 1 .. Len(selected) : j <= next /\ positions[1] = selected[j]
        BY <1>1, <3>1 DEF CardInv, ReportInv
      <4>2. j < next + 1
        BY <4>1 DEF CardInv, SelectedInv
      <4> QED BY <4>1, <4>2
    <3>2. \A j \in 1 .. Len(selected) : j < next + 1 => j <= next + 1
      BY DEF CardInv, SelectedInv
    <3> QED BY <1>1, <1>6, <3>1, <3>2 DEF CardInv, ReportInv
  <2> QED BY <1>4, <2>1, <2>2 DEF CardInv
<1> QED BY <1>5, <1>6 DEF ReportRebuild

LEMMA CardReportKeep == CardInv /\ ReportKeep => CardInv'
<1> SUFFICES ASSUME CardInv, ReportKeep PROVE CardInv'
  OBVIOUS
<1> USE DEF rigVars, cardVars, builtVars
<1>1. /\ pc = "report" /\ next <= Len(selected) /\ Holds(selected[next]) /\ pc' = "measure"
      /\ UNCHANGED <<rigVars, cardVars, builtVars>>
  BY DEF ReportKeep, Goto
<1>2. next \in 1 .. Len(selected) /\ selected \in Seq(Rows) /\ Distinct(selected)
  BY <1>1, BuildStepIsARow DEF CardInv, SelectedInv
<1>3. PICK j \in 1 .. Len(selected) :
        /\ j <= next /\ positions[1] = selected[j]
        /\ solvers = <<>> => j < next
  BY <1>1 DEF CardInv, ReportInv, Holds
<1>4. j = next
  BY <1>1, <1>2, <1>3 DEF Holds, Distinct
<1>5. Aligned /\ positions # <<>>
  BY <1>1, <1>2, <1>3, <1>4 DEF CardInv, ReportInv, Holds
<1>6. Len(positions) = 1
  <2>1. positions \in Seq(Rows) /\ Len(positions) <= 1
    BY <1>1 DEF CardInv, BuiltInv, ReportInv
  <2>2. Len(positions) \in Nat \ {0}
    <3> HIDE DEF Rows
    <3> QED BY <2>1, <1>5, EmptySeq
  <2> QED BY <2>1, <2>2
<1>7. SetUp' /\ SelectedInv' /\ EarlyInv' /\ CapsLanded' /\ BuildInv'
  BY <1>1, ReportStep
<1>8. Aligned'
  BY <1>1, <1>5, SameRows DEF Aligned
<1>9. BuiltInv'
  BY <1>1, <1>8, SameRows DEF CardInv, BuiltInv, Distinct
<1>10. ReportInv'
  <2>1. solvers # <<>>
    BY <1>3, <1>4, <1>2
  <2>2. next <= next
    BY <1>2
  <2> QED BY <1>1, <1>2, <1>6, <1>8, <2>1, <2>2 DEF ReportInv, Holds
<1> QED BY <1>7, <1>9, <1>10 DEF CardInv

LEMMA CardReportMeasure == CardInv /\ ReportMeasure => CardInv'
<1> SUFFICES ASSUME CardInv, ReportMeasure PROVE CardInv'
  OBVIOUS
<1> USE DEF rigVars, cardVars, builtVars
<1>1. /\ pc = "measure" /\ pc' \in {"report", "unwind"} /\ next' = next + 1
      /\ UNCHANGED <<rigVars, cardVars, solvers, positions, told>>
  BY DEF ReportMeasure
<1>2. /\ Aligned /\ Len(positions) = 1 /\ next \in 1 .. Len(selected)
      /\ positions[1] = selected[next]
  BY <1>1 DEF CardInv, ReportInv
<1>3. SetUp' /\ SelectedInv' /\ EarlyInv' /\ CapsLanded' /\ BuildInv'
  BY <1>1, ReportStep
<1>4. Aligned'
  BY <1>1, <1>2, SameRows DEF Aligned
<1>5. BuiltInv'
  BY <1>1, <1>4, SameRows DEF CardInv, BuiltInv, Distinct
<1>6. ReportInv'
  <2>1. next <= next + 1 /\ next < next + 1
    BY <1>2
  <2>2. selected' = selected /\ positions' = positions
    BY <1>1
  <2> QED BY <1>1, <1>2, <1>4, <2>1, <2>2 DEF ReportInv
<1> QED BY <1>3, <1>5, <1>6 DEF CardInv

LEMMA CardNext == CardInv /\ [Next]_vars => CardInv'
<1> SUFFICES ASSUME CardInv, [Next]_vars PROVE CardInv'
  OBVIOUS
<1> USE DEF BuiltUnchanged, MineUnchanged, Goto
<1> DEFINE Kept == UNCHANGED <<rigVars, cardVars, builtVars>>
           Outside == pc \notin Early \cup {"build"}
                      /\ pc' \notin Early \cup {"build", "report", "measure"}
<1>1. CASE Join
  BY <1>1, CardJoin
<1>2. CASE Select \/ ResolveRow \/ ResolveWord
  BY <1>2, CardSelect, CardResolveRow, CardResolveWord
<1>3. CASE ApplyOc
  BY <1>3, CardApplyOc
<1>4. CASE BuildSolver \/ BuildEnds
  BY <1>4, CardBuildSolver, CardBuildEnds
<1>5. CASE ReportRebuild \/ ReportKeep \/ ReportMeasure
  BY <1>5, CardReportRebuild, CardReportKeep, CardReportMeasure
<1>6. CASE Benchmark \/ ReportEnds
  <2>1. Kept /\ Outside
    BY <1>6 DEF Benchmark, ReportEnds, Early
  <2> QED BY <2>1, CardStutter
<1>7. CASE MakeEngines \/ Fee \/ StartHttp \/ Layout
  <2>1. Kept /\ Outside
    BY <1>7 DEF MakeEngines, Fee, StartHttp, Layout, Early
  <2> QED BY <2>1, CardStutter
<1>8. CASE StartTicker \/ StartThermal \/ StartEngines
  <2>1. Kept /\ Outside
    BY <1>8 DEF StartTicker, StartThermal, StartEngines, Early
  <2> QED BY <2>1, CardStutter
<1>9. CASE StartWatchdog \/ StartScheduler \/ RunClient \/ Unwind
  <2>1. Kept /\ Outside
    BY <1>9 DEF StartWatchdog, StartScheduler, RunClient, Unwind, Early
  <2> QED BY <2>1, CardStutter
<1>10. CASE Dispatch \/ Halt \/ UNCHANGED vars
  <2>1. Kept /\ pc' = pc
    BY <1>10 DEF Dispatch, Halt, vars
  <2> QED BY <2>1, CardStutter
<1> QED BY <1>1, <1>2, <1>3, <1>4, <1>5, <1>6, <1>7, <1>8, <1>9, <1>10 DEF Next

\* Table, selection, caps, solvers and positions agree about every card, at each place of
\* main() between join_devices() and its end.
THEOREM CardInvariant == Spec => []CardInv
BY CardInit, CardNext, PTL DEF Spec

\* What an aligned solver list says of engine k.
LEMMA AlignedRow ==
  ASSUME CardInv, Aligned, Fixed, NEW k \in DOMAIN solvers
  PROVE  /\ k \in 1 .. Len(positions) /\ positions # <<>> /\ positions[k] \in Rows
         /\ \E path \in Paths(positions[k]) : solvers[k] = Built(positions[k], path)
         /\ solvers[k].pos = positions[k]
         /\ solvers[k].card = table[positions[k]].card
         /\ Speaks(positions[k]) => positions[k] \in told
<1>1. solvers \in Seq(BuiltSet) /\ Len(solvers) = Len(positions)
  BY DEF Aligned
<1>2. positions \in Seq(Rows)
  BY DEF CardInv, BuiltInv
<1>3. k \in 1 .. Len(positions)
  <2> HIDE DEF BuiltSet
  <2> QED BY <1>1, LenProperties
<1>4. positions[k] \in Rows
  <2> HIDE DEF Rows
  <2> QED BY <1>2, <1>3, ElementOfSeq
<1>5. positions # <<>>
  <2>1. Len(positions) # 0
    BY <1>3
  <2> QED BY <2>1, EmptySeq
<1>6. PICK path \in Paths(positions[k]) : solvers[k] = Built(positions[k], path)
  BY <1>3 DEF Aligned
<1>7. solvers[k].pos = positions[k] /\ solvers[k].card = table[positions[k]].card
  BY <1>4, <1>6, BuiltIsItsCard
<1>8. Speaks(positions[k]) => positions[k] \in told
  BY <1>3 DEF Aligned
<1> QED BY <1>3, <1>4, <1>5, <1>6, <1>7, <1>8

LEMMA ReferenceAlone ==
  ASSUME NEW k \in DOMAIN solvers, solvers = <<Reference>>
  PROVE  k = 1 /\ ~OnCard(solvers[k])
<1>1. k = 1
  OBVIOUS
<1>2. solvers[k] = Reference
  BY <1>1
<1> QED BY <1>1, <1>2 DEF OnCard, Reference

LEMMA NoSolver ==
  ASSUME solvers = <<>>
  PROVE  DOMAIN solvers = {}
OBVIOUS

\* Where something is built, the table is joined.
LEMMA BuiltIsJoined ==
  ASSUME CardInv, NEW k \in DOMAIN solvers
  PROVE  Fixed /\ (Aligned \/ solvers = <<Reference>>)
<1>1. solvers # <<>>
  BY NoSolver
<1>2. pc # "join"
  BY <1>1 DEF CardInv, EarlyInv, Early
<1> QED BY <1>1, <1>2 DEF CardInv, SetUp, Fixed, BuiltInv

(***************************************************************************)
(* What is shown of a card: the labels and the telemetry rows that main()  *)
(* copied once the solvers were built, and the name the report goes by.    *)
(***************************************************************************)
Labelled == labels = [k \in 1 .. Len(solvers) |-> solvers[k].card]
Silent == solvers = <<>> \/ solvers = <<Reference>>

LabelInv ==
  /\ pc \in {"report", "measure"} => mode = "report"
  /\ pc = "build" => Labelled
  /\ pc = "build" /\ solvers # <<>> => name = solvers[1].card
  /\ pc \notin Early \cup {"build"} /\ mode # "report" /\ ~Silent =>
       Labelled /\ (HaveNvml => rows = positions)
  /\ pc \in {"report", "measure"} /\ ~Silent => name = solvers[1].card

LEMMA LabelInit == Init => LabelInv
  BY DEF Init, LabelInv, Early

LEMMA LabelEarly ==
  ASSUME CardInv, LabelInv, Join \/ Select \/ ResolveRow \/ ResolveWord \/ ApplyOc
  PROVE  LabelInv'
<1> USE DEF Goto
<1>1. pc \in Early /\ solvers = <<>> /\ labels = <<>>
  BY DEF Join, Select, ResolveRow, ResolveWord, ApplyOc, CardInv, EarlyInv, Early
<1>2. solvers' = <<>> /\ labels' = <<>>
  BY <1>1 DEF Join, Select, ResolveRow, ResolveWord, ApplyOc, builtVars
<1>3. pc' \notin {"report", "measure"}
  BY DEF Join, Select, ResolveRow, ResolveWord, ApplyOc
<1>4. Labelled'
  BY <1>2 DEF Labelled
<1> QED BY <1>2, <1>3, <1>4 DEF LabelInv, Silent

LEMMA LabelBuildSolver ==
  ASSUME CardInv, LabelInv, BuildSolver
  PROVE  LabelInv'
<1> DEFINE p == selected[next]
<1>1. /\ pc = "build" /\ pc' = "build" /\ next <= Len(selected) /\ Labelled
      /\ solvers \in Seq(BuiltSet)
  <2>1. pc = "build" /\ pc' = "build" /\ Labelled /\ solvers \in Seq(BuiltSet)
    BY DEF BuildSolver, LabelInv, CardInv, BuildInv, Aligned
  <2>2. selected \in Seq(Rows) /\ next \in Nat \ {0}
    BY DEF CardInv, SelectedInv
  <2>3. selected # <<>> => Len(selected) \in Nat /\ Len(selected) # 0
    BY <2>2, LenProperties, EmptySeq
  <2>4. next <= Len(selected)
    BY <2>2, <2>3 DEF BuildSolver
  <2> QED BY <2>1, <2>4
<1>2. PICK made \in {<<>>} \cup {<<Built(p, path)>> : path \in Paths(p)} : AddSolver(p, made)
  BY DEF BuildSolver
<1>3. made \in Seq(BuiltSet) /\ (made = <<>> \/ Len(made) = 1)
  <2>1. CASE made = <<>>
    BY <2>1, EmptySeq
  <2>2. ASSUME NEW path \in Paths(p), made = <<Built(p, path)>>
        PROVE  made \in Seq(BuiltSet) /\ Len(made) = 1
    <3>1. Built(p, path) \in BuiltSet
      BY <1>1, BuildStepIsARow, BuiltIsItsCard DEF BuiltSet
    <3> HIDE DEF p, BuiltSet
    <3> QED BY <2>2, <3>1
  <2> QED BY <2>1, <2>2, <1>2
<1> DEFINE n == Len(solvers)
           LabelSet == {b.card : b \in BuiltSet}
           cards == [i \in DOMAIN made |-> made[i].card]
<1>4. /\ solvers' = solvers \o made /\ labels' = labels \o cards
      /\ name' = FirstOf(made)
  BY <1>2 DEF AddSolver
<1>5. /\ cards \in Seq(LabelSet) /\ Len(cards) = Len(made)
      /\ \A i \in 1 .. Len(made) : cards[i] = made[i].card
  <2> HIDE DEF BuiltSet
  <2> QED BY <1>3, Columns
<1>6. /\ labels \in Seq(LabelSet) /\ Len(labels) = n /\ n \in Nat
      /\ \A k \in 1 .. n : labels[k] = solvers[k].card
  <2>1. DOMAIN solvers = 1 .. n /\ n \in Nat
    <3> HIDE DEF BuiltSet
    <3> QED BY <1>1, LenProperties
  <2>2. labels = [i \in DOMAIN solvers |-> solvers[i].card]
    BY <1>1, <2>1 DEF Labelled
  <2> HIDE DEF BuiltSet
  <2> QED BY <1>1, <2>1, <2>2, Columns
<1> HIDE DEF cards, LabelSet
<1>7. /\ solvers' \in Seq(BuiltSet) /\ Len(solvers') = n + Len(made)
      /\ \A k \in 1 .. n : solvers'[k] = solvers[k]
      /\ Len(made) = 1 => solvers'[n + 1] = made[1]
  <2> HIDE DEF BuiltSet
  <2> QED BY <1>1, <1>3, <1>4, AtMostOneMore
<1>8. /\ labels' \in Seq(LabelSet) /\ Len(labels') = Len(labels) + Len(cards)
      /\ \A k \in 1 .. Len(labels) : labels'[k] = labels[k]
      /\ Len(cards) = 1 => labels'[Len(labels) + 1] = cards[1]
  <2>1. /\ labels \in Seq(LabelSet) /\ cards \in Seq(LabelSet)
        /\ labels' = labels \o cards
    BY <1>4, <1>5, <1>6
  <2> QED BY <2>1, AtMostOneMore
<1> HIDE DEF n
<1>9. Len(made) \in {0, 1}
  BY <1>3, EmptySeq
<1>10. \A k \in 1 .. n + Len(made) : labels'[k] = solvers'[k].card
  <2> SUFFICES ASSUME NEW k \in 1 .. n + Len(made) PROVE labels'[k] = solvers'[k].card
    OBVIOUS
  <2>1. k \in 1 .. n \/ (k = n + 1 /\ Len(made) = 1)
    BY <1>6, <1>9, LastOrBefore
  <2>2. CASE k \in 1 .. n
    BY <2>2, <1>6, <1>7, <1>8
  <2>3. CASE k = n + 1 /\ Len(made) = 1
    BY <2>3, <1>5, <1>6, <1>7, <1>8
  <2> QED BY <2>1, <2>2, <2>3
<1>11. Labelled'
  <2>1. labels' = [k \in 1 .. Len(labels') |-> labels'[k]]
    BY <1>8
  <2>2. Len(labels') = Len(solvers') /\ Len(solvers') = n + Len(made)
    BY <1>5, <1>6, <1>7, <1>8
  <2> QED BY <2>1, <2>2, <1>10 DEF Labelled
<1>12. solvers' # <<>> => name' = solvers'[1].card
  <2>1. CASE solvers = <<>> /\ made = <<>>
    <3>1. solvers' = <<>>
      BY <2>1, <1>4
    <3> QED BY <3>1
  <2>2. CASE solvers = <<>> /\ made # <<>>
    <3>1. n = 0 /\ Len(made) = 1
      BY <2>2, <1>3 DEF n
    <3> QED BY <3>1, <2>2, <1>4, <1>7 DEF FirstOf
  <2>3. CASE solvers # <<>>
    <3>1. name' = solvers[1].card
      BY <2>3, <1>1, <1>4 DEF FirstOf, LabelInv
    <3>2. 1 \in 1 .. n
      <4>1. n # 0
        <5> HIDE DEF BuiltSet
        <5> QED BY <2>3, <1>1, EmptySeq DEF n
      <4> QED BY <4>1, <1>6
    <3> QED BY <3>1, <3>2, <1>7
  <2> QED BY <2>1, <2>2, <2>3
<1> QED BY <1>1, <1>11, <1>12 DEF LabelInv, Early

LEMMA LabelBuildEnds ==
  ASSUME CardInv, LabelInv, BuildEnds
  PROVE  LabelInv'
<1> USE DEF rigVars, cardVars
<1>1. /\ pc = "build" /\ pc' \notin Early \cup {"build"} /\ pc' # "measure"
      /\ mode' = mode /\ name' = name /\ positions' = positions
      /\ pc' = "report" => mode = "report"
  BY DEF BuildEnds, Goto, Early, CardInv, SetUp
<1>2. (UNCHANGED <<solvers, labels>>) \/ solvers' = <<Reference>>
  BY DEF BuildEnds
<1>3. CASE solvers' = <<Reference>>
  BY <1>1, <1>3 DEF LabelInv, Silent
<1>4. CASE UNCHANGED <<solvers, labels>>
  <2>1. Labelled' /\ (solvers # <<>> => name' = solvers'[1].card)
    BY <1>1, <1>4 DEF LabelInv, Labelled
  <2>2. HaveNvml' = HaveNvml
    BY DEF BuildEnds, HaveNvml, Primary
  <2>3. solvers # <<>> => positions # <<>>
    <3>1. solvers \in Seq(BuiltSet) /\ Len(solvers) = Len(positions)
      BY <1>1 DEF CardInv, BuildInv, Aligned
    <3>2. solvers # <<>> => Len(solvers) # 0
      <4> HIDE DEF BuiltSet
      <4> QED BY <3>1, EmptySeq
    <3> QED BY <3>1, <3>2, EmptySeq
  <2>4. solvers # <<>> /\ HaveNvml => rows' = positions
    BY <1>4, <2>3 DEF BuildEnds
  <2> QED BY <1>1, <1>4, <2>1, <2>2, <2>4 DEF LabelInv, Silent
<1> QED BY <1>2, <1>3, <1>4

LEMMA LabelReport ==
  ASSUME CardInv, LabelInv, ReportRebuild \/ ReportKeep \/ ReportMeasure
  PROVE  LabelInv'
<1> USE DEF rigVars, builtVars, Goto
<1>1. /\ pc \in {"report", "measure"} /\ mode' = mode
      /\ pc' \in {"report", "measure", "unwind"}
  BY DEF ReportRebuild, ReportKeep, ReportMeasure
<1>2. mode' = "report"
  BY <1>1 DEF LabelInv
<1>3. Silent' \/ name' = solvers'[1].card
  <2>1. CASE ReportRebuild
    <3>1. solvers' = <<>> \/ name' = solvers'[1].card
      BY <2>1 DEF ReportRebuild
    <3> QED BY <3>1 DEF Silent
  <2>2. CASE ReportKeep \/ ReportMeasure
    <3>1. solvers' = solvers /\ name' = name
      BY <2>2 DEF ReportKeep, ReportMeasure
    <3> QED BY <1>1, <3>1 DEF LabelInv, Silent
  <2> QED BY <2>1, <2>2
<1> QED BY <1>1, <1>2, <1>3 DEF LabelInv, Early

\* The steps after the cards are built and measured leave all of it.
LEMMA LabelStutter ==
  ASSUME LabelInv, UNCHANGED <<rigVars, cardVars, builtVars>>,
         \/ pc' = pc
         \/ pc \notin Early \cup {"build"} /\ pc' \notin Early \cup {"build", "report", "measure"}
  PROVE  LabelInv'
<1> USE DEF rigVars, cardVars, builtVars
<1>1. HaveNvml' = HaveNvml
  BY DEF HaveNvml, Primary
<1>2. Labelled' <=> Labelled
  BY DEF Labelled
<1>3. Silent' <=> Silent
  BY DEF Silent, Reference
<1> QED BY <1>1, <1>2, <1>3 DEF LabelInv, Early

LEMMA LabelNext == CardInv /\ LabelInv /\ [Next]_vars => LabelInv'
<1> SUFFICES ASSUME CardInv, LabelInv, [Next]_vars PROVE LabelInv'
  OBVIOUS
<1> USE DEF BuiltUnchanged, MineUnchanged, Goto
<1> DEFINE Kept == UNCHANGED <<rigVars, cardVars, builtVars>>
           Outside == pc \notin Early \cup {"build"}
                      /\ pc' \notin Early \cup {"build", "report", "measure"}
<1>1. CASE Join \/ Select \/ ResolveRow \/ ResolveWord \/ ApplyOc
  BY <1>1, LabelEarly
<1>2. CASE BuildSolver \/ BuildEnds
  BY <1>2, LabelBuildSolver, LabelBuildEnds
<1>3. CASE ReportRebuild \/ ReportKeep \/ ReportMeasure
  BY <1>3, LabelReport
<1>4. CASE Benchmark \/ ReportEnds
  <2>1. Kept /\ Outside
    BY <1>4 DEF Benchmark, ReportEnds, Early
  <2> QED BY <2>1, LabelStutter
<1>5. CASE MakeEngines \/ Fee \/ StartHttp \/ Layout
  <2>1. Kept /\ Outside
    BY <1>5 DEF MakeEngines, Fee, StartHttp, Layout, Early
  <2> QED BY <2>1, LabelStutter
<1>6. CASE StartTicker \/ StartThermal \/ StartEngines
  <2>1. Kept /\ Outside
    BY <1>6 DEF StartTicker, StartThermal, StartEngines, Early
  <2> QED BY <2>1, LabelStutter
<1>7. CASE StartWatchdog \/ StartScheduler \/ RunClient \/ Unwind
  <2>1. Kept /\ Outside
    BY <1>7 DEF StartWatchdog, StartScheduler, RunClient, Unwind, Early
  <2> QED BY <2>1, LabelStutter
<1>8. CASE Dispatch \/ Halt \/ UNCHANGED vars
  <2>1. Kept /\ pc' = pc
    BY <1>8 DEF Dispatch, Halt, vars
  <2> QED BY <2>1, LabelStutter
<1> QED BY <1>1, <1>2, <1>3, <1>4, <1>5, <1>6, <1>7, <1>8 DEF Next

\* Labels, telemetry rows and the report's name are those of the cards they were copied
\* from, at each place of main(): an invariant that needs the one of the cards.
THEOREM LabelInvariant == Spec => [](CardInv /\ LabelInv)
BY CardInit, CardNext, LabelInit, LabelNext, PTL DEF Spec

\* Outside --report, engine k's label, its row of the statistics and its sensor are its
\* card's; no card is mined twice; and --report measures a card with the solver built for
\* it, at its position and under its name.
THEOREM SolversMatchTheirCards == Spec => []SolversMatchCards
<1>1. ASSUME CardInv, LabelInv PROVE RowsAreOneCard
  <2> SUFFICES ASSUME Sized, mode # "report", NEW k \in DOMAIN solvers, OnCard(solvers[k])
               PROVE  /\ labels[k] = solvers[k].card
                      /\ table[solvers[k].pos].card = solvers[k].card
                      /\ HaveNvml => TelemetryAt(k) = solvers[k].pos
                      /\ SensorAt(k) = solvers[k].pos
    BY DEF RowsAreOneCard
  <2>1. Fixed /\ Aligned
    BY <1>1, BuiltIsJoined, ReferenceAlone
  <2>2. /\ k \in 1 .. Len(positions) /\ positions # <<>> /\ solvers[k].pos = positions[k]
        /\ solvers[k].card = table[positions[k]].card
    BY <1>1, <2>1, AlignedRow
  <2>3. k <= Len(positions)
    <3>1. positions \in Seq(Rows)
      BY <1>1 DEF CardInv, BuiltInv
    <3>2. Len(positions) \in Nat
      BY <3>1, LenProperties
    <3> QED BY <2>2, <3>2
  <2>4. ~Silent
    BY NoSolver, ReferenceAlone DEF Silent
  <2>5. Labelled /\ (HaveNvml => rows = positions)
    BY <1>1, <2>4 DEF LabelInv, Sized, Early
  <2>6. k \in 1 .. Len(solvers)
    BY <2>1, <2>2 DEF Aligned
  <2>7. labels[k] = solvers[k].card
    BY <2>5, <2>6 DEF Labelled
  <2> QED BY <2>2, <2>3, <2>5, <2>7 DEF TelemetryAt, SensorAt
<1>2. ASSUME CardInv PROVE OneEnginePerCard
  <2> SUFFICES ASSUME rig.cuda # <<>>, NEW j \in DOMAIN solvers, NEW k \in DOMAIN solvers,
                      solvers[j].card = solvers[k].card
               PROVE  j = k
    BY DEF OneEnginePerCard
  <2>1. Fixed /\ (Aligned \/ solvers = <<Reference>>)
    BY <1>2, BuiltIsJoined
  <2>2. CASE Aligned
    <3>1. /\ j \in 1 .. Len(positions) /\ positions[j] \in Rows
          /\ k \in 1 .. Len(positions) /\ positions[k] \in Rows
          /\ table[positions[j]].card = table[positions[k]].card
      BY <1>2, <2>1, <2>2, AlignedRow
    <3>2. positions[j] = positions[k]
      BY <2>1, <3>1, RowsAreCards
    <3> QED BY <1>2, <3>1, <3>2 DEF CardInv, BuiltInv, Distinct
  <2>3. CASE solvers = <<Reference>>
    BY <2>3, ReferenceAlone
  <2> QED BY <2>1, <2>2, <2>3
<1>3. ASSUME CardInv, LabelInv PROVE ReportHasItsCard
  <2> SUFFICES ASSUME pc = "measure"
               PROVE  /\ Len(solvers) = 1 /\ solvers[1].pos = selected[next]
                      /\ solvers[1].card = table[selected[next]].card
                      /\ name = solvers[1].card
    BY DEF ReportHasItsCard
  <2>1. Aligned /\ Len(positions) = 1 /\ positions[1] = selected[next]
    BY <1>3 DEF CardInv, ReportInv
  <2>2. Len(solvers) = 1 /\ 1 \in DOMAIN solvers
    <3>1. solvers \in Seq(BuiltSet) /\ Len(solvers) = 1
      BY <2>1 DEF Aligned
    <3> HIDE DEF BuiltSet
    <3> QED BY <3>1, LenProperties
  <2>3. Fixed
    BY <1>3 DEF CardInv, SetUp, Fixed
  <2>4. /\ solvers[1].pos = positions[1] /\ solvers[1].card = table[positions[1]].card
        /\ \E path \in Paths(positions[1]) : solvers[1] = Built(positions[1], path)
        /\ positions[1] \in Rows
    BY <1>3, <2>1, <2>2, <2>3, AlignedRow
  <2>5. ~Silent
    <3>1. solvers # <<>>
      BY <2>2
    <3>2. solvers # <<Reference>>
      <4>1. SUFFICES ASSUME solvers = <<Reference>> PROVE FALSE
        OBVIOUS
      <4>2. solvers[1].pos = 0
        BY <4>1 DEF Reference
      <4>3. positions[1] \in Nat \ {0}
        BY <2>4 DEF Rows
      <4> QED BY <2>4, <4>2, <4>3
    <3> QED BY <3>1, <3>2 DEF Silent
  <2>6. name = solvers[1].card
    BY <1>3, <2>5 DEF LabelInv
  <2> QED BY <2>1, <2>2, <2>4, <2>6
<1>4. CardInv /\ LabelInv => SolversMatchCards
  BY <1>1, <1>2, <1>3 DEF SolversMatchCards
<1> QED BY <1>4, LabelInvariant, PTL

\* A cap comes only from a card's own position, --pl auto puts on each target what was
\* stored for that card, and a solver is sized under the cap that stands.
THEOREM CapsStandWhereTheyBelong == Spec => []CapsAreTheirOwn
<1>1. ASSUME CardInv PROVE CapsAreTheirOwn
  <2>1. ASSUME NEW s \in ToSet(solvers), OnCard(s), HaveNvml, OnNvml(s.pos)
        PROVE  s.cap = limit[NvmlCard(s.pos)]
    <3>1. PICK k \in DOMAIN solvers : s = solvers[k]
      BY DEF ToSet
    <3>2. Fixed /\ Aligned
      BY <1>1, <2>1, <3>1, BuiltIsJoined, ReferenceAlone
    <3>3. /\ solvers[k].pos = positions[k]
          /\ \E path \in Paths(positions[k]) : solvers[k] = Built(positions[k], path)
      BY <1>1, <3>2, AlignedRow
    <3>4. PICK path \in Paths(positions[k]) : solvers[k] = Built(positions[k], path)
      BY <3>3
    <3>5. s = Built(s.pos, path)
      BY <3>1, <3>3, <3>4
    <3>6. Built(s.pos, path).cap = limit[NvmlCard(s.pos)]
      BY <2>1 DEF Built
    <3> QED BY <3>5, <3>6
  <2> QED BY <1>1, <2>1 DEF CapsAreTheirOwn, CardInv, CapsLanded
<1> QED BY <1>1, CardInvariant, PTL

\* A card that mines at another card's NVML position has been named, but under --solver cuda.
THEOREM MisaimedCardsAreTold == Spec => []MisaimIsTold
<1>1. ASSUME CardInv PROVE MisaimIsTold
  <2> SUFFICES ASSUME backend # "cuda", NEW s \in ToSet(solvers), Misaimed(s), Comparable(s)
               PROVE  s.pos \in told
    BY DEF MisaimIsTold, EveryMisaimIsTold
  <2>1. PICK k \in DOMAIN solvers : s = solvers[k]
    BY DEF ToSet
  <2>2. Fixed /\ Aligned
    BY <1>1, <2>1, BuiltIsJoined, ReferenceAlone DEF Misaimed
  <2>3. /\ positions[k] \in Rows /\ solvers[k].pos = positions[k]
        /\ solvers[k].card = table[positions[k]].card
        /\ Speaks(positions[k]) => positions[k] \in told
    BY <1>1, <2>2, AlignedRow
  <2>4. PICK path \in Paths(positions[k]) : solvers[k] = Built(positions[k], path)
    BY <1>1, <2>2, AlignedRow
  <2>5. /\ OnNvml(positions[k]) /\ rig.nvml[positions[k]].pci /\ table[positions[k]].pci
        /\ NvmlCard(positions[k]) # table[positions[k]].card
    BY <2>1, <2>3, Zenon DEF Misaimed, Comparable
  <2>6. Speaks(positions[k])
    BY <2>2, <2>3, <2>5, MisaimSpeaks, Zenon
  <2> QED BY <2>1, <2>3, <2>6
<1> QED BY <1>1, CardInvariant, PTL

(***************************************************************************)
(* The threads and the locals they read.                                   *)
(***************************************************************************)
Locals == {"thermal", "pause", "stats"}
BuiltLocals == Locals \cup {"solvers", "client"}
EngineLocals == BuiltLocals \cup {"engines", "router", "devfee"}

AliveAt(label) ==
  CASE label \in Early \cup {"build"} -> Locals
    [] label \in {"engines", "bench", "report", "measure"} -> BuiltLocals
    [] label \in {"fee", "http"} -> EngineLocals
    [] label \in {"layout", "ticker"} -> EngineLocals \cup {"http"}
    [] label \in {"limits", "start", "watch"} -> EngineLocals \cup {"http", "ticker"}
    [] label \in {"sched", "keys"} -> EngineLocals \cup {"http", "ticker", "watchdog"}
    [] label = "run" -> EngineLocals \cup {"http", "ticker", "watchdog", "keys"}

Threads == {"thermal", "http", "ticker", "watchdog", "engines", "sched", "client", "keys"}

\* The threads that have started by a point of main().
StartedAt(label) ==
  CASE label \in Early \cup {"build", "engines", "bench", "report", "measure", "fee", "http"} -> {}
    [] label \in {"layout", "ticker"} -> {"http"}
    [] label = "limits" -> {"http", "ticker"}
    [] label = "start"  -> {"http", "ticker", "thermal"}
    [] label = "watch"  -> {"http", "ticker", "thermal", "engines"}
    [] label = "sched"  -> {"http", "ticker", "thermal", "engines", "watchdog"}
    [] label = "keys"   -> {"http", "ticker", "thermal", "engines", "watchdog", "sched"}
    [] label = "run"    -> Threads

MainLabels == Early \cup {"build", "engines", "bench", "report", "measure", "fee", "http",
                          "layout", "ticker", "limits", "start", "watch", "sched", "keys", "run"}

\* On the way out every thread that runs is of an object that lives, and none has a job.
TeardownInv ==
  /\ mode \in {"mine", "bench", "report"}
  /\ pc \in MainLabels \cup {"unwind", "gone"}
  /\ pc \in MainLabels => alive = AliveAt(pc) /\ running \subseteq StartedAt(pc)
  /\ pc \notin {"keys", "run"} => ~jobs /\ running \cap {"client", "sched"} = {}
  /\ pc = "unwind" => alive # {}
  /\ pc \in {"unwind", "gone"} =>
       /\ alive \subseteq {Declared[i] : i \in 1 .. 12}
       /\ running \subseteq alive \cap StartedAt("sched")
       /\ \A t \in running : Touches(t) \subseteq alive

LEMMA AliveTable ==
  /\ \A label \in Early \cup {"build"} : AliveAt(label) = Locals
  /\ \A label \in {"engines", "bench", "report", "measure"} : AliveAt(label) = BuiltLocals
  /\ \A label \in {"fee", "http"} : AliveAt(label) = EngineLocals
  /\ \A label \in {"layout", "ticker"} : AliveAt(label) = EngineLocals \cup {"http"}
  /\ \A label \in {"limits", "start", "watch"} :
       AliveAt(label) = EngineLocals \cup {"http", "ticker"}
  /\ \A label \in {"sched", "keys"} :
       AliveAt(label) = EngineLocals \cup {"http", "ticker", "watchdog"}
  /\ AliveAt("run") = EngineLocals \cup {"http", "ticker", "watchdog", "keys"}
BY DEF AliveAt, Early

LEMMA StartedTable ==
  /\ \A label \in Early \cup {"build", "engines", "bench", "report", "measure", "fee", "http"} :
       StartedAt(label) = {}
  /\ \A label \in {"layout", "ticker"} : StartedAt(label) = {"http"}
  /\ StartedAt("limits") = {"http", "ticker"}
  /\ StartedAt("start") = {"http", "ticker", "thermal"}
  /\ StartedAt("watch") = {"http", "ticker", "thermal", "engines"}
  /\ StartedAt("sched") = {"http", "ticker", "thermal", "engines", "watchdog"}
  /\ StartedAt("keys") = {"http", "ticker", "thermal", "engines", "watchdog", "sched"}
  /\ StartedAt("run") = Threads
BY DEF StartedAt, Early

LEMMA TouchTable ==
  /\ Touches("thermal") = {"thermal"}
  /\ \A t \in {"http", "ticker", "keys", "watchdog"} : Touches(t) = Locals
  /\ Touches("sched") = {"devfee", "router", "engines", "stats"}
  /\ Touches("client") = {"client", "stats", "router", "engines"}
  /\ ~jobs => Touches("engines") = {"engines", "solvers"}
  /\ Touches("engines") \subseteq EngineLocals
BY DEF Touches, Locals, EngineLocals, BuiltLocals

\* Before any job a thread reads no more than its object, what the solvers hold and the
\* three first locals.
LEMMA IdleThreads ==
  ASSUME ~jobs, NEW A, NEW R, R \subseteq A, R \subseteq StartedAt("sched"),
         Locals \subseteq A, "engines" \in R => "solvers" \in A
  PROVE  \A t \in R : Touches(t) \subseteq A
<1> SUFFICES ASSUME NEW t \in R PROVE Touches(t) \subseteq A
  OBVIOUS
<1>1. t \in {"http", "ticker", "thermal", "engines", "watchdog"}
  BY StartedTable
<1>2. CASE t = "thermal"
  BY <1>2, TouchTable
<1>3. CASE t = "engines"
  BY <1>3, TouchTable
<1>4. CASE t \in {"http", "ticker", "watchdog"}
  BY <1>4, TouchTable
<1> QED BY <1>1, <1>2, <1>3, <1>4

\* The local declared last of those that live.
Newest == Declared[CHOOSE i \in DOMAIN Declared :
          Declared[i] \in alive /\ \A j \in i + 1 .. Len(Declared) : Declared[j] \notin alive]

LEMMA DeclaredRow ==
  /\ DOMAIN Declared = 1 .. 12 /\ Len(Declared) = 12
  /\ Declared[1] = "thermal" /\ Declared[2] = "pause" /\ Declared[3] = "stats"
  /\ Declared[4] = "solvers" /\ Declared[5] = "client" /\ Declared[6] = "engines"
  /\ Declared[7] = "router" /\ Declared[8] = "devfee" /\ Declared[9] = "http"
  /\ Declared[10] = "ticker" /\ Declared[11] = "watchdog" /\ Declared[12] = "keys"
BY DEF Declared

LEMMA NewestIsThere ==
  ASSUME alive # {}, alive \subseteq {Declared[i] : i \in 1 .. 12}
  PROVE  \E i \in 1 .. 12 :
           Newest = Declared[i] /\ Declared[i] \in alive
           /\ \A j \in i + 1 .. 12 : Declared[j] \notin alive
<1> DEFINE Ends(i) == Declared[i] \in alive
                      /\ \A j \in i + 1 .. Len(Declared) : Declared[j] \notin alive
           Back == {k \in Nat : k < 12 /\ Declared[12 - k] \in alive}
<1>1. Back # {}
  <2>1. PICK i \in 1 .. 12 : Declared[i] \in alive
    OBVIOUS
  <2>2. 12 - i \in Nat /\ 12 - i < 12 /\ 12 - (12 - i) = i
    OBVIOUS
  <2> QED BY <2>1, <2>2
<1>2. \E k \in Back : \A m \in Back : <<m, k>> \notin OpToRel(<, Nat)
  <2>1. Back \subseteq Nat
    OBVIOUS
  <2> HIDE DEF Back
  <2> QED BY <1>1, <2>1, NatLessThanWellFounded, WFMin
<1>3. PICK k \in Back : \A m \in Back : ~(m < k)
  BY <1>2 DEF OpToRel
<1>4. 12 - k \in 1 .. 12 /\ Declared[12 - k] \in alive
  OBVIOUS
<1>5. \A j \in (12 - k) + 1 .. 12 : Declared[j] \notin alive
  <2> SUFFICES ASSUME NEW j \in (12 - k) + 1 .. 12, Declared[j] \in alive PROVE FALSE
    OBVIOUS
  <2>1. 12 - j \in Nat /\ 12 - j < 12 /\ 12 - (12 - j) = j /\ 12 - j < k
    OBVIOUS
  <2> QED BY <2>1, <1>3
<1>6. \E i \in DOMAIN Declared : Ends(i)
  BY <1>4, <1>5, DeclaredRow
<1> DEFINE last == CHOOSE i \in DOMAIN Declared : Ends(i)
<1>7. last \in DOMAIN Declared /\ Ends(last)
  <2> HIDE DEF Ends
  <2> QED BY <1>6
<1>8. Newest = Declared[last]
  BY DEF Newest
<1> HIDE DEF last
<1> QED BY <1>7, <1>8, DeclaredRow

LEMMA TeardownUnwind == TeardownInv /\ Unwind => TeardownInv'
<1> SUFFICES ASSUME TeardownInv, Unwind PROVE TeardownInv'
  OBVIOUS
<1> USE DEF BuiltUnchanged, MineUnchanged, Goto, rigVars
<1>1. /\ pc = "unwind" /\ alive' = alive \ {Newest} /\ running' = running \ {ThreadOf(Newest)}
      /\ pc' = IF alive = {Newest} THEN "gone" ELSE "unwind"
      /\ jobs' = jobs /\ mode' = mode
  BY DEF Unwind, Newest
<1>2. /\ alive # {} /\ alive \subseteq {Declared[i] : i \in 1 .. 12} /\ ~jobs
      /\ running \subseteq alive /\ running \subseteq StartedAt("sched")
      /\ \A t \in running : Touches(t) \subseteq alive
  BY <1>1 DEF TeardownInv
<1>3. PICK i \in 1 .. 12 : /\ Newest = Declared[i] /\ Declared[i] \in alive
                            /\ \A j \in i + 1 .. 12 : Declared[j] \notin alive
  BY <1>2, NewestIsThere
<1>4. \A t \in running' : t \in running /\ t # Newest
  <2> SUFFICES ASSUME Newest \in running PROVE ThreadOf(Newest) = Newest
    BY <1>1
  <2>1. Newest # "devfee"
    BY <1>2, StartedTable
  <2> QED BY <2>1 DEF ThreadOf
<1>5. \A t \in running' : Newest \notin Touches(t)
  <2> SUFFICES ASSUME NEW t \in running', Newest \in Touches(t) PROVE FALSE
    OBVIOUS
  <2>1. t \in {"http", "ticker", "thermal", "engines", "watchdog"} /\ t \in alive /\ t # Newest
    BY <1>2, <1>4, StartedTable
  <2>2. CASE t = "thermal"
    BY <2>1, <2>2, TouchTable
  <2>3. CASE t = "engines"
    <3>1. Newest = "solvers"
      BY <1>2, <2>1, <2>3, TouchTable
    <3>2. i = 4
      BY <3>1, <1>3, DeclaredRow
    <3> QED BY <3>2, <1>3, <2>1, <2>3, DeclaredRow
  <2>4. CASE t \in {"http", "ticker", "watchdog"}
    <3>1. Newest \in Locals
      BY <2>4, TouchTable
    <3>2. i \in 1 .. 3
      BY <3>1, <1>3, DeclaredRow DEF Locals
    <3>3. \A j \in 9 .. 11 : j \in i + 1 .. 12
      BY <3>2
    <3>4. \E j \in 9 .. 11 : t = Declared[j]
      BY <2>4, DeclaredRow
    <3> QED BY <3>3, <3>4, <1>3, <2>1
  <2> QED BY <2>1, <2>2, <2>3, <2>4
<1>6. \A t : Touches(t)' = Touches(t)
  BY <1>1 DEF Touches
<1>7. \A t \in running' : Touches(t)' \subseteq alive'
  BY <1>1, <1>2, <1>4, <1>5, <1>6
<1>8. running' \subseteq alive' \cap StartedAt("sched")
  BY <1>1, <1>2, <1>4
<1>9. /\ pc' \in {"unwind", "gone"} /\ (pc' = "unwind" => alive' # {})
      /\ alive' \subseteq {Declared[j] : j \in 1 .. 12}
      /\ ~jobs' /\ running' \cap {"client", "sched"} = {}
  BY <1>1, <1>2, StartedTable
<1>10. pc' \notin MainLabels /\ pc' \notin {"keys", "run"}
  BY <1>9 DEF MainLabels, Early
<1>11. StartedAt("sched")' = StartedAt("sched")
  BY DEF StartedAt
<1> QED BY <1>1, <1>7, <1>8, <1>9, <1>10, <1>11 DEF TeardownInv

\* A way out of main() before any thread has a job.
LEMMA WayOut ==
  ASSUME TeardownInv, pc \in MainLabels \ {"keys", "run"}, pc' \in {"unwind", "gone"},
         UNCHANGED <<mode, jobs>>, alive \subseteq alive',
         alive' \subseteq alive \cup {"solvers", "client", "ticker", "watchdog"},
         running' \subseteq alive' \cap StartedAt("sched"),
         "engines" \in running' => "solvers" \in alive'
  PROVE  TeardownInv'
<1>1. /\ ~jobs /\ alive = AliveAt(pc)
  BY DEF TeardownInv
<1>2. Locals \subseteq alive /\ alive \subseteq EngineLocals \cup {"http", "ticker", "watchdog"}
  BY <1>1, AliveTable DEF MainLabels, EngineLocals, BuiltLocals
<1>3. EngineLocals \cup {"http", "ticker", "watchdog"} \subseteq {Declared[i] : i \in 1 .. 12}
  BY DeclaredRow DEF EngineLocals, BuiltLocals, Locals
<1>4. alive' \subseteq {Declared[i] : i \in 1 .. 12} /\ alive' # {}
  <2>1. EngineLocals \cup {"http", "ticker", "watchdog"} \cup {"solvers", "client", "ticker", "watchdog"}
          = EngineLocals \cup {"http", "ticker", "watchdog"}
    BY DEF EngineLocals, BuiltLocals
  <2>2. "stats" \in alive'
    BY <1>2 DEF Locals
  <2> QED BY <2>1, <2>2, <1>2, <1>3
<1>5. \A t : Touches(t)' = Touches(t)
  BY DEF Touches
<1>6. \A t \in running' : Touches(t) \subseteq alive'
  BY <1>1, <1>2, IdleThreads
<1>7. StartedAt("sched")' = StartedAt("sched")
  BY DEF StartedAt
<1>8. running' \cap {"client", "sched"} = {}
  BY StartedTable
<1>9. pc' \notin MainLabels /\ pc' \notin {"keys", "run"}
  BY DEF MainLabels, Early
<1> QED BY <1>1, <1>4, <1>5, <1>6, <1>7, <1>8, <1>9 DEF TeardownInv

\* A step from one point of main() to another.
LEMMA WayOn ==
  ASSUME TeardownInv, pc \in MainLabels \ {"run"}, pc' \in MainLabels, mode' = mode,
         alive' = AliveAt(pc'), running' \subseteq StartedAt(pc'),
         jobs' = jobs, pc = "keys" => pc' = "run"
  PROVE  TeardownInv'
<1>1. AliveAt(pc)' = AliveAt(pc') /\ StartedAt(pc)' = StartedAt(pc')
  BY DEF AliveAt, StartedAt
<1>2. pc' \notin {"keys", "run"} => running' \cap {"client", "sched"} = {} /\ ~jobs'
  <2> SUFFICES ASSUME pc' \notin {"keys", "run"}
               PROVE  running' \cap {"client", "sched"} = {} /\ ~jobs'
    OBVIOUS
  <2>1. "client" \notin StartedAt(pc') /\ "sched" \notin StartedAt(pc')
    BY StartedTable DEF MainLabels
  <2>2. pc \notin {"keys", "run"}
    OBVIOUS
  <2> QED BY <2>1, <2>2 DEF TeardownInv
<1>3. pc' \notin {"unwind", "gone"}
  BY DEF MainLabels, Early
<1> QED BY <1>1, <1>2, <1>3 DEF TeardownInv

LEMMA TeardownBuild ==
  ASSUME TeardownInv,
         Join \/ Select \/ ResolveRow \/ ResolveWord \/ ApplyOc \/ BuildSolver \/ BuildEnds
  PROVE  TeardownInv'
<1> USE DEF rigVars, cardVars, builtVars, threadVars, Goto, MainLabels
<1> DEFINE Begin == Early \cup {"build"}
<1>1. /\ pc \in Begin /\ UNCHANGED <<mode, running, jobs>> /\ alive \subseteq alive'
      /\ \/ pc' \in Begin /\ alive' = alive
         \/ pc' = "gone" /\ alive' = alive
         \/ pc' \in {"engines", "unwind", "bench", "report"} /\ alive' = alive \cup {"solvers", "client"}
  <2>1. CASE Join \/ Select \/ ResolveRow \/ ResolveWord
    BY <2>1 DEF Join, Select, ResolveRow, ResolveWord, Early
  <2>2. CASE ApplyOc \/ BuildSolver
    BY <2>2 DEF ApplyOc, BuildSolver, Early
  <2>3. CASE BuildEnds
    BY <2>3 DEF BuildEnds, TeardownInv
  <2> QED BY <2>1, <2>2, <2>3
<1>2. alive = Locals /\ running = {} /\ pc \in MainLabels \ {"keys", "run"}
  BY <1>1, AliveTable, StartedTable DEF TeardownInv, Early
<1>3. running' = {}
  BY <1>1, <1>2
<1>4. CASE pc' \in Begin /\ alive' = alive
  <2>1. alive' = AliveAt(pc')
    BY <1>2, <1>4, AliveTable
  <2> QED BY <2>1, <1>1, <1>2, <1>3, <1>4, WayOn
<1>5. CASE pc' \in {"engines", "bench", "report"} /\ alive' = alive \cup {"solvers", "client"}
  <2>1. alive' = AliveAt(pc')
    BY <1>2, <1>5, AliveTable DEF BuiltLocals
  <2> QED BY <2>1, <1>1, <1>2, <1>3, <1>5, WayOn
<1>6. CASE pc' \in {"unwind", "gone"} /\ alive' \in {alive, alive \cup {"solvers", "client"}}
  BY <1>1, <1>2, <1>3, <1>6, WayOut
<1> QED BY <1>1, <1>4, <1>5, <1>6

LEMMA TeardownMeasure ==
  ASSUME TeardownInv, Benchmark \/ ReportRebuild \/ ReportKeep \/ ReportMeasure \/ ReportEnds
  PROVE  TeardownInv'
<1> USE DEF rigVars, cardVars, builtVars, threadVars, Goto, MainLabels
<1> DEFINE Walk == {"bench", "report", "measure"}
<1>1. /\ pc \in Walk /\ UNCHANGED <<mode, jobs>>
      /\ \/ pc' \in {"report", "measure"} /\ UNCHANGED <<alive, running>>
         \/ /\ pc' = "unwind"
            /\ \/ UNCHANGED <<alive, running>>
               \/ alive' = alive \cup {"ticker"} /\ running' = running \cup {"ticker"}
  <2>1. CASE Benchmark
    BY <2>1 DEF Benchmark
  <2>2. CASE ReportRebuild
    BY <2>2 DEF ReportRebuild
  <2>3. CASE ReportKeep \/ ReportMeasure \/ ReportEnds
    BY <2>3 DEF ReportKeep, ReportMeasure, ReportEnds
  <2> QED BY <2>1, <2>2, <2>3
<1>2. alive = BuiltLocals /\ running = {} /\ pc \in MainLabels \ {"keys", "run"}
  BY <1>1, AliveTable, StartedTable DEF TeardownInv
<1>3. CASE pc' \in {"report", "measure"} /\ UNCHANGED <<alive, running>>
  <2>1. alive' = AliveAt(pc') /\ running' \subseteq StartedAt(pc')
    BY <1>2, <1>3, AliveTable
  <2> QED BY <2>1, <1>1, <1>2, <1>3, WayOn
<1>4. CASE /\ pc' = "unwind"
           /\ \/ UNCHANGED <<alive, running>>
              \/ alive' = alive \cup {"ticker"} /\ running' = running \cup {"ticker"}
  <2>1. running' \subseteq alive' \cap StartedAt("sched") /\ "engines" \notin running'
    BY <1>2, <1>4, StartedTable
  <2> QED BY <2>1, <1>1, <1>2, <1>4, WayOut
<1> QED BY <1>1, <1>3, <1>4

LEMMA TeardownMine ==
  ASSUME TeardownInv,
         \/ MakeEngines \/ Fee \/ StartHttp \/ Layout \/ StartTicker \/ StartThermal
         \/ StartEngines \/ StartWatchdog \/ StartScheduler \/ RunClient
  PROVE  TeardownInv'
<1> USE DEF BuiltUnchanged, MineUnchanged, rigVars, threadVars, Goto, MainLabels
<1>1. CASE MakeEngines
  <2>1. pc = "engines" /\ alive = BuiltLocals /\ running = {}
    BY <1>1, AliveTable, StartedTable DEF MakeEngines, TeardownInv
  <2>2. alive' = AliveAt(pc') /\ running' \subseteq StartedAt(pc')
    BY <1>1, <2>1, AliveTable DEF MakeEngines, EngineLocals
  <2> QED BY <1>1, <2>1, <2>2, WayOn DEF MakeEngines
<1>2. CASE Fee
  <2>1. pc = "fee" /\ alive = EngineLocals /\ running = {}
    BY <1>2, AliveTable, StartedTable DEF Fee, TeardownInv
  <2>2. pc' \in {"http", "unwind"} /\ UNCHANGED <<mode, alive, running, jobs>>
    BY <1>2 DEF Fee
  <2>3. CASE pc' = "http"
    <3>1. alive' = AliveAt(pc') /\ running' \subseteq StartedAt(pc')
      BY <2>1, <2>2, <2>3, AliveTable
    <3> QED BY <2>1, <2>2, <2>3, <3>1, WayOn
  <2>4. CASE pc' = "unwind"
    BY <2>1, <2>2, <2>4, WayOut
  <2> QED BY <2>2, <2>3, <2>4
<1>3. CASE StartHttp
  <2>1. pc = "http" /\ alive = EngineLocals /\ running = {}
    BY <1>3, AliveTable, StartedTable DEF StartHttp, TeardownInv
  <2>2. alive' = AliveAt(pc') /\ running' \subseteq StartedAt(pc')
    BY <1>3, <2>1, AliveTable, StartedTable DEF StartHttp
  <2> QED BY <1>3, <2>1, <2>2, WayOn DEF StartHttp
<1>4. CASE Layout
  <2>1. pc = "layout" /\ alive = EngineLocals \cup {"http"} /\ running \subseteq {"http"}
    BY <1>4, AliveTable, StartedTable DEF Layout, TeardownInv
  <2>2. pc' \in {"ticker", "unwind"} /\ UNCHANGED <<mode, alive, running, jobs>>
    BY <1>4 DEF Layout
  <2>3. CASE pc' = "ticker"
    <3>1. alive' = AliveAt(pc') /\ running' \subseteq StartedAt(pc')
      BY <2>1, <2>2, <2>3, AliveTable, StartedTable
    <3> QED BY <2>1, <2>2, <2>3, <3>1, WayOn
  <2>4. CASE pc' = "unwind"
    <3>1. running' \subseteq alive' \cap StartedAt("sched") /\ "engines" \notin running'
      BY <2>1, <2>2, StartedTable
    <3> QED BY <2>1, <2>2, <2>4, <3>1, WayOut
  <2> QED BY <2>2, <2>3, <2>4
<1>5. CASE StartTicker
  <2>1. pc = "ticker" /\ alive = EngineLocals \cup {"http"} /\ running \subseteq {"http"}
    BY <1>5, AliveTable, StartedTable DEF StartTicker, TeardownInv
  <2>2. alive' = AliveAt(pc') /\ running' \subseteq StartedAt(pc')
    BY <1>5, <2>1, AliveTable, StartedTable DEF StartTicker
  <2> QED BY <1>5, <2>1, <2>2, WayOn DEF StartTicker
<1>6. CASE StartThermal
  <2>1. /\ pc = "limits" /\ alive = EngineLocals \cup {"http", "ticker"}
        /\ running \subseteq {"http", "ticker"}
    BY <1>6, AliveTable, StartedTable DEF StartThermal, TeardownInv
  <2>2. alive' = AliveAt(pc') /\ running' \subseteq StartedAt(pc')
    BY <1>6, <2>1, AliveTable, StartedTable DEF StartThermal
  <2> QED BY <1>6, <2>1, <2>2, WayOn DEF StartThermal
<1>7. CASE StartEngines
  <2>1. /\ pc = "start" /\ alive = EngineLocals \cup {"http", "ticker"}
        /\ running \subseteq {"http", "ticker", "thermal"}
    BY <1>7, AliveTable, StartedTable DEF StartEngines, TeardownInv
  <2>2. alive' = AliveAt(pc') /\ running' \subseteq StartedAt(pc')
    BY <1>7, <2>1, AliveTable, StartedTable DEF StartEngines, Engines
  <2> QED BY <1>7, <2>1, <2>2, WayOn DEF StartEngines
<1>8. CASE StartWatchdog
  <2>1. /\ pc = "watch" /\ alive = EngineLocals \cup {"http", "ticker"}
        /\ running \subseteq {"http", "ticker", "thermal", "engines"}
    BY <1>8, AliveTable, StartedTable DEF StartWatchdog, TeardownInv
  <2>2. /\ alive' = alive \cup {"watchdog"} /\ UNCHANGED <<mode, jobs>>
        /\ \/ pc' = "sched" /\ running' \in {running, running \cup {"watchdog"}}
           \/ pc' = "unwind" /\ running' = running
    BY <1>8 DEF StartWatchdog
  <2>3. CASE pc' = "sched" /\ running' \in {running, running \cup {"watchdog"}}
    <3>1. alive' = AliveAt(pc') /\ running' \subseteq StartedAt(pc')
      BY <2>1, <2>2, <2>3, AliveTable, StartedTable
    <3> QED BY <2>1, <2>2, <2>3, <3>1, WayOn
  <2>4. CASE pc' = "unwind" /\ running' = running
    <3>1. running' \subseteq alive' \cap StartedAt("sched") /\ "solvers" \in alive'
      BY <2>1, <2>2, <2>4, StartedTable DEF EngineLocals, BuiltLocals, Locals
    <3> QED BY <2>1, <2>2, <2>4, <3>1, WayOut
  <2> QED BY <2>2, <2>3, <2>4
<1>9. CASE StartScheduler
  <2>1. /\ pc = "sched" /\ alive = EngineLocals \cup {"http", "ticker", "watchdog"}
        /\ running \subseteq {"http", "ticker", "thermal", "engines", "watchdog"}
    BY <1>9, AliveTable, StartedTable DEF StartScheduler, TeardownInv
  <2>2. alive' = AliveAt(pc') /\ running' \subseteq StartedAt(pc')
    BY <1>9, <2>1, AliveTable, StartedTable DEF StartScheduler
  <2> QED BY <1>9, <2>1, <2>2, WayOn DEF StartScheduler
<1>10. CASE RunClient
  <2>1. /\ pc = "keys" /\ alive = EngineLocals \cup {"http", "ticker", "watchdog"}
        /\ running \subseteq {"http", "ticker", "thermal", "engines", "watchdog", "sched"}
    BY <1>10, AliveTable, StartedTable DEF RunClient, TeardownInv
  <2>2. alive' = AliveAt(pc') /\ running' \subseteq StartedAt(pc')
    BY <1>10, <2>1, AliveTable, StartedTable DEF RunClient, Threads
  <2> QED BY <1>10, <2>1, <2>2, WayOn DEF RunClient
<1> QED BY <1>1, <1>2, <1>3, <1>4, <1>5, <1>6, <1>7, <1>8, <1>9, <1>10

LEMMA TeardownInit == Init => TeardownInv
<1> SUFFICES ASSUME Init PROVE TeardownInv
  OBVIOUS
<1>1. pc = "join" /\ alive = Locals /\ running = {} /\ jobs = FALSE
  BY DEF Init, Locals
<1>2. AliveAt("join") = Locals
  BY AliveTable DEF Early
<1> QED BY <1>1, <1>2 DEF Init, TeardownInv, MainLabels, Early

LEMMA TeardownNext == TeardownInv /\ [Next]_vars => TeardownInv'
<1> SUFFICES ASSUME TeardownInv, [Next]_vars PROVE TeardownInv'
  OBVIOUS
<1>1. CASE Dispatch
  <2>1. /\ pc \in {"keys", "run"} /\ UNCHANGED <<mode, pc, alive, running>>
    BY <1>1 DEF Dispatch, TeardownInv, rigVars
  <2>2. AliveAt(pc)' = AliveAt(pc) /\ StartedAt(pc)' = StartedAt(pc)
    BY <2>1 DEF AliveAt, StartedAt
  <2>3. pc \in MainLabels /\ pc \notin {"unwind", "gone"}
    BY <2>1 DEF MainLabels, Early
  <2> QED BY <2>1, <2>2, <2>3 DEF TeardownInv
<1>2. CASE UNCHANGED vars
  <2>1. UNCHANGED <<mode, pc, alive, running, jobs>>
    BY <1>2 DEF vars, rigVars, threadVars
  <2>2. AliveAt(pc)' = AliveAt(pc) /\ StartedAt(pc)' = StartedAt(pc)
    BY <2>1 DEF AliveAt, StartedAt
  <2>3. \A t : Touches(t)' = Touches(t)
    BY <2>1 DEF Touches
  <2>4. StartedAt("sched")' = StartedAt("sched")
    BY DEF StartedAt
  <2> QED BY <2>1, <2>2, <2>3, <2>4 DEF TeardownInv
<1>3. CASE Halt
  BY <1>2, <1>3 DEF Halt
<1> QED BY <1>1, <1>2, <1>3, TeardownBuild, TeardownMeasure, TeardownMine, TeardownUnwind DEF Next

\* Which of main()'s locals are alive and which threads run over them, at each place of
\* its start-up and of the unwinding.
THEOREM TeardownInvariant == Spec => []TeardownInv
BY TeardownInit, TeardownNext, PTL DEF Spec

\* No thread can touch a local of main() that is gone, on any way out.
THEOREM TeardownStaysQuiet == Spec => []TeardownIsQuiet
<1>1. ASSUME TeardownInv, NEW t \in running PROVE Touches(t) \subseteq alive
  <2>1. CASE pc \in {"unwind", "gone"}
    BY <1>1, <2>1 DEF TeardownInv
  <2>2. CASE pc \in MainLabels \ {"keys", "run"}
    <3>1. /\ ~jobs /\ alive = AliveAt(pc) /\ running \subseteq StartedAt(pc)
      BY <1>1, <2>2 DEF TeardownInv
    <3>2. Locals \subseteq alive /\ StartedAt(pc) \subseteq StartedAt("sched")
      BY <2>2, <3>1, AliveTable, StartedTable DEF MainLabels, EngineLocals, BuiltLocals
    <3>3. StartedAt(pc) \subseteq alive /\ (StartedAt(pc) # {} => "solvers" \in alive)
      <4>1. CASE pc \in Early \cup {"build", "engines", "bench", "report", "measure", "fee", "http"}
        BY <4>1, StartedTable
      <4>2. CASE pc \in {"layout", "ticker"}
        BY <4>2, <3>1, AliveTable, StartedTable DEF EngineLocals, BuiltLocals, Locals
      <4>3. CASE pc \in {"limits", "start", "watch"}
        BY <4>3, <3>1, AliveTable, StartedTable DEF EngineLocals, BuiltLocals, Locals
      <4>4. CASE pc = "sched"
        BY <4>4, <3>1, AliveTable, StartedTable DEF EngineLocals, BuiltLocals, Locals
      <4> QED BY <2>2, <4>1, <4>2, <4>3, <4>4 DEF MainLabels
    <3> QED BY <1>1, <3>1, <3>2, <3>3, IdleThreads
  <2>3. CASE pc \in {"keys", "run"}
    <3>1. alive = AliveAt(pc) /\ running \subseteq StartedAt(pc)
      BY <1>1, <2>3 DEF TeardownInv, MainLabels
    <3>2. EngineLocals \subseteq alive
      BY <2>3, <3>1, AliveTable
    <3>3. t \in Threads
      BY <1>1, <2>3, <3>1, StartedTable DEF Threads
    <3>4. Touches(t) \subseteq EngineLocals
      BY <3>3, TouchTable DEF Threads, EngineLocals, BuiltLocals, Locals
    <3> QED BY <3>2, <3>4
  <2> QED BY <1>1, <2>1, <2>2, <2>3 DEF TeardownInv
<1>2. TeardownInv => TeardownIsQuiet
  BY <1>1 DEF TeardownIsQuiet
<1> QED BY <1>2, TeardownInvariant, PTL
=============================================================================
