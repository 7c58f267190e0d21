------------------------------ MODULE MCOptions ------------------------------
(* Operators who draw from one related set of keys each: TLC's instance of      *)
(* Options.  The fields of two themes meet only in the refusals of the modes.   *)
EXTENDS Options

MCThemes ==
  {{"file", "log_enabled", "log_path", "timeprint"},
   {"file", "tune", "report", "benchmark", "power_limit", "tune_caps", "tune_seconds"},
   {"file", "pools", "algo"},
   {"file", "pools", "list_devices", "benchmark"},
   {"file", "tstop", "tstart", "tmode", "tune"},
   {"file", "vstats", "hstats", "statsformat", "compactaccept"},
   {"file", "watchdog_requested", "watchdog_script", "no_oc_reset"},
   {"file", "apiport", "apihost", "solver", "devices", "devices_by_pcie"},
   {"file", "shortstats", "longstats", "digits", "silence", "nocolor"},
   {"file", "core_clock", "mem_clock", "core_offset", "mem_offset", "fan"},
   {"file", "keepfree_mb", "devfee_pct", "benchmark_seconds", "report_seconds",
    "report_out", "tune_min_gain", "list_algos", "list_coins"}}
==============================================================================
