---------------------------- MODULE Configuration ----------------------------
(***************************************************************************)
(* How a server instance gets its settings (thaumiel-config): layers of    *)
(* files and environment variables are merged, later ones winning, and a   *)
(* section is read from what they say or, when none of them says anything  *)
(* about it, taken as a whole from the code.                               *)
(*                                                                         *)
(* A layer is a function from some keys <<section, name>> to values; only  *)
(* the values that decide what an instance does have a name here.          *)
(***************************************************************************)
EXTENDS Naturals, Sequences

\* The keys of each section without which it cannot be read ...
Required ==
    [server    |-> {"bind", "port"},
     database  |-> {"backend", "url"},
     cache     |-> {"backend"},
     auth      |-> {"jwt_secret"},
     keygen    |-> {},
     telemetry |-> {}]

\* ... and those with a default of their own.
Optional ==
    [server    |-> {"cors_allowed_origins"},
     database  |-> {"max_connections"},
     cache     |-> {"redis_url"},
     auth      |-> {"jwt_ttl_secs", "provider"},
     keygen    |-> {"default_backend"},
     telemetry |-> {"log_level", "json", "metrics_enabled"}]

Sections == DOMAIN Required

Keys == UNION {{s} \X (Required[s] \cup Optional[s]) : s \in Sections}

Default(key) ==
    CASE key = <<"database", "backend">>       -> "sqlite"
      [] key = <<"database", "url">>           -> "sqlite://thaumiel.db?mode=rwc"
      [] key = <<"cache", "backend">>          -> "memory"
      [] key = <<"keygen", "default_backend">> -> "opaque"
      [] OTHER                                 -> "default"

\* What layer says, and what only the one below it does.
Over(layer, below) ==
    [key \in DOMAIN layer \cup DOMAIN below |->
        IF key \in DOMAIN layer THEN layer[key] ELSE below[key]]

\* Mutant of Merged: the first layer that says something wins.
MergedFirstWins(layers) ==
    LET merged[n \in 0 .. Len(layers)] ==
            IF n = 0 THEN <<>> ELSE Over(merged[n - 1], layers[n])
    IN  merged[Len(layers)]

\* default.toml, <env>.toml, THAUMIEL_*: each overrides those before it.
Merged(layers) ==
    LET merged[n \in 0 .. Len(layers)] ==
            IF n = 0 THEN <<>> ELSE Over(layers[n], merged[n - 1])
    IN  merged[Len(layers)]

Said(layers, section) ==
    {name \in Required[section] \cup Optional[section] :
        <<section, name>> \in DOMAIN Merged(layers)}

\* A section that is begun must be complete.
Loads(layers) ==
    \A s \in Sections : Said(layers, s) = {} \/ Required[s] \subseteq Said(layers, s)

Setting(layers, key) ==
    IF key \in DOMAIN Merged(layers) THEN Merged(layers)[key] ELSE Default(key)

\* AppConfig, as far as it decides what an instance does.
AppConfig(layers) ==
    [url             |-> Setting(layers, <<"database", "url">>),
     backend         |-> Setting(layers, <<"database", "backend">>),
     default_backend |-> Setting(layers, <<"keygen", "default_backend">>)]
=============================================================================
