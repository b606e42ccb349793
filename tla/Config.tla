-------------------------------- MODULE Config --------------------------------
(***************************************************************************)
(* internal/config/config.go: the gateway's configuration, read from the   *)
(* environment.  An environment is a record of raw values, grouped as Load *)
(* treats them; "" is a variable that is unset or empty, which only the    *)
(* email header's two readers of it, code and documentation, tell apart.   *)
(*                                                                         *)
(* A parse gives the set of its results: its one value, or {} where the    *)
(* code returns an error, so that a configuration exists if and only if    *)
(* every part of it does.                                                  *)
(***************************************************************************)
EXTENDS Integers

CONSTANTS MaxInt,          \* the largest int64, scaled down
          Kilo,            \* the factor of the suffix k, 1024 in the code
          DefaultBytes,    \* FilesMaxBytesDefault
          DefaultTimeout   \* FilesUploadTimeoutDefault

ASSUME ConfigAssumption ==
    /\ MaxInt \in Nat /\ Kilo \in Nat \ {0}
    /\ DefaultBytes \in 1..MaxInt /\ DefaultTimeout \in Nat \ {0}

JWTVars == {"jwks_url", "issuer", "audience"}

ExchangeVars == {"url", "client_id", "client_secret", "audience"}

Prefixes == {"feedback", "sessions", "traces"}

envOrDefault(raw, fallback) == IF raw \in {"unset", ""} THEN fallback ELSE raw

\* "true" is any spelling of it that the code takes: true, 1, yes, in any case.
envBool(raw) == raw = "true"

envBoolDefault(raw, fallback) == IF raw = "" THEN fallback ELSE envBool(raw)

-------------------------------------------------------------------------------
(* Sizes and durations: [form, n], and a suffix for a size.  A "number" may   *)
(* be any integer; what is no number, or only white space, has another form.  *)

Multiplier(suffix) ==
    CASE suffix = "" -> 1
      [] suffix = "k" -> Kilo
      [] suffix = "m" -> Kilo * Kilo
      [] suffix = "g" -> Kilo * Kilo * Kilo

\* What the type int64 makes of a product.
Wrap(n) == ((n + MaxInt + 1) % (2 * (MaxInt + 1))) - (MaxInt + 1)

\* Mutant: the check for a positive number lets zero through.
envBytesDefault_Zero(raw, fallback) ==
    CASE raw.form = "unset" -> {fallback}
      [] raw.form = "number" /\ raw.n \in 0..MaxInt -> {Wrap(raw.n * Multiplier(raw.suffix))}
      [] OTHER -> {}

\* ParseInt takes what fits, the number has to be positive, the product is not looked at.
envBytesDefault(raw, fallback) ==
    CASE raw.form = "unset" -> {fallback}
      [] raw.form = "number" /\ raw.n \in 1..MaxInt -> {Wrap(raw.n * Multiplier(raw.suffix))}
      [] OTHER -> {}

envDurationDefault(raw, fallback) ==
    CASE raw.form = "unset" -> {fallback}
      [] raw.form = "number" /\ raw.n > 0 -> {raw.n}
      [] OTHER -> {}

\* Zero is allowed, and white space counts as unset.
envDurationDefaultAllowZero(raw, fallback) ==
    CASE raw.form \in {"unset", "blank"} -> {fallback}
      [] raw.form = "number" /\ raw.n >= 0 -> {raw.n}
      [] OTHER -> {}

-------------------------------------------------------------------------------
(* MIME types: [type, sub, upper, param], whether any letter is upper-case    *)
(* and whether a parameter follows.  A type of "" is an entry left blank.     *)

Lower(mime) == [mime EXCEPT !.upper = FALSE]

\* Mutant: entries are kept as they are written.
parseMIMEList_AsIs(raw) == {entry \in raw : entry.type # ""}

parseMIMEList(raw) == {Lower(entry) : entry \in {e \in raw : e.type # ""}}

\* The type is compared without case and parameters; an entry keeps its parameters,
\* and the prefix of a wildcard is all up to the slash.
MIMEAllowed(allowed, mime) ==
    LET ct == [Lower(mime) EXCEPT !.param = FALSE]
    IN  \/ allowed = {}
        \/ /\ ct.type # ""
           /\ \/ ct \in allowed
              \/ \E entry \in allowed :
                    entry.sub = "*" /\ ~entry.param /\ ~entry.upper /\ entry.type = ct.type

-------------------------------------------------------------------------------
\* TrimRight(url, "/"): of a URL of slashes nothing remains.
TrimSlashes(url) == IF url = "/" THEN "" ELSE url

\* Where a prefix leads that may be routed to the platform.
TargetURL(config, prefix) ==
    IF config.platform # "" /\ config.route[prefix] THEN config.platform ELSE config.backend

JWTExchangeEnabled(config) == config.exchange = ExchangeVars

\* Mutant: a partial configuration only switches the exchange off.
validateExchangeConfig_Lenient(config) == TRUE

\* All four variables or none.
validateExchangeConfig(config) == config.exchange \in {{}, ExchangeVars}

\* The configuration of an environment.  What only jwt mode needs is only read in it.
Load(env) ==
    { config \in [ backend  : {env.backend} \ {""},
                   mode     : {envOrDefault(env.mode, "anonymous")},
                   email    : {envOrDefault(env.email, "X-Forwarded-Email")},
                   jwt      : {env.jwt},
                   exchange : {env.exchange},
                   refresh  : IF env.mode = "jwt"
                              THEN envDurationDefaultAllowZero(env.refresh, 0) ELSE {0},
                   platform : {TrimSlashes(env.platform)},
                   route    : {[p \in Prefixes |-> envBoolDefault(env.route[p], TRUE)]},
                   cap      : envBytesDefault(env.maxBytes, DefaultBytes),
                   timeout  : envDurationDefault(env.timeout, DefaultTimeout),
                   mime     : {parseMIMEList(env.mime)},
                   log      : {envBool(env.log)} ] :
      config.mode = "jwt" => config.jwt = JWTVars /\ validateExchangeConfig(config) }
===============================================================================
