------------------------------ MODULE Settings ------------------------------
(***************************************************************************)
(* What config.Load makes of an environment.  A variable holds what its    *)
(* writer may have put there: nothing, the placeholder of the example      *)
(* file, a text that is no base64 or no 32 bytes, or a real key.  The      *)
(* numbers, the ports and the durations are left out: a bad one becomes    *)
(* its default, and none is shared between instances.                      *)
(***************************************************************************)
EXTENDS FiniteSets

CONSTANTS
    Keys,        \* base64 texts of 32 bytes
    DevKey       \* the key that development derives from a variable's name

ASSUME KeysAreReal ==
    /\ DevKey \notin Keys
    /\ Keys \cap {"", "CHANGE_ME", "no base64", "too short"} = {}

KeyTexts == {"", "CHANGE_ME", "no base64", "too short"} \cup Keys
KeyNames == {"pii", "index", "code"}

Environments ==
    [app : {"", "development", "staging", "production"},
     pii : KeyTexts, index : KeyTexts, code : KeyTexts,
     db : {"", "dsn"}, origins : {"", " , ", "site"},
     turnstile : {"", "true", "false", "yes"}, secret : {"", "secret"}]

Configs ==
    [prod : BOOLEAN, pii : Keys \cup {DevKey}, index : Keys \cup {DevKey}, code : Keys \cup {DevKey},
     origins : SUBSET {"site"}, turnstile : BOOLEAN, secret : {"", "secret"}]

GetEnv(text, def) == IF text # "" THEN text ELSE def

(* Mutant of GetBool: whatever is not true is off. *)
GetBoolGarbled(text, def) == IF text = "" THEN def ELSE text = "true"

(* A text that is no boolean leaves the default. *)
GetBool(text, def) ==
    CASE text = "true"  -> TRUE
      [] text = "false" -> FALSE
      [] OTHER          -> def

(* Mutant of SplitCSV: the parts are not trimmed. *)
SplitCSVUntrimmed(text) == {text} \ {""}

(* Only parts that are not blank. *)
SplitCSV(text) == {text} \ {"", " , "}

Missing(text) == text \in {"", "CHANGE_ME"}

(* Mutant of KeyRefused: a text that is no key counts as none. *)
KeyRefusedUnlessText(env, name) == Missing(env[name]) /\ env.app = "production"

(* decodeKey ends in an error. *)
KeyRefused(env, name) ==
    IF Missing(env[name]) THEN env.app = "production" ELSE env[name] \notin Keys

(* What decodeKey returns else. *)
DecodeKey(env, name) == IF env[name] \in Keys THEN env[name] ELSE DevKey

Config(env) ==
    [prod |-> GetEnv(env.app, "development") = "production",
     pii |-> DecodeKey(env, "pii"), index |-> DecodeKey(env, "index"), code |-> DecodeKey(env, "code"),
     origins |-> SplitCSV(GetEnv(env.origins, "")),
     turnstile |-> GetBool(env.turnstile, TRUE), secret |-> env.secret]

(* Config.validate. *)
Valid(env, c) ==
    /\ env.db # ""
    /\ c.prod => c.origins # {} /\ (c.turnstile => c.secret # "")

(* Load returns a configuration, and no error. *)
Loads(env) ==
    /\ \A name \in KeyNames : ~KeyRefused(env, name)
    /\ Valid(env, Config(env))

(* What Load demands of a production start: three real keys, an origin, and *)
(* a secret wherever forms are checked.  It does not demand that they are:  *)
(* TURNSTILE_ENABLED=false loads, though SECURITY.md:26 says that the check *)
(* can be disabled only in development.                                     *)
Secured(c) ==
    /\ {c.pii, c.index, c.code} \subseteq Keys
    /\ c.origins # {}
    /\ c.turnstile => c.secret # ""
=============================================================================
