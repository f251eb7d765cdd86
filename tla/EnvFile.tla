------------------------------ MODULE EnvFile ------------------------------
(***************************************************************************)
(* discord_input/.env: the GUI's update_env_file writes the relay target   *)
(* into it, the bot's load_env_file reads it.  A line is a comment, a line *)
(* that sets nothing, or a key with its value.                             *)
(***************************************************************************)
EXTENDS Integers, Sequences, FiniteSets

CONSTANTS Key, Value, MaxLines

ASSUME EnvAssumption == IsFiniteSet(Key)

Comment == <<"comment">>
Set(key, value) == <<"set", key, value>>
Sets(line) == line # Comment
Line == {Comment} \cup {Set(k, v) : k \in Key, v \in Value}
Unset == "unset"

\* The lines that set a key, by their number
Setters(lines, key) == {i \in DOMAIN lines : Sets(lines[i]) /\ lines[i][2] = key}

\* Faulty variant of Replaced: the last line that sets the key is replaced.
ReplacedLast(lines, updates) ==
  [i \in DOMAIN lines |->
     IF Sets(lines[i]) /\ lines[i][2] \in DOMAIN updates
        /\ \A j \in Setters(lines, lines[i][2]) : j <= i
     THEN Set(lines[i][2], updates[lines[i][2]]) ELSE lines[i]]

Replaced(lines, updates) ==
  [i \in DOMAIN lines |->
     IF Sets(lines[i]) /\ lines[i][2] \in DOMAIN updates THEN Set(lines[i][2], updates[lines[i][2]]) ELSE lines[i]]

\* The keys of a dictionary in an order; which one does not matter, each is appended once.
InOrder(K) == CHOOSE s \in [1..Cardinality(K) -> K] : \A k \in K : \E i \in 1..Cardinality(K) : s[i] = k

\* update_env_file: every line with a key of the updates is replaced, the keys not found are
\* appended.
update_env_file(lines, updates) ==
  LET missing == InOrder({k \in DOMAIN updates : Setters(lines, k) = {}})
  IN  Replaced(lines, updates) \o [i \in DOMAIN missing |-> Set(missing[i], updates[missing[i]])]

\* load_env_file: setdefault keeps what the environment has, and then the first line.
load_env_file(lines, environ) ==
  [k \in Key |-> IF environ[k] # Unset \/ Setters(lines, k) = {} THEN environ[k]
                 ELSE lines[CHOOSE i \in Setters(lines, k) : \A j \in Setters(lines, k) : i <= j][3]]

VARIABLES
  env,       \* the lines of the file
  inherited, \* the environment the bot is started in
  environ    \* the bot's os.environ once it has loaded the file

envVars == <<env, inherited, environ>>

NoneSet == [k \in Key |-> Unset]

EnvInit == env = <<>> /\ inherited \in [Key -> {Unset} \cup Value] /\ environ = NoneSet

\* The user adds a line or removes the first.
AddLine == Len(env) < MaxLines /\ \E l \in Line : env' = Append(env, l) /\ UNCHANGED <<inherited, environ>>
RemoveLine == env # <<>> /\ env' = Tail(env) /\ UNCHANGED <<inherited, environ>>

\* sync_discord_relay
Sync(updates) ==
  /\ Len(update_env_file(env, updates)) <= MaxLines
  /\ env' = update_env_file(env, updates) /\ UNCHANGED <<inherited, environ>>

StartBot == environ' = load_env_file(env, inherited) /\ UNCHANGED <<env, inherited>>

EnvNext ==
  \/ AddLine \/ RemoveLine \/ StartBot
  \/ \E K \in (SUBSET Key) \ {{}} : \E updates \in [K -> Value] : Sync(updates)

EnvSpec == EnvInit /\ [][EnvNext]_envVars

(***************************************************************************)
(* Properties                                                              *)
(***************************************************************************)

\* A bot started after a sync uses the new target, however often a key is in the file, and
\* every other setting as before.
SyncIsLoaded ==
  [][env' # env => \A K \in (SUBSET Key) \ {{}} : \A updates \in [K -> Value] :
       Sync(updates) =>
         load_env_file(env', NoneSet)
           = [k \in Key |-> IF k \in K THEN updates[k] ELSE load_env_file(env, NoneSet)[k]]]_envVars

\* What the environment sets is not overridden by the file.
EnvironmentWins ==
  environ # NoneSet => \A k \in Key : inherited[k] # Unset => environ[k] = inherited[k]

\* What the GUI writes is what the bot loads: a sync changes what it says and nothing else,
\* and neither a sync nor an edit of the file overrides the environment.
EnvIsLoaded == SyncIsLoaded /\ []EnvironmentWins
=============================================================================
