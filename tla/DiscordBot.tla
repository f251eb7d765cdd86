----------------------------- MODULE DiscordBot -----------------------------
(***************************************************************************)
(* discord_input/discord_input_bot.py: on_message, a coroutine for every   *)
(* message.  What runs between two awaits is one action; append_audit_log  *)
(* and send_event run in threads, and end in any order.                    *)
(***************************************************************************)
EXTENDS PadTables, Sequences

CONSTANTS
  Message, User, Word,
  allowed_user_ids,  \* empty for everybody
  privileged_user_ids, privileged_commands,
  Cooldown,
  SendMax,           \* how long send_event may take
  MaxTime            \* how long the bot is watched

ASSUME DiscordAssumption == Cooldown \in Nat \ {0} /\ SendMax \in Nat /\ MaxTime \in Nat

VARIABLES
  clock,
  user, word,    \* message -> who wrote what
  phase,         \* message -> where its coroutine is
  acceptedAt,    \* message -> when it was accepted, and since when it waits for the relay
  last_by_user,  \* user -> when a command was accepted, or Never
  audit,         \* the audit log: <<message, allowed>>
  relayed        \* the messages that reached the bridge, in this order

botVars == <<clock, user, word, phase, acceptedAt, last_by_user, audit, relayed>>

Never == -Cooldown
Over == {"ignored", "denied", "cooling", "failed", "sent"}

BotTypeOK ==
  /\ clock \in Nat /\ user \in [Message -> User] /\ word \in [Message -> Word]
  /\ phase \in [Message -> {"unsent", "auditing", "sending"} \cup Over]
  /\ acceptedAt \in [Message -> {Never} \cup 0..clock] /\ last_by_user \in [User -> {Never} \cup 0..clock]
  /\ audit \subseteq Message \X BOOLEAN

BotInit ==
  /\ clock = 0 /\ user \in [Message -> User] /\ word \in [Message -> Word]
  /\ phase = [m \in Message |-> "unsent"] /\ acceptedAt = [m \in Message |-> Never]
  /\ last_by_user = [u \in User |-> Never] /\ audit = {} /\ relayed = <<>>

\* parse_command, and the checks that a message passes before the first await
Understood(m) ==
  /\ allowed_user_ids = {} \/ user[m] \in allowed_user_ids
  /\ word[m] \in DOMAIN COMMAND_ALIASES
Command(m) == COMMAND_ALIASES[word[m]]

Privileged(m) == Command(m) \in privileged_commands
MayUse(m) == user[m] \in privileged_user_ids

\* Faulty variant of Cooling: the time is taken before the first await.
CoolingEarly(m) == phase[m] = "unsent" /\ clock - last_by_user[user[m]] < Cooldown

Cooling(m) == clock - last_by_user[user[m]] < Cooldown

Stamp == clock

\* What follows the audit, up to the second await: one step of the event loop.
Proceed(m) ==
  IF Cooling(m)
  THEN phase' = [phase EXCEPT ![m] = "cooling"] /\ UNCHANGED <<acceptedAt, last_by_user>>
  ELSE /\ phase' = [phase EXCEPT ![m] = "sending"]
       /\ acceptedAt' = [acceptedAt EXCEPT ![m] = Stamp]
       /\ last_by_user' = [last_by_user EXCEPT ![user[m]] = Stamp]

OnMessage(m) ==
  /\ phase[m] = "unsent"
  /\ \/ ~Understood(m) /\ phase' = [phase EXCEPT ![m] = "ignored"] /\ UNCHANGED <<acceptedAt, last_by_user>>
     \/ Understood(m) /\ Privileged(m)
        /\ phase' = [phase EXCEPT ![m] = "auditing"] /\ UNCHANGED <<acceptedAt, last_by_user>>
     \/ Understood(m) /\ ~Privileged(m) /\ Proceed(m)
  /\ UNCHANGED <<clock, user, word, audit, relayed>>

\* The line is in the log, and the coroutine goes on.
Audit(m) ==
  /\ phase[m] = "auditing"
  /\ audit' = audit \cup {<<m, MayUse(m)>>}
  /\ IF MayUse(m) THEN Proceed(m) ELSE phase' = [phase EXCEPT ![m] = "denied"] /\ UNCHANGED <<acceptedAt, last_by_user>>
  /\ UNCHANGED <<clock, user, word, relayed>>

\* The log cannot be written: the error ends the coroutine.
AuditFails(m) ==
  /\ phase[m] = "auditing" /\ phase' = [phase EXCEPT ![m] = "failed"]
  /\ UNCHANGED <<clock, user, word, acceptedAt, last_by_user, audit, relayed>>

\* send_event: the line has reached the bridge, or the relay refused or timed out.
Relay(m) ==
  /\ phase[m] = "sending" /\ phase' = [phase EXCEPT ![m] = "sent"]
  /\ relayed' = Append(relayed, m)
  /\ UNCHANGED <<clock, user, word, acceptedAt, last_by_user, audit>>
RelayFails(m) ==
  /\ phase[m] = "sending" /\ phase' = [phase EXCEPT ![m] = "failed"]
  /\ UNCHANGED <<clock, user, word, acceptedAt, last_by_user, audit, relayed>>

\* Faulty variant of InTime: the connection has no timeout.
InTimeOrNot(m) == TRUE

\* create_connection has a timeout.
InTime(m) == phase[m] = "sending" => clock - acceptedAt[m] < SendMax

BotTick ==
  /\ clock < MaxTime /\ clock' = clock + 1
  /\ \A m \in Message : InTime(m)
  /\ UNCHANGED <<user, word, phase, acceptedAt, last_by_user, audit, relayed>>

BotNext ==
  \/ \E m \in Message : OnMessage(m) \/ Audit(m) \/ AuditFails(m) \/ Relay(m) \/ RelayFails(m)
  \/ BotTick

BotSpec == BotInit /\ [][BotNext]_botVars

(***************************************************************************)
(* Properties                                                              *)
(***************************************************************************)

\* The messages that passed the cooldown.
Accepted == {m \in Message : acceptedAt[m] # Never}

\* The cooldown holds for each user over all of their messages, those included that
\* waited for the audit log at the same time.
CooldownHolds ==
  \A m, n \in Accepted :
    (m # n /\ user[m] = user[n]) =>
      (acceptedAt[m] - acceptedAt[n] >= Cooldown \/ acceptedAt[n] - acceptedAt[m] >= Cooldown)

\* "Every privileged-command attempt is logged": a privileged command is sent only for a
\* privileged user and after it is in the log, and one that was refused is in the log too.
PrivilegeIsAudited ==
  \A m \in Message :
    (word[m] \in DOMAIN COMMAND_ALIASES /\ Command(m) \in privileged_commands) =>
      /\ phase[m] \in {"sending", "sent", "cooling"} => MayUse(m) /\ <<m, TRUE>> \in audit
      /\ phase[m] = "denied" => <<m, FALSE>> \in audit

\* The commands of one user reach the bridge in the order in which they were accepted,
\* if the relay takes less than the cooldown.
RelayedInOrder ==
  \A i, j \in 1..Len(relayed) :
    (i < j /\ user[relayed[i]] = user[relayed[j]]) => acceptedAt[relayed[i]] <= acceptedAt[relayed[j]]

\* Only commands that are due are relayed: those of a user who waited for the cooldown and,
\* where privileged, may use it and is in the audit log.
RelaysAreDue == BotTypeOK /\ CooldownHolds /\ PrivilegeIsAudited
=============================================================================
