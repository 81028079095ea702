------------------------------ MODULE Commands ------------------------------
(***************************************************************************)
(* The command queue of the devices: GET .../commands/pending, POST         *)
(* .../{id}/acknowledge and POST .../{id}/result, each one READ COMMITTED   *)
(* transaction over commands, program_executions and command_results.       *)
(*                                                                          *)
(* A slot is one HTTP request; a retry is another slot.  Acknowledge and    *)
(* result lock the command with SELECT ... FOR UPDATE and decide on its     *)
(* latest committed version.  A poll reads without a lock and locks each    *)
(* command it found PENDING only when it updates it.  A command and its     *)
(* execution correspond one to one, and an execution is written only by a   *)
(* transaction that has locked its command, so one lock stands for both.    *)
(* Writes are a transaction's own until it commits.                         *)
(***************************************************************************)
EXTENDS Integers, Sequences, FiniteSets

CONSTANTS
  None,           \* SQL NULL, an absent row
  Slots,          \* HTTP requests
  Devices,
  CommandIds,     \* ids of the rows of commands
  DeviceOf,       \* [CommandIds -> Devices]
  CreatedAt,      \* [CommandIds -> created_at]
  Limits,         \* values of the poll's limit parameter
  ResultKeys,     \* Idempotency-Keys of results
  ResultBodies,   \* bodies of results: [result, code, message]
  AckTimeout,     \* 30 s, in ticks of the instance
  ResultTimeout,  \* 120 s, in ticks of the instance
  StartTime,      \* the clock when the commands are there
  MaxTime         \* bound of the clock

ASSUME SlotsAssumption == IsFiniteSet(Slots) /\ None \notin Slots

ASSUME CommandsAssumption ==
  /\ CommandIds \subseteq Nat /\ IsFiniteSet(CommandIds)
  /\ None \notin CommandIds
  /\ DeviceOf \in [CommandIds -> Devices]
  /\ CreatedAt \in [CommandIds -> Nat]
  /\ \A c \in CommandIds : CreatedAt[c] <= StartTime

ASSUME TimesAssumption ==
  /\ AckTimeout \in Nat \ {0} /\ ResultTimeout \in Nat \ {0}
  /\ StartTime \in Nat /\ MaxTime \in Nat
  /\ None \notin Nat

ASSUME BodiesAssumption ==
  \A b \in ResultBodies :
    b.code \in Seq(STRING) \cup {None} /\ b.message \in Seq(STRING) \cup {None}

ASSUME LimitsAssumption == Limits \subseteq Nat \ {0}

Open == {"PENDING", "SENT"}
Terminal == {"SUCCESS", "FAILED"}

\* SELECT ... ORDER BY created_at, id LIMIT n.
Precedes(c, d) == CreatedAt[c] < CreatedAt[d] \/ (CreatedAt[c] = CreatedAt[d] /\ c < d)

Oldest(n, S) == {c \in S : Cardinality({d \in S : Precedes(d, c)}) < n}

(***************************************************************************)
(* The hash of a result is an HMAC (taken to be injective) of the text      *)
(* "result:code:message", in which an absent member reads "None".  Texts    *)
(* are sequences of words, of which ":" is one.                             *)
(***************************************************************************)
ResultHash(b) ==
  LET Text(x) == IF x = None THEN << "None" >> ELSE x
  IN  << b.result, ":" >> \o Text(b.code) \o << ":" >> \o Text(b.message)

\* A row of command_results; body stands for its payload column.
ResultRows == [key : ResultKeys, hash : {ResultHash(b) : b \in ResultBodies},
               body : ResultBodies, at : Nat]

ASSUME RowsAssumption == None \notin ResultRows

Requests ==
  [kind : {"poll"}, device : Devices, limit : Limits]
    \cup [kind : {"ack"}, device : Devices, command : CommandIds]
    \cup [kind : {"result"}, device : Devices, command : CommandIds,
          key : ResultKeys, body : ResultBodies]

\* "locking": acknowledge and result, before SELECT ... FOR UPDATE returns;
\* "select" and "sending": a poll; "commit": every statement is done.
InTransaction == {"locking", "select", "sending", "commit"}
Ended == {"answered", "lost"}
Places == {"idle", "replying"} \cup InTransaction \cup Ended

VARIABLES
  command,    \* commands: [status, ackedAt]
  execution,  \* program_executions: status, per command
  result,     \* command_results: [key, hash, body, at] or None
  events,     \* 'execution.completed' rows of events, counted per command
  clock,
  owner,      \* who holds each command's row lock, None when free
  pc,         \* where each request is
  request,
  sending,    \* commands a poll has still to mark SENT
  sent,       \* commands a poll has marked SENT in its transaction
  decidedAt,  \* "now" of an acknowledge or a result
  reply       \* the answer of each request, None before there is one

dbVars == << command, execution, result, events >>
vars == << dbVars, clock, owner, pc, request, sending, sent, decidedAt, reply >>

Init ==
  /\ command = [c \in CommandIds |-> [status |-> "PENDING", ackedAt |-> None]]
  /\ execution = [c \in CommandIds |-> "CREATED"]
  /\ result = [c \in CommandIds |-> None]
  /\ events = [c \in CommandIds |-> 0]
  /\ clock = StartTime
  /\ owner = [c \in CommandIds |-> None]
  /\ pc = [s \in Slots |-> "idle"]
  /\ request = [s \in Slots |-> None]
  /\ sending = [s \in Slots |-> {}]
  /\ sent = [s \in Slots |-> {}]
  /\ decidedAt = [s \in Slots |-> StartTime]
  /\ reply = [s \in Slots |-> None]

Goto(s, place) == pc' = [pc EXCEPT ![s] = place]

\* Postgres drops a transaction's locks when it ends.
ReleaseLocks(s) == owner' = [c \in CommandIds |-> IF owner[c] = s THEN None ELSE owner[c]]

TakeLock(s, c) == owner[c] = None /\ owner' = [owner EXCEPT ![c] = s]

Answer(s, answer) ==
  /\ reply' = [reply EXCEPT ![s] = answer]
  /\ Goto(s, "replying")

\* The transaction ends without a write.
Respond(s, answer) ==
  /\ Answer(s, answer)
  /\ ReleaseLocks(s)
  /\ UNCHANGED << dbVars, clock, request, sending, sent, decidedAt >>

\* The decision is to write: lock the command, remember "now", go to commit.
Decide(s, c) ==
  /\ TakeLock(s, c)
  /\ decidedAt' = [decidedAt EXCEPT ![s] = clock]
  /\ Goto(s, "commit")
  /\ UNCHANGED << dbVars, clock, request, sending, sent, reply >>
-----------------------------------------------------------------------------
\* A request with an accepted credential reaches its handler.
Receive(s, r) ==
  /\ pc[s] = "idle"
  /\ request' = [request EXCEPT ![s] = r]
  /\ Goto(s, IF r.kind = "poll" THEN "select" ELSE "locking")
  /\ UNCHANGED << dbVars, clock, owner, sending, sent, decidedAt, reply >>

\* The queue of a device as a poll's SELECT sees it: committed, not locked.
Queue(d, n) ==
  Oldest(n, {c \in CommandIds : DeviceOf[c] = d /\ command[c].status \in Open})

PollSelect(s) ==
  /\ pc[s] = "select"
  /\ LET queue == Queue(request[s].device, request[s].limit)
         pending == {c \in queue : command[c].status = "PENDING"}
     IN  /\ sending' = [sending EXCEPT ![s] = pending]
         /\ Goto(s, IF pending = {} THEN "commit" ELSE "sending")
  /\ UNCHANGED << dbVars, clock, owner, request, sent, decidedAt, reply >>

\* Mutation: the queue is not ordered.
PollSendAny(s) ==
  /\ pc[s] = "sending"
  /\ \E c \in sending[s] :
       /\ TakeLock(s, c)
       /\ sent' = [sent EXCEPT ![s] = @ \cup {c}]
       /\ sending' = [sending EXCEPT ![s] = @ \ {c}]
       /\ Goto(s, IF sending[s] = {c} THEN "commit" ELSE "sending")
  /\ UNCHANGED << dbVars, clock, request, decidedAt, reply >>

(***************************************************************************)
(* UPDATE commands SET status='SENT' WHERE id=...: waits for the row, and   *)
(* writes it whatever its status has become since the SELECT.               *)
(***************************************************************************)
PollSend(s) ==
  /\ pc[s] = "sending"
  /\ \E c \in sending[s] :
       /\ \A d \in sending[s] \ {c} : Precedes(c, d)
       /\ TakeLock(s, c)
       /\ sent' = [sent EXCEPT ![s] = @ \cup {c}]
       /\ sending' = [sending EXCEPT ![s] = @ \ {c}]
       /\ Goto(s, IF sending[s] = {c} THEN "commit" ELSE "sending")
  /\ UNCHANGED << dbVars, clock, request, decidedAt, reply >>

\* Mutation: the execution gets the command's status.
PollCommitSameStatus(s) ==
  /\ pc[s] = "commit"
  /\ request[s].kind = "poll"
  /\ command' = [c \in CommandIds |->
       IF c \in sent[s] THEN [command[c] EXCEPT !.status = "SENT"] ELSE command[c]]
  /\ execution' = [c \in CommandIds |-> IF c \in sent[s] THEN "SENT" ELSE execution[c]]
  /\ Answer(s, "OK")
  /\ ReleaseLocks(s)
  /\ UNCHANGED << result, events, clock, request, sending, sent, decidedAt >>

\* The execution moves to COMMAND_SENT only WHERE status='CREATED'.
PollCommit(s) ==
  /\ pc[s] = "commit"
  /\ request[s].kind = "poll"
  /\ command' = [c \in CommandIds |->
       IF c \in sent[s] THEN [command[c] EXCEPT !.status = "SENT"] ELSE command[c]]
  /\ execution' = [c \in CommandIds |->
       IF c \in sent[s] /\ execution[c] = "CREATED" THEN "COMMAND_SENT" ELSE execution[c]]
  /\ Answer(s, "OK")
  /\ ReleaseLocks(s)
  /\ UNCHANGED << result, events, clock, request, sending, sent, decidedAt >>
-----------------------------------------------------------------------------
\* SELECT ... WHERE id=... AND device_id=... finds no row.
NotFound(s) ==
  /\ pc[s] = "locking"
  /\ request[s].kind = "result" => request[s].body.result \in Terminal
  /\ DeviceOf[request[s].command] # request[s].device
  /\ Respond(s, "COMMAND_NOT_FOUND")

\* SELECT ... FOR UPDATE on the device's own command c has been granted.
Locked(s, kind, c) ==
  /\ pc[s] = "locking"
  /\ request[s].kind = kind
  /\ request[s].command = c
  /\ DeviceOf[c] = request[s].device
  /\ owner[c] = None

AckExpired(s) ==
  \E c \in CommandIds :
    /\ Locked(s, "ack", c)
    /\ command[c].status \in Open
    /\ CreatedAt[c] + AckTimeout <= clock
    /\ Respond(s, "COMMAND_EXPIRED")

\* Mutation: off by one at the deadline.
AckStartAtDeadline(s) ==
  \E c \in CommandIds :
    /\ Locked(s, "ack", c)
    /\ command[c].status \in Open
    /\ clock <= CreatedAt[c] + AckTimeout
    /\ Decide(s, c)

\* Mutation: a finished command can be started again.
AckStartAny(s) ==
  \E c \in CommandIds :
    /\ Locked(s, "ack", c)
    /\ clock < CreatedAt[c] + AckTimeout
    /\ Decide(s, c)

AckStart(s) ==
  \E c \in CommandIds :
    /\ Locked(s, "ack", c)
    /\ command[c].status \in Open
    /\ clock < CreatedAt[c] + AckTimeout
    /\ Decide(s, c)

\* Acknowledged before, perhaps finished: nothing is written.
AckAgain(s) ==
  \E c \in CommandIds :
    /\ Locked(s, "ack", c)
    /\ command[c].status \in {"ACKNOWLEDGED"} \cup Terminal
    /\ Respond(s, "OK")

\* Mutation: the execution is updated WHERE status='COMMAND_SENT'.
AckCommitWhereSent(s) ==
  /\ pc[s] = "commit"
  /\ request[s].kind = "ack"
  /\ LET c == request[s].command
     IN  /\ command' = [command EXCEPT ![c] =
                          [status |-> "ACKNOWLEDGED", ackedAt |-> decidedAt[s]]]
         /\ execution' = [execution EXCEPT ![c] = IF @ = "COMMAND_SENT" THEN "RUNNING" ELSE @]
  /\ Answer(s, "OK")
  /\ ReleaseLocks(s)
  /\ UNCHANGED << result, events, clock, request, sending, sent, decidedAt >>

AckCommit(s) ==
  /\ pc[s] = "commit"
  /\ request[s].kind = "ack"
  /\ LET c == request[s].command
     IN  /\ command' = [command EXCEPT ![c] =
                          [status |-> "ACKNOWLEDGED", ackedAt |-> decidedAt[s]]]
         /\ execution' = [execution EXCEPT ![c] = "RUNNING"]
  /\ Answer(s, "OK")
  /\ ReleaseLocks(s)
  /\ UNCHANGED << result, events, clock, request, sending, sent, decidedAt >>
-----------------------------------------------------------------------------
\* A result that is neither SUCCESS nor FAILED; nothing has been read yet.
RefuseResult(s) ==
  /\ pc[s] = "locking"
  /\ request[s].kind = "result"
  /\ request[s].body.result \notin Terminal
  /\ Respond(s, "INVALID_COMMAND_RESULT")

LockedForResult(s, c) ==
  /\ Locked(s, "result", c)
  /\ request[s].body.result \in Terminal

SameResult(s, c) ==
  /\ result[c].key = request[s].key
  /\ result[c].hash = ResultHash(request[s].body)

\* Mutation: the key alone makes a replay.
ResultReplayByKey(s) ==
  \E c \in CommandIds :
    /\ LockedForResult(s, c)
    /\ result[c] # None
    /\ result[c].key = request[s].key
    /\ Respond(s, "OK")

ResultReplay(s) ==
  \E c \in CommandIds :
    /\ LockedForResult(s, c)
    /\ result[c] # None
    /\ SameResult(s, c)
    /\ Respond(s, "OK")

ResultConflict(s) ==
  \E c \in CommandIds :
    /\ LockedForResult(s, c)
    /\ result[c] # None
    /\ ~SameResult(s, c)
    /\ Respond(s, "IDEMPOTENCY_CONFLICT")

ResultNotRunning(s) ==
  \E c \in CommandIds :
    /\ LockedForResult(s, c)
    /\ result[c] = None
    /\ command[c].status # "ACKNOWLEDGED"
    /\ Respond(s, "COMMAND_NOT_RUNNING")

ResultExpired(s) ==
  \E c \in CommandIds :
    /\ LockedForResult(s, c)
    /\ result[c] = None
    /\ command[c].status = "ACKNOWLEDGED"
    /\ command[c].ackedAt + ResultTimeout <= clock
    /\ Respond(s, "COMMAND_RESULT_EXPIRED")

\* Mutation: the command is read without FOR UPDATE.
ResultApplyUnlocked(s) ==
  \E c \in CommandIds :
    /\ pc[s] = "locking"
    /\ request[s].kind = "result" /\ request[s].command = c
    /\ result[c] = None
    /\ command[c].status = "ACKNOWLEDGED"
    /\ decidedAt' = [decidedAt EXCEPT ![s] = clock]
    /\ Goto(s, "commit")
    /\ UNCHANGED << dbVars, clock, owner, request, sending, sent, reply >>

ResultApply(s) ==
  \E c \in CommandIds :
    /\ LockedForResult(s, c)
    /\ result[c] = None
    /\ command[c].status = "ACKNOWLEDGED"
    /\ clock < command[c].ackedAt + ResultTimeout
    /\ Decide(s, c)

\* Mutation: the execution is not completed.
ResultCommitCommandOnly(s) ==
  /\ pc[s] = "commit"
  /\ request[s].kind = "result"
  /\ LET c == request[s].command
         b == request[s].body
     IN  /\ result' = [result EXCEPT ![c] =
              [key |-> request[s].key, hash |-> ResultHash(b), body |-> b, at |-> decidedAt[s]]]
         /\ command' = [command EXCEPT ![c].status = b.result]
         /\ events' = [events EXCEPT ![c] = @ + 1]
  /\ Answer(s, "OK")
  /\ ReleaseLocks(s)
  /\ UNCHANGED << execution, clock, request, sending, sent, decidedAt >>

ResultCommit(s) ==
  /\ pc[s] = "commit"
  /\ request[s].kind = "result"
  /\ LET c == request[s].command
         b == request[s].body
     IN  /\ result' = [result EXCEPT ![c] =
              [key |-> request[s].key, hash |-> ResultHash(b), body |-> b, at |-> decidedAt[s]]]
         /\ command' = [command EXCEPT ![c].status = b.result]
         /\ execution' = [execution EXCEPT ![c] = b.result]
         /\ events' = [events EXCEPT ![c] = @ + 1]
  /\ Answer(s, "OK")
  /\ ReleaseLocks(s)
  /\ UNCHANGED << clock, request, sending, sent, decidedAt >>
-----------------------------------------------------------------------------
\* The transaction rolls back: crash, dropped connection, 5 s deadline.
Abort(s) ==
  /\ pc[s] \in InTransaction
  /\ ReleaseLocks(s)
  /\ Goto(s, "lost")
  /\ UNCHANGED << dbVars, clock, request, sending, sent, decidedAt, reply >>

Deliver(s) ==
  /\ pc[s] = "replying"
  /\ Goto(s, "answered")
  /\ UNCHANGED << dbVars, clock, owner, request, sending, sent, decidedAt, reply >>

LoseReply(s) ==
  /\ pc[s] = "replying"
  /\ Goto(s, "lost")
  /\ UNCHANGED << dbVars, clock, owner, request, sending, sent, decidedAt, reply >>

Tick ==
  /\ clock < MaxTime
  /\ clock' = clock + 1
  /\ UNCHANGED << dbVars, owner, pc, request, sending, sent, decidedAt, reply >>

\* What the handler of s does by itself, as opposed to devices and failures.
Serve(s) ==
  \/ PollSelect(s) \/ PollSend(s) \/ PollCommit(s) \/ NotFound(s)
  \/ AckExpired(s) \/ AckStart(s) \/ AckAgain(s) \/ AckCommit(s)
  \/ RefuseResult(s) \/ ResultReplay(s) \/ ResultConflict(s) \/ ResultNotRunning(s)
  \/ ResultExpired(s) \/ ResultApply(s) \/ ResultCommit(s) \/ Deliver(s)

Step ==
  \/ \E s \in Slots :
       (\E r \in Requests : Receive(s, r)) \/ Serve(s) \/ Abort(s) \/ LoseReply(s)
  \/ Tick

\* Every slot of the instance is used up.
Over == (\A s \in Slots : pc[s] \in Ended) /\ UNCHANGED vars

Next == Step \/ Over

\* The runtime runs every handler that can run, and Postgres hands a free row
\* to a waiter.
Spec == Init /\ [][Next]_vars
FairSpec == Spec /\ \A s \in Slots : WF_vars(Serve(s))
-----------------------------------------------------------------------------
Statuses == Open \cup {"ACKNOWLEDGED"} \cup Terminal
ExecutionStatuses == {"CREATED", "COMMAND_SENT", "RUNNING"} \cup Terminal

\* Tables, locks and requests hold values of their types, the statuses of
\* the schema's CHECKs among them.
TypeOK ==
  /\ command \in [CommandIds -> [status : Statuses, ackedAt : Nat \cup {None}]]
  /\ execution \in [CommandIds -> ExecutionStatuses]
  /\ result \in [CommandIds -> ResultRows \cup {None}]
  /\ events \in [CommandIds -> Nat]
  /\ clock \in Nat
  /\ owner \in [CommandIds -> Slots \cup {None}]
  /\ pc \in [Slots -> Places]
  /\ request \in [Slots -> Requests \cup {None}]
  /\ sending \in [Slots -> SUBSET CommandIds]
  /\ sent \in [Slots -> SUBSET CommandIds]
  /\ decidedAt \in [Slots -> Nat]
  /\ DOMAIN reply = Slots

(***************************************************************************)
(* A terminal command carries its one result: the result row, the command   *)
(* and the execution name the same outcome, the command was acknowledged,   *)
(* and one completion event was recorded, none while there is no result.    *)
(***************************************************************************)
TerminalHasItsResult ==
  \A c \in CommandIds :
    /\ command[c].status \in Terminal =>
         /\ result[c] # None /\ result[c].body.result = command[c].status
         /\ execution[c] = command[c].status
    /\ result[c] # None => command[c].ackedAt # None
    /\ events[c] = IF result[c] = None THEN 0 ELSE 1

(***************************************************************************)
(* A device that was told its result is recorded can forget it: the row is  *)
(* there, under its key and with its outcome, whichever of its attempts was *)
(* answered and however many were lost.                                     *)
(***************************************************************************)
AnswersMatchResults ==
  \A s \in Slots :
    pc[s] \in {"replying", "answered"} /\ request[s].kind = "result" /\ reply[s] = "OK" =>
      LET row == result[request[s].command]
      IN  row # None /\ row.key = request[s].key /\ row.body.result = request[s].body.result

(***************************************************************************)
(* No INSERT of a result meets UNIQUE (command_id): while one transaction   *)
(* is about to insert a result, there is none and no other inserts one.     *)
(***************************************************************************)
ResultInsertsNeverCollide ==
  \A s, t \in Slots :
    /\ pc[s] = "commit" /\ request[s].kind = "result"
    /\ pc[t] \in InTransaction /\ request[t].kind = "result"
    /\ request[s].command = request[t].command
    => result[request[s].command] = None /\ (pc[t] = "commit" => s = t)

(***************************************************************************)
(* A program that runs was started within AckTimeout of its command's       *)
(* creation and reports within ResultTimeout of that, though polls may      *)
(* reopen a command and a device may acknowledge it twice: a result comes   *)
(* within the two deadlines together, the last tick of each excluded.       *)
(***************************************************************************)
FinishesInTime ==
  \A c \in CommandIds : result[c] # None =>
    result[c].at <= CreatedAt[c] + AckTimeout + ResultTimeout - 2

ExecutionOf(status) ==
  CASE status = "PENDING"      -> "CREATED"
    [] status = "SENT"         -> "COMMAND_SENT"
    [] status = "ACKNOWLEDGED" -> "RUNNING"
    [] status \in Terminal     -> status

Matches(c) == execution[c] = ExecutionOf(command[c].status)

\* Acknowledged once, and marked SENT by a poll that had read it before.
Reopened(c) == command[c].status = "SENT" /\ command[c].ackedAt # None

(***************************************************************************)
(* Command and execution disagree only while the command is reopened, and   *)
(* then its program runs or has ended.  Every other overlap, abort, lost    *)
(* answer or retry leaves them in agreement.                                *)
(***************************************************************************)
ExecutionAgreesUnlessReopened ==
  \A c \in CommandIds :
    IF Reopened(c) THEN execution[c] \in {"RUNNING"} \cup Terminal ELSE Matches(c)

\* contracts/command.yaml, "execution_state_matches_command_state".
ExecutionMatchesCommand == \A c \in CommandIds : Matches(c)

(***************************************************************************)
(* What a result decided stays decided: the row, its hash and its time are  *)
(* never rewritten, whatever polls, acknowledges and results come later.    *)
(***************************************************************************)
ResultsAreFinal ==
  [][\A c \in CommandIds : result[c] # None => result'[c] = result[c]]_vars

Rank(status) ==
  CASE status = "CREATED" -> 0 [] status = "COMMAND_SENT" -> 1
    [] status = "RUNNING" -> 2 [] status \in Terminal -> 3

(***************************************************************************)
(* A program runs once: an execution only moves forward and leaves no       *)
(* terminal status, unless its command had been reopened.                   *)
(***************************************************************************)
OnlyReopenedRunsAgain ==
  [][\A c \in CommandIds :
       execution'[c] # execution[c] =>
         Rank(execution[c]) < Rank(execution'[c]) \/ Reopened(c)]_vars

\* Every request ends: polls that lock several commands and results that lock
\* one never wait for each other in a circle.
EveryRequestEnds ==
  \A s \in Slots : pc[s] # "idle" ~> pc[s] \in Ended
(***************************************************************************)
(* The inductive invariant behind these properties.  A request that has     *)
(* decided to write owns the row it decided on, so what it saw there is     *)
(* still so when it commits; a poll owns the rows it marks SENT and knows   *)
(* nothing of them.  A command was acknowledged in time if at all.          *)
(***************************************************************************)
RequestIsKnown(s) ==
  pc[s] # "idle" =>
    /\ request[s] \in Requests
    /\ pc[s] \in {"select", "sending"} => request[s].kind = "poll"
    /\ pc[s] = "locking" => request[s].kind # "poll"

PollOwnsSent(s) ==
  /\ pc[s] \in {"idle", "locking", "select"} => sent[s] = {}
  /\ pc[s] \in {"sending", "commit"} => \A c \in sent[s] : owner[c] = s

AckStands(s) ==
  pc[s] = "commit" /\ request[s].kind = "ack" =>
    LET c == request[s].command
    IN  /\ owner[c] = s
        /\ command[c].status \in Open
        /\ decidedAt[s] < CreatedAt[c] + AckTimeout

ResultStands(s) ==
  pc[s] = "commit" /\ request[s].kind = "result" =>
    LET c == request[s].command
    IN  /\ owner[c] = s
        /\ result[c] = None
        /\ command[c].status = "ACKNOWLEDGED"
        /\ command[c].ackedAt # None
        /\ decidedAt[s] < command[c].ackedAt + ResultTimeout
        /\ request[s].body.result \in Terminal

AcknowledgedInTime(c) ==
  /\ command[c].ackedAt # None => command[c].ackedAt < CreatedAt[c] + AckTimeout
  /\ command[c].status = "ACKNOWLEDGED" => command[c].ackedAt # None
  /\ command[c].status = "PENDING" => command[c].ackedAt = None

RowIsHashed(c) == result[c] # None => result[c].hash = ResultHash(result[c].body)

\* What every request under way holds and knows, and what every row records.
IInv ==
  /\ TypeOK
  /\ \A s \in Slots : RequestIsKnown(s) /\ PollOwnsSent(s) /\ AckStands(s) /\ ResultStands(s)
  /\ \A c \in CommandIds : AcknowledgedInTime(c) /\ RowIsHashed(c)
  /\ TerminalHasItsResult
  /\ ExecutionAgreesUnlessReopened
  /\ FinishesInTime
=============================================================================
