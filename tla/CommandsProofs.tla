--------------------------- MODULE CommandsProofs ---------------------------
(* Commands, proved for any number of requests, commands and devices, and   *)
(* for any deadlines.                                                       *)
EXTENDS Commands, TLAPS

-----------------------------------------------------------------------------
(* What the pieces of a step return. *)

\* A request has the members of its kind.
LEMMA RequestType ==
  ASSUME NEW r \in Requests
  PROVE  /\ r.kind \in {"poll", "ack", "result"}
         /\ r.kind # "poll" => r.command \in CommandIds
         /\ r.kind = "result" => r.key \in ResultKeys /\ r.body \in ResultBodies
BY DEF Requests

\* Releasing a request's locks takes none from another.
LEMMA ReleaseLocksEffect ==
  ASSUME TypeOK, NEW s \in Slots, ReleaseLocks(s)
  PROVE  /\ owner' \in [CommandIds -> Slots \cup {None}]
         /\ \A t \in Slots \ {s} : \A c \in CommandIds : owner[c] = t => owner'[c] = t
BY DEF TypeOK, ReleaseLocks

\* Granting a lock that is free takes none from another.
LEMMA TakeLockEffect ==
  ASSUME TypeOK, NEW s \in Slots, NEW c \in CommandIds, TakeLock(s, c)
  PROVE  /\ owner' \in [CommandIds -> Slots \cup {None}]
         /\ owner'[c] = s
         /\ \A d \in CommandIds, t \in Slots : owner[d] = t => owner'[d] = t
BY SlotsAssumption DEF TypeOK, TakeLock

-----------------------------------------------------------------------------
(* The inductive invariant. *)

\* What a request holds and knows is safe from a step of another that leaves
\* it its locks and writes no row it has locked.
LEMMA OthersKeepTheirs ==
  ASSUME IInv, NEW t \in Slots,
         pc'[t] = pc[t], request'[t] = request[t],
         sent'[t] = sent[t], decidedAt'[t] = decidedAt[t],
         \A c \in CommandIds : owner[c] = t =>
           owner'[c] = t /\ command'[c] = command[c] /\ result'[c] = result[c]
  PROVE  (RequestIsKnown(t) /\ PollOwnsSent(t) /\ AckStands(t) /\ ResultStands(t))'
<1> USE DEF IInv
<1>1. RequestIsKnown(t)'
  BY DEF RequestIsKnown
<1>2. PollOwnsSent(t)'
  BY DEF PollOwnsSent, TypeOK
<1>3. ASSUME pc[t] = "commit", request[t].kind # "poll"
      PROVE  request[t].command \in CommandIds
  <2>1. request[t] \in Requests
    BY <1>3 DEF RequestIsKnown
  <2> QED BY <1>3, <2>1, RequestType
<1> HIDE DEF IInv
<1>4. AckStands(t) /\ ResultStands(t)
  BY DEF IInv
<1>5. AckStands(t)'
  BY <1>3, <1>4 DEF AckStands
<1>6. ResultStands(t)'
  BY <1>3, <1>4 DEF ResultStands
<1> QED BY <1>1, <1>2, <1>5, <1>6

\* What the rows record stays true while no row is written.
LEMMA RowsKeep ==
  ASSUME IInv, UNCHANGED dbVars
  PROVE  /\ \A c \in CommandIds : AcknowledgedInTime(c)' /\ RowIsHashed(c)'
         /\ (TerminalHasItsResult /\ ExecutionAgreesUnlessReopened /\ FinishesInTime)'
BY DEF IInv, dbVars, AcknowledgedInTime, RowIsHashed, TerminalHasItsResult,
       ExecutionAgreesUnlessReopened, Matches, Reopened, FinishesInTime

\* A step of s that writes no row, takes no lock away and leaves the other
\* requests alone; it must bring what the place it moves to requires.
LEMMA QuietStepPreservesIInv ==
  ASSUME IInv, NEW s \in Slots, UNCHANGED dbVars, TypeOK',
         \A t \in Slots \ {s} :
           /\ pc'[t] = pc[t] /\ request'[t] = request[t]
           /\ sent'[t] = sent[t] /\ decidedAt'[t] = decidedAt[t]
           /\ \A c \in CommandIds : owner[c] = t => owner'[c] = t,
         RequestIsKnown(s)', PollOwnsSent(s)', AckStands(s)', ResultStands(s)'
  PROVE  IInv'
<1>1. \A t \in Slots \ {s} :
        (RequestIsKnown(t) /\ PollOwnsSent(t) /\ AckStands(t) /\ ResultStands(t))'
  BY OthersKeepTheirs DEF dbVars
<1> QED BY <1>1, RowsKeep DEF IInv

\* A request that leaves its transaction without a write, or ends.
LEMMA LeavePreservesIInv ==
  ASSUME IInv, NEW s \in Slots, NEW place \in {"replying"} \cup Ended,
         pc[s] # "idle", Goto(s, place),
         ReleaseLocks(s) \/ UNCHANGED owner,
         UNCHANGED << dbVars, clock, request, sending, sent, decidedAt >>,
         DOMAIN reply' = Slots
  PROVE  IInv'
<1> USE DEF Ended
<1>1. /\ owner' \in [CommandIds -> Slots \cup {None}]
      /\ \A t \in Slots \ {s} : \A c \in CommandIds : owner[c] = t => owner'[c] = t
  BY ReleaseLocksEffect DEF IInv, TypeOK
<1>2. TypeOK'
  BY <1>1 DEF IInv, TypeOK, Goto, Places, dbVars
<1>3. pc'[s] = place /\ \A t \in Slots \ {s} : pc'[t] = pc[t]
  BY DEF IInv, TypeOK, Goto
<1>4. RequestIsKnown(s)' /\ PollOwnsSent(s)' /\ AckStands(s)' /\ ResultStands(s)'
  BY <1>3 DEF IInv, RequestIsKnown, PollOwnsSent, AckStands, ResultStands
<1> QED BY <1>1, <1>2, <1>3, <1>4, QuietStepPreservesIInv

\* The answers that are computed without a write.
LEMMA RespondPreservesIInv ==
  ASSUME IInv, NEW s \in Slots, NEW answer, pc[s] # "idle", Respond(s, answer)
  PROVE  IInv'
<1>1. DOMAIN reply' = Slots
  BY DEF IInv, TypeOK, Respond, Answer
<1> QED BY <1>1, LeavePreservesIInv DEF Respond, Answer

\* A new request holds nothing.
LEMMA ReceivePreservesIInv ==
  ASSUME IInv, NEW s \in Slots, NEW r \in Requests, Receive(s, r)
  PROVE  IInv'
<1> DEFINE place == IF r.kind = "poll" THEN "select" ELSE "locking"
<1>1. TypeOK'
  BY DEF IInv, TypeOK, Receive, Goto, Places, InTransaction, dbVars
<1>2. /\ pc'[s] = place /\ request'[s] = r
      /\ \A t \in Slots \ {s} : pc'[t] = pc[t] /\ request'[t] = request[t]
  BY DEF IInv, TypeOK, Receive, Goto
<1>3. sent'[s] = {}
  BY DEF IInv, Receive, PollOwnsSent
<1>4. RequestIsKnown(s)' /\ PollOwnsSent(s)' /\ AckStands(s)' /\ ResultStands(s)'
  BY <1>2, <1>3 DEF RequestIsKnown, PollOwnsSent, AckStands, ResultStands
<1> QED BY <1>1, <1>2, <1>4, QuietStepPreservesIInv DEF Receive

\* The SELECT of a poll locks nothing.
LEMMA PollSelectPreservesIInv ==
  ASSUME IInv, NEW s \in Slots, PollSelect(s)
  PROVE  IInv'
<1>1. PICK pending \in SUBSET CommandIds :
        /\ sending' = [sending EXCEPT ![s] = pending]
        /\ Goto(s, IF pending = {} THEN "commit" ELSE "sending")
  BY DEF PollSelect, Queue, Oldest
<1>2. TypeOK'
  BY <1>1 DEF IInv, TypeOK, PollSelect, Goto, Places, InTransaction, dbVars
<1>3. /\ pc'[s] \in {"commit", "sending"}
      /\ \A t \in Slots \ {s} : pc'[t] = pc[t]
  BY <1>1 DEF IInv, TypeOK, Goto
<1>4. request[s].kind = "poll" /\ request[s] \in Requests /\ sent[s] = {}
  BY DEF IInv, PollSelect, RequestIsKnown, PollOwnsSent
<1>5. RequestIsKnown(s)' /\ PollOwnsSent(s)' /\ AckStands(s)' /\ ResultStands(s)'
  BY <1>3, <1>4 DEF PollSelect, RequestIsKnown, PollOwnsSent, AckStands, ResultStands
<1> QED BY <1>2, <1>3, <1>5, QuietStepPreservesIInv DEF PollSelect

\* An UPDATE of a poll owns the row it marks.
LEMMA PollSendPreservesIInv ==
  ASSUME IInv, NEW s \in Slots, PollSend(s)
  PROVE  IInv'
<1>1. PICK c \in sending[s] :
        /\ TakeLock(s, c)
        /\ sent' = [sent EXCEPT ![s] = @ \cup {c}]
        /\ sending' = [sending EXCEPT ![s] = @ \ {c}]
        /\ Goto(s, IF sending[s] = {c} THEN "commit" ELSE "sending")
  BY DEF PollSend
<1>2. c \in CommandIds
  BY DEF IInv, TypeOK
<1>3. /\ owner' \in [CommandIds -> Slots \cup {None}]
      /\ owner'[c] = s
      /\ \A d \in CommandIds, t \in Slots : owner[d] = t => owner'[d] = t
  BY <1>1, <1>2, TakeLockEffect DEF IInv
<1>4. TypeOK'
  BY <1>1, <1>2, <1>3 DEF IInv, TypeOK, PollSend, Goto, Places, InTransaction, dbVars
<1>5. /\ pc'[s] \in {"commit", "sending"}
      /\ sent'[s] = sent[s] \cup {c}
      /\ \A t \in Slots \ {s} : pc'[t] = pc[t] /\ sent'[t] = sent[t]
  BY <1>1 DEF IInv, TypeOK, Goto
<1>6. /\ request[s].kind = "poll" /\ request[s] \in Requests
      /\ sent[s] \subseteq CommandIds /\ \A d \in sent[s] : owner[d] = s
  BY DEF IInv, TypeOK, PollSend, RequestIsKnown, PollOwnsSent
<1>7. RequestIsKnown(s)' /\ AckStands(s)' /\ ResultStands(s)'
  BY <1>5, <1>6 DEF PollSend, RequestIsKnown, AckStands, ResultStands
<1>8. PollOwnsSent(s)'
  BY <1>3, <1>5, <1>6 DEF PollOwnsSent
<1> QED BY <1>3, <1>4, <1>5, <1>7, <1>8, QuietStepPreservesIInv DEF PollSend

-----------------------------------------------------------------------------
\* The effect of a decision to write: the row is locked, "now" is on record.
LEMMA DecideEffect ==
  ASSUME IInv, NEW s \in Slots, NEW c \in CommandIds, Decide(s, c)
  PROVE  /\ TypeOK'
         /\ pc'[s] = "commit" /\ owner'[c] = s /\ decidedAt'[s] = clock
         /\ \A t \in Slots \ {s} :
              /\ pc'[t] = pc[t] /\ decidedAt'[t] = decidedAt[t]
              /\ \A d \in CommandIds : owner[d] = t => owner'[d] = t
         /\ PollOwnsSent(s)' \/ sent[s] # {}
<1>1. /\ owner' \in [CommandIds -> Slots \cup {None}]
      /\ owner'[c] = s
      /\ \A d \in CommandIds, t \in Slots : owner[d] = t => owner'[d] = t
  BY TakeLockEffect DEF IInv, Decide
<1>2. TypeOK'
  BY <1>1 DEF IInv, TypeOK, Decide, Goto, Places, InTransaction, dbVars
<1>3. /\ pc'[s] = "commit" /\ decidedAt'[s] = clock
      /\ \A t \in Slots \ {s} : pc'[t] = pc[t] /\ decidedAt'[t] = decidedAt[t]
  BY DEF IInv, TypeOK, Decide, Goto
<1>4. PollOwnsSent(s)' \/ sent[s] # {}
  BY <1>3 DEF Decide, PollOwnsSent
<1> QED BY <1>1, <1>2, <1>3, <1>4

\* SELECT ... FOR UPDATE of an acknowledge before the deadline.
LEMMA AckStartPreservesIInv ==
  ASSUME IInv, NEW s \in Slots, AckStart(s)
  PROVE  IInv'
<1>1. PICK c \in CommandIds :
        /\ Locked(s, "ack", c)
        /\ command[c].status \in Open
        /\ clock < CreatedAt[c] + AckTimeout
        /\ Decide(s, c)
  BY DEF AckStart
<1>2. /\ pc[s] = "locking" /\ request[s].kind = "ack" /\ request[s].command = c
      /\ request[s] \in Requests /\ request' = request /\ sent[s] = {} /\ sent' = sent
  BY <1>1 DEF IInv, Locked, RequestIsKnown, PollOwnsSent, Decide
<1>3. RequestIsKnown(s)' /\ AckStands(s)' /\ ResultStands(s)' /\ PollOwnsSent(s)'
  BY <1>1, <1>2, DecideEffect DEF RequestIsKnown, AckStands, ResultStands, Decide, dbVars
<1> QED BY <1>1, <1>2, <1>3, DecideEffect, QuietStepPreservesIInv DEF Decide

\* SELECT ... FOR UPDATE of a first result before the deadline.
LEMMA ResultApplyPreservesIInv ==
  ASSUME IInv, NEW s \in Slots, ResultApply(s)
  PROVE  IInv'
<1>1. PICK c \in CommandIds :
        /\ LockedForResult(s, c)
        /\ result[c] = None
        /\ command[c].status = "ACKNOWLEDGED"
        /\ clock < command[c].ackedAt + ResultTimeout
        /\ Decide(s, c)
  BY DEF ResultApply
<1>2. /\ pc[s] = "locking" /\ request[s].kind = "result" /\ request[s].command = c
      /\ request[s].body.result \in Terminal
      /\ request[s] \in Requests /\ request' = request /\ sent[s] = {} /\ sent' = sent
  BY <1>1 DEF IInv, LockedForResult, Locked, RequestIsKnown, PollOwnsSent, Decide
<1>3. command' = command /\ result' = result /\ command[c].ackedAt # None
  BY <1>1 DEF IInv, Decide, dbVars, AcknowledgedInTime
<1>4. RequestIsKnown(s)' /\ AckStands(s)' /\ ResultStands(s)' /\ PollOwnsSent(s)'
  BY <1>1, <1>2, <1>3, DecideEffect DEF RequestIsKnown, AckStands, ResultStands
<1> QED BY <1>1, <1>2, <1>4, DecideEffect, QuietStepPreservesIInv DEF Decide
-----------------------------------------------------------------------------
(* The three commits.  Each writes only rows its request has locked, so the *)
(* other requests keep theirs; what is left to show is about those rows.    *)

\* A commit that writes locked rows of its own keeps the invariant if the
\* rows it leaves behind are sound.
LEMMA CommitPreservesIInv ==
  ASSUME IInv, NEW s \in Slots, pc[s] = "commit",
         ReleaseLocks(s), Answer(s, "OK"), TypeOK',
         UNCHANGED << request, sent, decidedAt >>,
         \A c \in CommandIds : owner[c] # s =>
           command'[c] = command[c] /\ result'[c] = result[c],
         \A c \in CommandIds : AcknowledgedInTime(c)' /\ RowIsHashed(c)',
         (TerminalHasItsResult /\ ExecutionAgreesUnlessReopened /\ FinishesInTime)'
  PROVE  IInv'
<1>1. pc'[s] = "replying" /\ \A t \in Slots \ {s} : pc'[t] = pc[t]
  BY DEF IInv, TypeOK, Answer, Goto
<1>2. RequestIsKnown(s)' /\ PollOwnsSent(s)' /\ AckStands(s)' /\ ResultStands(s)'
  BY <1>1 DEF IInv, RequestIsKnown, PollOwnsSent, AckStands, ResultStands
<1>3. \A t \in Slots \ {s} :
        (RequestIsKnown(t) /\ PollOwnsSent(t) /\ AckStands(t) /\ ResultStands(t))'
  BY <1>1, ReleaseLocksEffect, OthersKeepTheirs DEF IInv
<1> QED BY <1>2, <1>3 DEF IInv

\* What a commit does to the request that commits.
LEMMA CommitTypeOK ==
  ASSUME TypeOK, NEW s \in Slots, ReleaseLocks(s), Answer(s, "OK"),
         UNCHANGED << clock, request, sending, sent, decidedAt >>,
         command' \in [CommandIds -> [status : Statuses, ackedAt : Nat \cup {None}]],
         execution' \in [CommandIds -> ExecutionStatuses],
         result' \in [CommandIds -> ResultRows \cup {None}],
         events' \in [CommandIds -> Nat]
  PROVE  TypeOK'
<1>1. owner' \in [CommandIds -> Slots \cup {None}]
  BY ReleaseLocksEffect
<1> QED BY <1>1 DEF TypeOK, Answer, Goto, Places

\* A poll writes SENT over the commands it has locked, whatever they are.
LEMMA PollCommitPreservesIInv ==
  ASSUME IInv, NEW s \in Slots, PollCommit(s)
  PROVE  IInv'
<1>1. \A c \in CommandIds :
        /\ command'[c] = IF c \in sent[s] THEN [command[c] EXCEPT !.status = "SENT"]
                                          ELSE command[c]
        /\ execution'[c] = IF c \in sent[s] /\ execution[c] = "CREATED"
                           THEN "COMMAND_SENT" ELSE execution[c]
  BY DEF PollCommit
<1>2. \A c \in CommandIds :
        /\ command[c] \in [status : Statuses, ackedAt : Nat \cup {None}]
        /\ execution[c] \in ExecutionStatuses
  BY DEF IInv, TypeOK
<1>3. \A c \in CommandIds :
        /\ command'[c] \in [status : Statuses, ackedAt : Nat \cup {None}]
        /\ command'[c].ackedAt = command[c].ackedAt
        /\ command'[c].status = IF c \in sent[s] THEN "SENT" ELSE command[c].status
        /\ execution'[c] \in ExecutionStatuses
  BY <1>1, <1>2 DEF Statuses, Open, ExecutionStatuses
<1>4. TypeOK'
  <2>1. command' \in [CommandIds -> [status : Statuses, ackedAt : Nat \cup {None}]]
    BY <1>3 DEF PollCommit
  <2>2. execution' \in [CommandIds -> ExecutionStatuses]
    BY <1>3 DEF PollCommit
  <2> QED BY <2>1, <2>2, CommitTypeOK DEF IInv, TypeOK, PollCommit
<1>5. \A c \in CommandIds : owner[c] # s =>
        command'[c] = command[c] /\ result'[c] = result[c]
  BY <1>1 DEF IInv, PollCommit, PollOwnsSent
<1>6. \A c \in CommandIds : AcknowledgedInTime(c)' /\ RowIsHashed(c)'
  BY <1>3 DEF IInv, PollCommit, AcknowledgedInTime, RowIsHashed
<1>7. TerminalHasItsResult'
  BY <1>1, <1>3 DEF IInv, PollCommit, TerminalHasItsResult, Terminal
<1>8. ExecutionAgreesUnlessReopened'
  <2> SUFFICES ASSUME NEW c \in CommandIds
               PROVE  IF Reopened(c)' THEN execution'[c] \in {"RUNNING"} \cup Terminal
                      ELSE Matches(c)'
    BY DEF ExecutionAgreesUnlessReopened
  <2>1. IF Reopened(c) THEN execution[c] \in {"RUNNING"} \cup Terminal ELSE Matches(c)
    BY DEF IInv, ExecutionAgreesUnlessReopened
  <2>2. CASE c \notin sent[s]
    BY <1>1, <1>3, <2>1, <2>2 DEF Reopened, Matches
  <2>3. ASSUME c \in sent[s], command[c].ackedAt = None
        PROVE  Matches(c)'
    <3>1. command[c].status \in Open
      BY <1>2, <2>3 DEF IInv, AcknowledgedInTime, TerminalHasItsResult, Statuses
    <3>2. execution[c] \in {"CREATED", "COMMAND_SENT"}
      BY <2>1, <2>3, <3>1 DEF Reopened, Matches, ExecutionOf, Open, Terminal
    <3> QED BY <1>1, <1>3, <2>3, <3>2 DEF Matches, ExecutionOf, Terminal
  <2>4. ASSUME c \in sent[s], command[c].ackedAt # None
        PROVE  Reopened(c)' /\ execution'[c] \in {"RUNNING"} \cup Terminal
    <3>1. command[c].status # "PENDING"
      BY <2>4 DEF IInv, AcknowledgedInTime
    <3>2. execution[c] \in {"RUNNING"} \cup Terminal
      BY <1>2, <2>1, <2>4, <3>1 DEF Reopened, Matches, ExecutionOf, Statuses, Open, Terminal
    <3> QED BY <1>1, <1>3, <2>4, <3>2 DEF Reopened, Terminal
  <2> QED BY <1>3, <2>2, <2>3, <2>4 DEF Reopened
<1>9. FinishesInTime'
  BY DEF IInv, PollCommit, FinishesInTime
<1> QED BY <1>4, <1>5, <1>6, <1>7, <1>8, <1>9, CommitPreservesIInv DEF PollCommit

\* An acknowledge starts the execution at the time it decided on.
LEMMA AckCommitPreservesIInv ==
  ASSUME IInv, NEW s \in Slots, AckCommit(s)
  PROVE  IInv'
<1> DEFINE c == request[s].command
<1>1. c \in CommandIds /\ owner[c] = s /\ decidedAt[s] < CreatedAt[c] + AckTimeout
  <2>1. request[s] \in Requests /\ AckStands(s)
    BY DEF IInv, AckCommit, RequestIsKnown
  <2> QED BY <2>1, RequestType DEF AckCommit, AckStands
<1>2. decidedAt[s] \in Nat
  BY DEF IInv, TypeOK
<1>3. /\ command' = [command EXCEPT ![c] = [status |-> "ACKNOWLEDGED", ackedAt |-> decidedAt[s]]]
      /\ execution' = [execution EXCEPT ![c] = "RUNNING"]
  BY DEF AckCommit
<1> HIDE DEF c
<1>4. /\ command'[c] = [status |-> "ACKNOWLEDGED", ackedAt |-> decidedAt[s]]
      /\ execution'[c] = "RUNNING"
      /\ \A d \in CommandIds \ {c} : command'[d] = command[d] /\ execution'[d] = execution[d]
  BY <1>1, <1>3 DEF IInv, TypeOK
<1>5. TypeOK'
  <2>1. command' \in [CommandIds -> [status : Statuses, ackedAt : Nat \cup {None}]]
    BY <1>2, <1>3 DEF IInv, TypeOK, Statuses
  <2>2. execution' \in [CommandIds -> ExecutionStatuses]
    BY <1>3 DEF IInv, TypeOK, ExecutionStatuses
  <2> QED BY <2>1, <2>2, CommitTypeOK DEF IInv, TypeOK, AckCommit
<1>6. \A d \in CommandIds : owner[d] # s => command'[d] = command[d] /\ result'[d] = result[d]
  BY <1>1, <1>4 DEF AckCommit
<1>7. \A d \in CommandIds : AcknowledgedInTime(d)' /\ RowIsHashed(d)'
  BY <1>1, <1>2, <1>4, TimesAssumption DEF IInv, AckCommit, AcknowledgedInTime, RowIsHashed
<1>8. TerminalHasItsResult'
  BY <1>2, <1>4, TimesAssumption DEF IInv, AckCommit, TerminalHasItsResult, Terminal
<1>9. ExecutionAgreesUnlessReopened'
  <2>1. command'[c].status = "ACKNOWLEDGED" /\ ExecutionOf("ACKNOWLEDGED") = "RUNNING"
    BY <1>4 DEF ExecutionOf, Terminal
  <2> QED BY <1>4, <2>1 DEF IInv, ExecutionAgreesUnlessReopened, Matches, Reopened
<1>10. FinishesInTime'
  BY DEF IInv, AckCommit, FinishesInTime
<1> QED BY <1>5, <1>6, <1>7, <1>8, <1>9, <1>10, CommitPreservesIInv DEF AckCommit

\* A result completes the command it locked, which had none.
LEMMA ResultCommitPreservesIInv ==
  ASSUME IInv, NEW s \in Slots, ResultCommit(s)
  PROVE  IInv'
<1> DEFINE c == request[s].command
           b == request[s].body
           row == [key |-> request[s].key, hash |-> ResultHash(b), body |-> b, at |-> decidedAt[s]]
<1>1. /\ c \in CommandIds /\ b \in ResultBodies /\ request[s].key \in ResultKeys
      /\ owner[c] = s /\ result[c] = None /\ command[c].ackedAt # None
      /\ decidedAt[s] < command[c].ackedAt + ResultTimeout
      /\ b.result \in Terminal
  <2>1. request[s] \in Requests /\ ResultStands(s)
    BY DEF IInv, ResultCommit, RequestIsKnown
  <2> QED BY <2>1, RequestType DEF ResultCommit, ResultStands
<1>2. decidedAt[s] \in Nat /\ command[c].ackedAt \in Nat
      /\ command[c] \in [status : Statuses, ackedAt : Nat \cup {None}]
  BY <1>1 DEF IInv, TypeOK
<1>3. /\ result' = [result EXCEPT ![c] = row]
      /\ command' = [command EXCEPT ![c].status = b.result]
      /\ execution' = [execution EXCEPT ![c] = b.result]
      /\ events' = [events EXCEPT ![c] = @ + 1]
  BY DEF ResultCommit
<1>4. row \in ResultRows /\ row.body = b /\ row.at = decidedAt[s] /\ row.hash = ResultHash(b)
  BY <1>1, <1>2 DEF ResultRows
<1>5. row # None
  BY <1>4, RowsAssumption
<1> HIDE DEF c, b, row
<1>6. /\ result'[c] = row
      /\ command'[c].status = b.result /\ command'[c].ackedAt = command[c].ackedAt
      /\ execution'[c] = b.result
      /\ events'[c] = events[c] + 1
      /\ \A d \in CommandIds \ {c} :
           /\ command'[d] = command[d] /\ execution'[d] = execution[d]
           /\ result'[d] = result[d] /\ events'[d] = events[d]
  BY <1>1, <1>2, <1>3 DEF IInv, TypeOK
<1>7. TypeOK'
  <2>1. command' \in [CommandIds -> [status : Statuses, ackedAt : Nat \cup {None}]]
    BY <1>1, <1>3 DEF IInv, TypeOK, Statuses
  <2>2. execution' \in [CommandIds -> ExecutionStatuses]
    BY <1>1, <1>3 DEF IInv, TypeOK, ExecutionStatuses
  <2>3. result' \in [CommandIds -> ResultRows \cup {None}]
    BY <1>3, <1>4 DEF IInv, TypeOK
  <2>4. events' \in [CommandIds -> Nat]
    <3>1. events \in [CommandIds -> Nat] /\ \A d \in CommandIds : events[d] + 1 \in Nat
      BY DEF IInv, TypeOK
    <3> QED BY <1>3, <3>1
  <2> QED BY <2>1, <2>2, <2>3, <2>4, CommitTypeOK DEF IInv, ResultCommit
<1>8. \A d \in CommandIds : owner[d] # s => command'[d] = command[d] /\ result'[d] = result[d]
  BY <1>1, <1>6
<1>9. \A d \in CommandIds : AcknowledgedInTime(d)' /\ RowIsHashed(d)'
  BY <1>1, <1>4, <1>6 DEF IInv, AcknowledgedInTime, RowIsHashed, Terminal
<1>10. TerminalHasItsResult'
  BY <1>1, <1>4, <1>5, <1>6 DEF IInv, TerminalHasItsResult
<1>11. ExecutionAgreesUnlessReopened'
  BY <1>1, <1>6 DEF IInv, ExecutionAgreesUnlessReopened, Matches, Reopened, ExecutionOf, Terminal
<1>12. FinishesInTime'
  <2>1. command[c].ackedAt < CreatedAt[c] + AckTimeout
    BY <1>1 DEF IInv, AcknowledgedInTime
  <2>2. decidedAt[s] <= CreatedAt[c] + AckTimeout + ResultTimeout - 2
    BY <1>1, <1>2, <2>1, TimesAssumption, CommandsAssumption
  <2> QED BY <1>4, <1>6, <2>2 DEF IInv, FinishesInTime
<1> QED BY <1>7, <1>8, <1>9, <1>10, <1>11, <1>12, CommitPreservesIInv DEF ResultCommit
-----------------------------------------------------------------------------
\* Before any request.
LEMMA InitIInv == Init => IInv
<1> SUFFICES ASSUME Init PROVE IInv
  OBVIOUS
<1> USE DEF Init
<1>1. TypeOK
  BY TimesAssumption DEF TypeOK, Statuses, Open, ExecutionStatuses, Places
<1>2. \A s \in Slots : RequestIsKnown(s) /\ PollOwnsSent(s) /\ AckStands(s) /\ ResultStands(s)
  BY DEF RequestIsKnown, PollOwnsSent, AckStands, ResultStands
<1>3. \A c \in CommandIds : AcknowledgedInTime(c) /\ RowIsHashed(c)
  BY DEF AcknowledgedInTime, RowIsHashed
<1>4. TerminalHasItsResult /\ FinishesInTime
  BY DEF TerminalHasItsResult, FinishesInTime, Terminal
<1>5. ExecutionAgreesUnlessReopened
  <2>1. ExecutionOf("PENDING") = "CREATED"
    BY DEF ExecutionOf, Terminal
  <2> QED BY <2>1 DEF ExecutionAgreesUnlessReopened, Matches, Reopened
<1> QED BY <1>1, <1>2, <1>3, <1>4, <1>5 DEF IInv

\* The clock writes nothing and takes nothing away.
LEMMA TickPreservesIInv ==
  ASSUME IInv, Tick
  PROVE  IInv'
<1>1. TypeOK'
  BY DEF IInv, TypeOK, Tick, dbVars
<1>2. \A s \in Slots :
        (RequestIsKnown(s) /\ PollOwnsSent(s) /\ AckStands(s) /\ ResultStands(s))'
  BY OthersKeepTheirs DEF Tick, dbVars
<1> QED BY <1>1, <1>2, RowsKeep DEF IInv, Tick

\* The answers of the handlers that write nothing.
LEMMA RefusalPreservesIInv ==
  ASSUME IInv, NEW s \in Slots,
         \/ NotFound(s) \/ AckExpired(s) \/ AckAgain(s) \/ RefuseResult(s) \/ ResultReplay(s)
         \/ ResultConflict(s) \/ ResultNotRunning(s) \/ ResultExpired(s)
  PROVE  IInv'
<1>1. pc[s] # "idle" /\ \E answer : Respond(s, answer)
  BY DEF NotFound, AckExpired, AckAgain, RefuseResult, ResultReplay, ResultConflict,
         ResultNotRunning, ResultExpired, LockedForResult, Locked
<1> QED BY <1>1, RespondPreservesIInv

\* Every step of the system preserves the invariant.
LEMMA NextIInv == IInv /\ [Next]_vars => IInv'
<1> SUFFICES ASSUME IInv, [Next]_vars PROVE IInv'
  OBVIOUS
<1>1. ASSUME NEW s \in Slots, NEW r \in Requests, Receive(s, r) PROVE IInv'
  BY <1>1, ReceivePreservesIInv
<1>2. ASSUME NEW s \in Slots, Serve(s) PROVE IInv'
  <2>1. CASE PollSelect(s) \/ PollSend(s) \/ PollCommit(s)
    BY <2>1, PollSelectPreservesIInv, PollSendPreservesIInv, PollCommitPreservesIInv
  <2>2. CASE AckStart(s) \/ AckCommit(s)
    BY <2>2, AckStartPreservesIInv, AckCommitPreservesIInv
  <2>3. CASE ResultApply(s) \/ ResultCommit(s)
    BY <2>3, ResultApplyPreservesIInv, ResultCommitPreservesIInv
  <2>4. CASE \/ NotFound(s) \/ AckExpired(s) \/ AckAgain(s) \/ RefuseResult(s)
             \/ ResultReplay(s) \/ ResultConflict(s) \/ ResultNotRunning(s) \/ ResultExpired(s)
    BY <2>4, RefusalPreservesIInv
  <2>5. CASE Deliver(s)
    <3>1. DOMAIN reply' = Slots
      BY <2>5 DEF IInv, TypeOK, Deliver
    <3> QED BY <2>5, <3>1, LeavePreservesIInv DEF Deliver, Ended
  <2> QED BY <1>2, <2>1, <2>2, <2>3, <2>4, <2>5 DEF Serve
<1>3. ASSUME NEW s \in Slots, Abort(s) \/ LoseReply(s) PROVE IInv'
  <2>1. DOMAIN reply' = Slots /\ pc[s] # "idle"
    BY <1>3 DEF IInv, TypeOK, Abort, LoseReply, InTransaction
  <2> QED BY <1>3, <2>1, LeavePreservesIInv DEF Abort, LoseReply, Ended
<1>4. CASE Tick
  BY <1>4, TickPreservesIInv
<1>5. CASE UNCHANGED vars
  <2>1. TypeOK'
    BY <1>5 DEF IInv, TypeOK, vars, dbVars
  <2>2. \A s \in Slots :
          (RequestIsKnown(s) /\ PollOwnsSent(s) /\ AckStands(s) /\ ResultStands(s))'
    BY <1>5, OthersKeepTheirs DEF vars, dbVars
  <2> QED BY <1>5, <2>1, <2>2, RowsKeep DEF IInv, vars
<1> QED BY <1>1, <1>2, <1>3, <1>4, <1>5 DEF Next, Step, Over

\* Every request under way owns the rows it decided on, and every row that
\* records an acknowledge or a result is sound.
THEOREM Invariance == Spec => []IInv
<1> QED BY InitIInv, NextIInv, PTL DEF Spec

\* Tables, locks and requests always hold values of their types.
THEOREM TypeCorrect == Spec => []TypeOK
<1>1. IInv => TypeOK
  BY DEF IInv
<1> QED BY <1>1, Invariance, PTL

\* A terminal command always carries its one result and its one event.
THEOREM TerminalCarriesResult == Spec => []TerminalHasItsResult
<1>1. IInv => TerminalHasItsResult
  BY DEF IInv
<1> QED BY <1>1, Invariance, PTL

\* Whatever polls, acknowledges and results overlap, a command and its
\* execution disagree only while a poll has reopened the command.
THEOREM DisagreeOnlyWhenReopened == Spec => []ExecutionAgreesUnlessReopened
<1>1. IInv => ExecutionAgreesUnlessReopened
  BY DEF IInv
<1> QED BY <1>1, Invariance, PTL

\* A result comes within the two deadlines together, whatever reopened its
\* command in between.
THEOREM ResultsInTime == Spec => []FinishesInTime
<1>1. IInv => FinishesInTime
  BY DEF IInv
<1> QED BY <1>1, Invariance, PTL

\* UNIQUE (command_id) of command_results is never what stops a result.
THEOREM InsertsNeverCollide == Spec => []ResultInsertsNeverCollide
<1>1. IInv => ResultInsertsNeverCollide
  <2> SUFFICES ASSUME IInv, NEW s \in Slots, NEW t \in Slots,
                      pc[s] = "commit", request[s].kind = "result",
                      request[t].kind = "result", request[s].command = request[t].command
               PROVE  /\ result[request[s].command] = None
                      /\ pc[t] = "commit" => s = t
    BY DEF ResultInsertsNeverCollide
  <2>1. owner[request[s].command] = s /\ result[request[s].command] = None
    BY DEF IInv, ResultStands
  <2>2. pc[t] = "commit" => owner[request[s].command] = t
    BY DEF IInv, ResultStands
  <2> QED BY <2>1, <2>2
<1> QED BY <1>1, Invariance, PTL

-----------------------------------------------------------------------------
(* Results are final, and so is what a device was told of them.             *)

\* Only a result that found none writes a result.
LEMMA StepKeepsResults ==
  ASSUME IInv, [Next]_vars, NEW c \in CommandIds, result[c] # None
  PROVE  result'[c] = result[c]
<1>1. CASE \E s \in Slots : ResultCommit(s)
  <2>1. PICK s \in Slots : ResultCommit(s)
    BY <1>1
  <2>2. request[s].command # c
    BY <2>1 DEF IInv, ResultStands, ResultCommit
  <2> QED BY <2>1, <2>2 DEF IInv, TypeOK, ResultCommit
<1>2. CASE ~ \E s \in Slots : ResultCommit(s)
  <2>1. result' = result
    BY <1>2 DEF Next, Step, Over, Serve, Receive, PollSelect, PollSend, PollCommit, NotFound,
       AckExpired, AckStart, AckAgain, AckCommit, RefuseResult, ResultReplay, ResultConflict,
       ResultNotRunning, ResultExpired, ResultApply, Respond, Decide, Deliver, Abort,
       LoseReply, Tick, vars, dbVars
  <2> QED BY <2>1
<1> QED BY <1>1, <1>2

\* No later request rewrites a recorded result.
THEOREM ResultsStayFinal == Spec => ResultsAreFinal
<1>1. IInv /\ [Next]_vars =>
        [\A c \in CommandIds : result[c] # None => result'[c] = result[c]]_vars
  BY StepKeepsResults
<1> QED BY <1>1, Invariance, PTL DEF Spec, ResultsAreFinal

\* Only a poll, an acknowledge and a result write an execution.
LEMMA StepKeepsOrder ==
  ASSUME IInv, [Next]_vars, NEW c \in CommandIds, execution'[c] # execution[c]
  PROVE  Rank(execution[c]) < Rank(execution'[c]) \/ Reopened(c)
<1>1. /\ IF Reopened(c) THEN TRUE ELSE Matches(c)
      /\ execution \in [CommandIds -> ExecutionStatuses]
  BY DEF IInv, TypeOK, ExecutionAgreesUnlessReopened
<1>2. CASE \E s \in Slots : PollCommit(s)
  <2>1. execution[c] = "CREATED" /\ execution'[c] = "COMMAND_SENT"
    BY <1>2 DEF PollCommit
  <2> QED BY <2>1 DEF Rank, Terminal
<1>3. CASE \E s \in Slots : AckCommit(s)
  <2>1. PICK s \in Slots : AckCommit(s)
    BY <1>3
  <2>2. request[s].command = c /\ execution'[c] = "RUNNING"
    BY <1>1, <2>1 DEF AckCommit
  <2>3. command[c].status \in Open
    BY <2>1, <2>2 DEF IInv, AckStands, AckCommit
  <2>4. execution[c] \in {"CREATED", "COMMAND_SENT"} \/ Reopened(c)
    BY <1>1, <2>3 DEF Matches, ExecutionOf, Open, Terminal
  <2> QED BY <2>2, <2>4 DEF Rank, Terminal
<1>4. CASE \E s \in Slots : ResultCommit(s)
  <2>1. PICK s \in Slots : ResultCommit(s)
    BY <1>4
  <2>2. request[s].command = c /\ execution'[c] = request[s].body.result
    BY <1>1, <2>1 DEF ResultCommit
  <2>3. command[c].status = "ACKNOWLEDGED" /\ execution'[c] \in Terminal
    BY <2>1, <2>2 DEF IInv, ResultStands, ResultCommit
  <2>4. execution[c] = "RUNNING"
    BY <1>1, <2>3 DEF Matches, Reopened, ExecutionOf, Terminal
  <2> QED BY <2>3, <2>4 DEF Rank, Terminal
<1>5. CASE ~ \E s \in Slots : PollCommit(s) \/ AckCommit(s) \/ ResultCommit(s)
  <2>1. execution' = execution
    BY <1>5 DEF Next, Step, Over, Serve, Receive, PollSelect, PollSend, NotFound,
       AckExpired, AckStart, AckAgain, RefuseResult, ResultReplay, ResultConflict,
       ResultNotRunning, ResultExpired, ResultApply, Respond, Decide, Deliver, Abort,
       LoseReply, Tick, vars, dbVars
  <2> QED BY <2>1
<1> QED BY <1>2, <1>3, <1>4, <1>5

\* No program runs a second time unless a poll reopened its command.
THEOREM RunsAgainOnlyWhenReopened == Spec => OnlyReopenedRunsAgain
<1>1. IInv /\ [Next]_vars =>
        [\A c \in CommandIds :
           execution'[c] # execution[c] =>
             Rank(execution[c]) < Rank(execution'[c]) \/ Reopened(c)]_vars
  BY StepKeepsOrder
<1> QED BY <1>1, Invariance, PTL DEF Spec, OnlyReopenedRunsAgain

\* A request that was answered OK for a result has its row, under its key and
\* with the hash of its body.
AnswerHasItsRow(s) ==
  pc[s] \in {"replying", "answered"} /\ request[s].kind = "result" /\ reply[s] = "OK" =>
    LET row == result[request[s].command]
    IN  row # None /\ row.key = request[s].key /\ row.hash = ResultHash(request[s].body)

\* A step of another request takes no answer's row away.
LEMMA AnswerKeepsItsRow ==
  ASSUME IInv, [Next]_vars, NEW s \in Slots, AnswerHasItsRow(s),
         pc[s] \in {"replying", "answered"}, request'[s] = request[s], reply'[s] = reply[s]
  PROVE  AnswerHasItsRow(s)'
<1>1. request[s].kind = "result" => request[s].command \in CommandIds
  <2>1. request[s] \in Requests
    BY DEF IInv, RequestIsKnown
  <2> QED BY <2>1, RequestType
<1> QED BY <1>1, StepKeepsResults DEF AnswerHasItsRow

\* A step of s that is answered brings its row.
LEMMA OwnAnswerHasItsRow ==
  ASSUME IInv, NEW s \in Slots, pc[s] \in InTransaction, Serve(s)
  PROVE  AnswerHasItsRow(s)'
<1>0. /\ pc \in [Slots -> Places] /\ DOMAIN reply = Slots
      /\ request[s] \in Requests
  BY DEF IInv, TypeOK, RequestIsKnown, InTransaction
<1>1. CASE PollSelect(s) \/ PollSend(s) \/ PollCommit(s)
  <2>1. request[s].kind = "poll" /\ request'[s] = request[s]
    BY <1>1 DEF IInv, RequestIsKnown, PollSelect, PollSend, PollCommit
  <2> QED BY <2>1 DEF AnswerHasItsRow
<1>2. CASE AckExpired(s) \/ AckStart(s) \/ AckAgain(s) \/ AckCommit(s)
  <2>1. request[s].kind = "ack" /\ request'[s] = request[s]
    BY <1>2 DEF AckExpired, AckStart, AckAgain, AckCommit, Locked, Respond, Decide
  <2> QED BY <2>1 DEF AnswerHasItsRow
<1>3. CASE \/ NotFound(s) \/ RefuseResult(s) \/ ResultConflict(s)
           \/ ResultNotRunning(s) \/ ResultExpired(s)
  <2>1. reply'[s] # "OK"
    BY <1>0, <1>3 DEF NotFound, RefuseResult, ResultConflict, ResultNotRunning, ResultExpired,
       Respond, Answer
  <2> QED BY <2>1 DEF AnswerHasItsRow
<1>4. CASE ResultReplay(s)
  <2>1. /\ result[request[s].command] # None /\ SameResult(s, request[s].command)
        /\ request' = request /\ result' = result
    BY <1>4 DEF ResultReplay, LockedForResult, Locked, Respond, dbVars
  <2> QED BY <2>1 DEF AnswerHasItsRow, SameResult
<1>5. CASE ResultApply(s)
  <2>1. pc'[s] = "commit"
    BY <1>0, <1>5 DEF ResultApply, Decide, Goto
  <2> QED BY <2>1 DEF AnswerHasItsRow
<1>6. CASE ResultCommit(s)
  <2> DEFINE c == request[s].command
             row == [key |-> request[s].key, hash |-> ResultHash(request[s].body),
                     body |-> request[s].body, at |-> decidedAt[s]]
  <2>1. c \in CommandIds /\ request[s].key \in ResultKeys /\ request[s].body \in ResultBodies
    BY <1>0, <1>6, RequestType DEF ResultCommit
  <2>2. row \in ResultRows
    BY <2>1 DEF ResultRows, IInv, TypeOK
  <2>3. result'[c] = row /\ request' = request
    BY <1>6, <2>1 DEF ResultCommit, IInv, TypeOK
  <2>4. /\ row # None /\ row.key = request[s].key
        /\ row.hash = ResultHash(request[s].body)
    BY <2>2, RowsAssumption
  <2> QED BY <2>3, <2>4 DEF AnswerHasItsRow
<1>7. CASE Deliver(s)
  BY <1>7 DEF Deliver, InTransaction
<1> QED BY <1>1, <1>2, <1>3, <1>4, <1>5, <1>6, <1>7 DEF Serve

\* Where a request is after a step it does not take itself: no nearer to an
\* answer, and if it has one, with the same.
LEMMA NoAnswerFromOthers ==
  ASSUME IInv, [Next]_vars, NEW s \in Slots, ~Serve(s)
  PROVE  \/ pc'[s] \notin {"replying", "answered"}
         \/ pc'[s] = pc[s] /\ request'[s] = request[s] /\ reply'[s] = reply[s]
<1> USE DEF IInv, TypeOK
<1>1. ASSUME NEW t \in Slots, NEW r \in Requests, Receive(t, r)
      PROVE  \/ pc'[s] \notin {"replying", "answered"}
             \/ pc'[s] = pc[s] /\ request'[s] = request[s] /\ reply'[s] = reply[s]
  BY <1>1 DEF Receive, Goto
<1>2. ASSUME NEW t \in Slots, t # s, Serve(t)
      PROVE  pc'[s] = pc[s] /\ request'[s] = request[s] /\ reply'[s] = reply[s]
  <2> USE DEF Goto, Answer, Respond, Decide
  <2>1. CASE PollSelect(t) \/ PollSend(t) \/ PollCommit(t)
    BY <1>2, <2>1 DEF PollSelect, PollSend, PollCommit
  <2>2. CASE AckExpired(t) \/ AckStart(t) \/ AckAgain(t) \/ AckCommit(t)
    BY <1>2, <2>2 DEF AckExpired, AckStart, AckAgain, AckCommit
  <2>3. CASE \/ NotFound(t) \/ RefuseResult(t) \/ ResultReplay(t) \/ ResultConflict(t)
             \/ ResultNotRunning(t) \/ ResultExpired(t)
    BY <1>2, <2>3 DEF NotFound, RefuseResult, ResultReplay, ResultConflict,
       ResultNotRunning, ResultExpired
  <2>4. CASE ResultApply(t) \/ ResultCommit(t) \/ Deliver(t)
    BY <1>2, <2>4 DEF ResultApply, ResultCommit, Deliver
  <2> QED BY <1>2, <2>1, <2>2, <2>3, <2>4 DEF Serve
<1>3. ASSUME NEW t \in Slots, Abort(t) \/ LoseReply(t)
      PROVE  \/ pc'[s] \notin {"replying", "answered"}
             \/ pc'[s] = pc[s] /\ request'[s] = request[s] /\ reply'[s] = reply[s]
  BY <1>3 DEF Abort, LoseReply, Goto
<1>4. CASE Tick \/ UNCHANGED vars
  BY <1>4 DEF Tick, vars
<1> HIDE DEF IInv, TypeOK
<1> QED BY <1>1, <1>2, <1>3, <1>4 DEF Next, Step, Over

\* Every answered result keeps its row.
LEMMA NextAnswersHaveRows ==
  ASSUME IInv, \A s \in Slots : AnswerHasItsRow(s), [Next]_vars, NEW s \in Slots
  PROVE  AnswerHasItsRow(s)'
<1>1. CASE ~Serve(s)
  <2>1. CASE pc'[s] \notin {"replying", "answered"}
    BY <2>1 DEF AnswerHasItsRow
  <2>2. CASE /\ pc'[s] \in {"replying", "answered"} /\ pc'[s] = pc[s]
             /\ request'[s] = request[s] /\ reply'[s] = reply[s]
    BY <2>2, AnswerKeepsItsRow
  <2> QED BY <1>1, <2>1, <2>2, NoAnswerFromOthers
<1>2. CASE Serve(s) /\ pc[s] \in InTransaction
  BY <1>2, OwnAnswerHasItsRow
<1>3. CASE Serve(s) /\ pc[s] \notin InTransaction
  <2>1. Deliver(s)
    BY <1>3 DEF Serve, InTransaction, PollSelect, PollSend, PollCommit, NotFound,
       AckExpired, AckStart, AckAgain, AckCommit, RefuseResult, ResultReplay, ResultConflict,
       ResultNotRunning, ResultExpired, ResultApply, ResultCommit, LockedForResult, Locked
  <2> QED BY <2>1, AnswerKeepsItsRow DEF Deliver
<1> QED BY <1>1, <1>2, <1>3

\* The first word of two texts is the first one's.
LEMMA FirstOfConcat ==
  ASSUME NEW S, NEW x \in Seq(S), NEW y \in Seq(S), Len(x) > 0
  PROVE  x \o y \in Seq(S) /\ Len(x \o y) > 0 /\ (x \o y)[1] = x[1]
OBVIOUS

\* The first word of the hashed text is the outcome, whatever the rest is.
LEMMA HashNamesOutcome ==
  ASSUME NEW b \in ResultBodies
  PROVE  ResultHash(b)[1] = b.result
<1> DEFINE Text(x) == IF x = None THEN << "None" >> ELSE x
           Words == STRING \cup {"None", ":", b.result}
           head == << b.result, ":" >>
           code == Text(b.code)
           message == Text(b.message)
<1>1. code \in Seq(Words) /\ message \in Seq(Words)
  <2>1. Seq(STRING) \subseteq Seq(Words)
    OBVIOUS
  <2>2. << "None" >> \in Seq(Words)
    OBVIOUS
  <2>3. /\ b.code \in Seq(STRING) \cup {None}
        /\ b.message \in Seq(STRING) \cup {None}
    BY BodiesAssumption
  <2> QED BY <2>1, <2>2, <2>3
<1>2. head \in Seq(Words) /\ << ":" >> \in Seq(Words)
  <2>1. b.result \in Words /\ ":" \in Words
    OBVIOUS
  <2> HIDE DEF Words
  <2> QED BY <2>1
<1>3. Len(head) > 0 /\ head[1] = b.result
  OBVIOUS
<1>4. ResultHash(b) = head \o code \o << ":" >> \o message
  BY DEF ResultHash
<1> HIDE DEF Text, Words, head, code, message
<1>5. (head \o code) \in Seq(Words) /\ Len(head \o code) > 0 /\ (head \o code)[1] = b.result
  BY <1>1, <1>2, <1>3, FirstOfConcat
<1>6. /\ head \o code \o << ":" >> \in Seq(Words)
      /\ Len(head \o code \o << ":" >>) > 0
      /\ (head \o code \o << ":" >>)[1] = b.result
  BY <1>2, <1>5, FirstOfConcat
<1> QED BY <1>1, <1>4, <1>6, FirstOfConcat

\* Whichever attempt was answered and however many were lost, a device that
\* was told OK finds its result stored under its key, with its outcome.
THEOREM AnswersStayTrue == Spec => []AnswersMatchResults
<1> DEFINE Answers == \A s \in Slots : AnswerHasItsRow(s)
<1>1. Init => Answers
  BY DEF Init, AnswerHasItsRow
<1>2. IInv /\ Answers /\ [Next]_vars => Answers'
  BY NextAnswersHaveRows
<1>3. IInv /\ Answers => AnswersMatchResults
  <2> SUFFICES ASSUME IInv, Answers, NEW s \in Slots,
                      pc[s] \in {"replying", "answered"}, request[s].kind = "result",
                      reply[s] = "OK"
               PROVE  LET row == result[request[s].command]
                      IN  /\ row # None /\ row.key = request[s].key
                          /\ row.body.result = request[s].body.result
    BY DEF AnswersMatchResults
  <2> DEFINE c == request[s].command
  <2>1. c \in CommandIds /\ request[s].body \in ResultBodies
    <3>1. request[s] \in Requests
      BY DEF IInv, RequestIsKnown
    <3> QED BY <3>1, RequestType
  <2>2. /\ result[c] # None /\ result[c].key = request[s].key
        /\ result[c].hash = ResultHash(request[s].body)
    BY DEF AnswerHasItsRow
  <2>3. result[c].body \in ResultBodies /\ result[c].hash = ResultHash(result[c].body)
    BY <2>1, <2>2 DEF IInv, TypeOK, ResultRows, RowIsHashed
  <2>4. result[c].body.result = request[s].body.result
    BY <2>1, <2>2, <2>3, HashNamesOutcome
  <2> QED BY <2>2, <2>4
<1> HIDE DEF Answers
<1> QED BY <1>1, <1>2, <1>3, Invariance, PTL DEF Spec
=============================================================================
