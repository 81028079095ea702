---------------------------- MODULE Correctness ----------------------------
(***************************************************************************)
(* What scripts/correctness_driver.py can tell of a program: the outcomes   *)
(* each of its cases may have under the constraints of the schema, the      *)
(* outcomes its assertions let pass, the evidence a case leaves for the     *)
(* gate at the end, and what an accepted case is sure to have been.         *)
(*                                                                          *)
(* The program under test may do anything: it may answer and write whatever *)
(* PostgreSQL accepts.  UNIQUE and CHECK constraints exclude two payments   *)
(* or request hashes of a key, two debits of a payment, an overused code    *)
(* and a negative wallet, so of the eight counts of the gate two can be     *)
(* positive: partial financial state and the disagreement of a command and  *)
(* its execution.                                                           *)
(***************************************************************************)
EXTENDS Naturals, FiniteSets

CONSTANT Clients     \* the threads of a contention case: 2, 10 and 100 in the code

ASSUME ClientsAssumption == IsFiniteSet(Clients)

Nothing == [status |-> "none", right |-> FALSE, debit |-> FALSE]

\* A payment with its start right and its debit.
Written(statuses) ==
  {Nothing} \cup [status : statuses, right : BOOLEAN, debit : BOOLEAN]

Successes(o) == {c \in DOMAIN o.row : o.row[c].status = "SUCCESS"}
Debited(o) == {c \in DOMAIN o.row : o.row[c].debit}
Answered(o, code) == {c \in Clients : o.answer[c] = code}

\* Rows of one fixture: a code of usage_limit 1, a wallet with one price.
Contention ==
  [answer : [Clients -> {200, 409, 500}], row : [Clients -> Written({"SUCCESS", "FAILED"})],
   spent : {0, 1}]

\* UNIQUE (device_id, idempotency_key): one row for all.
SameKey ==
  [answer : [Clients -> {200, 409, 500}],
   row : [{"key"} -> Written({"SUCCESS", "FAILED", "PENDING"})]]

CardKeys == {"success", "failed", "pending"}

CardExpected ==
  [success |-> << 200, "SUCCESS" >>, failed |-> << 409, "FAILED" >>,
   pending |-> << 202, "PENDING" >>]

Card ==
  [answer : [CardKeys -> {200, 202, 409, 500}],
   row : [CardKeys -> {w \in Written({"SUCCESS", "FAILED", "PENDING"}) : ~w.debit}]]

\* UNIQUE (command_id): at most one result.
Command ==
  [answer : [{"poll", "acknowledge", "first", "duplicate", "conflict"} -> {200, 409}],
   results : {0, 1}, command : {"ACKNOWLEDGED", "SUCCESS", "FAILED"},
   execution : {"RUNNING", "SUCCESS", "FAILED"}]

Plain == [held : BOOLEAN]

Outcomes ==
  [qr |-> Contention, rf |-> Contention, same_key |-> SameKey, card |-> Card,
   command |-> Command, plain |-> Plain]

OneWinner(o) ==
  /\ Cardinality(Answered(o, 200)) = 1
  /\ Cardinality(Answered(o, 409)) = Cardinality(Clients) - 1

\* Mutation: the QR case does not count the successful payments.
AssertedByUsage(case, o) ==
  CASE case = "qr" -> OneWinner(o) /\ o.spent = 1
    [] case = "rf" -> /\ OneWinner(o)
                      /\ o.spent = 1
                      /\ Cardinality(Debited(o)) = 1
    [] case = "same_key" -> \A c \in Clients : o.answer[c] = 200
    [] case = "card" -> \A k \in CardKeys : << o.answer[k], o.row[k].status >> = CardExpected[k]
    [] case = "command" -> o.results = 1
    [] OTHER -> o.held

\* The assertions of a case.
Asserted(case, o) ==
  CASE case = "qr" -> /\ OneWinner(o)
                      /\ o.spent = 1
                      /\ Cardinality(Successes(o)) = 1
    [] case = "rf" -> /\ OneWinner(o)
                      /\ o.spent = 1
                      /\ Cardinality(Debited(o)) = 1
    [] case = "same_key" -> /\ \A c \in Clients : o.answer[c] = 200
                            /\ o.row["key"] # Nothing
    [] case = "card" -> \A k \in CardKeys : << o.answer[k], o.row[k].status >> = CardExpected[k]
    [] case = "command" ->
         /\ \A s \in DOMAIN o.answer : o.answer[s] = IF s = "conflict" THEN 409 ELSE 200
         /\ o.results = 1
    [] OTHER -> o.held

\* The rows the queries of hard_gate find.
Evidence(case, o) ==
  CASE case \in {"qr", "rf", "same_key", "card"} ->
         {"partial" : c \in {x \in Successes(o) :
            \/ ~o.row[x].right
            \/ case = "rf" /\ ~o.row[x].debit}}
    [] case = "command" ->
         {"mismatch" : s \in {o.command} \cap ({"SUCCESS", "FAILED"} \ {o.execution})}
    [] OTHER -> {}

(***************************************************************************)
(* What a case should have shown.  The driver does not count the successful *)
(* payments of a wallet, nor does it read the status of the command, so an  *)
(* accepted run may have debited a payment that failed, or left a command   *)
(* with a result ACKNOWLEDGED: neither is part of Sound.                    *)
(***************************************************************************)
Sound(case, o) ==
  CASE case = "qr" ->
         /\ o.spent = 1
         /\ \E c \in Clients : Successes(o) = {c} /\ o.row[c].right
         /\ \E c \in Clients : \A d \in Clients : o.answer[d] = 200 <=> d = c
    [] case = "rf" ->
         /\ o.spent = 1
         /\ \E c \in Clients :
              /\ \A d \in Clients : o.row[d].debit <=> d = c
              /\ Successes(o) \subseteq {c}
              /\ c \in Successes(o) => o.row[c].right
         /\ \E c \in Clients : \A d \in Clients : o.answer[d] = 200 <=> d = c
    [] case = "same_key" ->
         /\ o.row["key"] # Nothing
         /\ o.row["key"].status = "SUCCESS" => o.row["key"].right
    [] case = "card" ->
         /\ Successes(o) = {"success"}
         /\ o.row["success"].right
         /\ Nothing \notin {o.row[k] : k \in CardKeys}
    [] case = "command" ->
         /\ o.results = 1
         /\ o.answer["conflict"] = 409
         /\ o.command \in {"SUCCESS", "FAILED"} => o.execution = o.command
    [] OTHER -> o.held

\* << what the assertions say, what the gate will find, what was the case >>.
Tellings(case) ==
  {<< Asserted(case, o), Evidence(case, o), Sound(case, o) >> : o \in Outcomes[case]}

TellingsOf == [case \in DOMAIN Outcomes |-> Tellings(case)]

hard_gate(faults) ==
  [partial_committed_financial_state |-> Cardinality(faults \cap {"partial"}),
   illegal_command_state_transition |-> Cardinality(faults \cap {"mismatch"})]

Clean(gate) == \A k \in DOMAIN gate : gate[k] = 0

\* compare_correctness: the contracts of two complete runs are the same.
Parity(left, right) == Clean(left.gate) /\ Clean(right.gate) /\ left.profile = right.profile
=============================================================================
