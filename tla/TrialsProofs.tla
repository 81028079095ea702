---------------------------- MODULE TrialsProofs ----------------------------
(***************************************************************************)
(* Theorems of Trials, for any number of matrices, of trials by hand, of    *)
(* runs of run_correctness and of signals, any cases, and any number of     *)
(* clients in a contention case.                                            *)
(***************************************************************************)
EXTENDS Trials, TLAPS, FiniteSetTheorems

-----------------------------------------------------------------------------
(* What the assertions of a case leave open, the gate finds.                *)

LEMMA OneOf ==
  ASSUME NEW S, NEW T, IsFiniteSet(S), T \subseteq S, Cardinality(T) = 1
  PROVE  \E c \in S : T = {c}
<1>1. IsFiniteSet(T)
  BY FS_Subset
<1> QED
  BY <1>1, FS_Singleton

LEMMA OneWinnerIs ==
  ASSUME NEW o, OneWinner(o)
  PROVE  \E c \in Clients : \A d \in Clients : o.answer[d] = 200 <=> d = c
<1>1. Answered(o, 200) \subseteq Clients
  BY DEF Answered
<1>2. PICK c \in Clients : Answered(o, 200) = {c}
  BY <1>1, OneOf, ClientsAssumption DEF OneWinner
<1> QED
  BY <1>2 DEF Answered

LEMMA NoPartial ==
  ASSUME NEW case \in {"qr", "rf", "same_key", "card"}, NEW o, Evidence(case, o) = {}
  PROVE  \A c \in Successes(o) : o.row[c].right /\ (case = "rf" => o.row[c].debit)
<1> DEFINE bad == {x \in Successes(o) : ~o.row[x].right \/ (case = "rf" /\ ~o.row[x].debit)}
<1>1. Evidence(case, o) = {"partial" : c \in bad}
  BY DEF Evidence
<1>2. bad = {}
  BY <1>1
<1> QED
  BY <1>2

\* A case whose assertions hold and which leaves nothing for the gate was
\* sound, whatever the program answered and wrote.
THEOREM AcceptedIsSound ==
  ASSUME NEW case \in DOMAIN Outcomes, NEW o \in Outcomes[case],
         Asserted(case, o), Evidence(case, o) = {}
  PROVE  Sound(case, o)
<1>1. CASE case = "qr"
  <2>1. o \in Contention
    BY <1>1 DEF Outcomes
  <2>2. Successes(o) \subseteq Clients
    BY <2>1 DEF Successes, Contention
  <2>3. OneWinner(o) /\ o.spent = 1 /\ Cardinality(Successes(o)) = 1
    BY <1>1 DEF Asserted
  <2>4. PICK c \in Clients : Successes(o) = {c}
    BY <2>2, <2>3, OneOf, ClientsAssumption
  <2>5. o.row[c].right
    BY <1>1, <2>4, NoPartial
  <2> QED
    BY <1>1, <2>3, <2>4, <2>5, OneWinnerIs DEF Sound
<1>2. CASE case = "rf"
  <2>1. o \in Contention
    BY <1>2 DEF Outcomes
  <2>2. Debited(o) \subseteq Clients /\ DOMAIN o.row = Clients
    BY <2>1 DEF Debited, Contention
  <2>3. OneWinner(o) /\ o.spent = 1 /\ Cardinality(Debited(o)) = 1
    BY <1>2 DEF Asserted
  <2>4. PICK c \in Clients : Debited(o) = {c}
    BY <2>2, <2>3, OneOf, ClientsAssumption
  <2>5. \A d \in Successes(o) : o.row[d].right /\ o.row[d].debit
    BY <1>2, NoPartial
  <2>6. \A d \in Clients : o.row[d].debit <=> d = c
    BY <2>2, <2>4 DEF Debited
  <2>7. Successes(o) \subseteq {c}
    BY <2>2, <2>5, <2>6 DEF Successes
  <2>8. \E x \in Clients : /\ \A d \in Clients : o.row[d].debit <=> d = x
                           /\ Successes(o) \subseteq {x}
                           /\ x \in Successes(o) => o.row[x].right
    BY <2>4, <2>5, <2>6, <2>7
  <2> QED
    BY <1>2, <2>3, <2>8, OneWinnerIs DEF Sound
<1>3. CASE case = "same_key"
  <2>1. o \in SameKey
    BY <1>3 DEF Outcomes
  <2>2. DOMAIN o.row = {"key"}
    BY <2>1 DEF SameKey
  <2>3. o.row["key"].status = "SUCCESS" => o.row["key"].right
    BY <1>3, <2>2, NoPartial DEF Successes
  <2> QED
    BY <1>3, <2>3 DEF Sound, Asserted
<1>4. CASE case = "card"
  <2>1. o \in Card
    BY <1>4 DEF Outcomes
  <2>2. DOMAIN o.row = CardKeys
    BY <2>1 DEF Card
  <2>3. \A k \in CardKeys : o.row[k].status = CardExpected[k][2]
    <3>1. \A k \in CardKeys : << o.answer[k], o.row[k].status >> = CardExpected[k]
      BY <1>4 DEF Asserted
    <3> QED
      BY <3>1 DEF CardKeys, CardExpected
  <2>4. /\ o.row["success"].status = "SUCCESS"
        /\ o.row["failed"].status = "FAILED" /\ o.row["pending"].status = "PENDING"
    BY <2>3 DEF CardKeys, CardExpected
  <2>5. Successes(o) = {"success"}
    BY <2>2, <2>4 DEF Successes, CardKeys
  <2>6. o.row["success"].right
    BY <1>4, <2>5, NoPartial
  <2>7. Nothing \notin {o.row[k] : k \in CardKeys}
    <3>1. Nothing.status = "none"
      BY DEF Nothing
    <3> QED
      BY <3>1, <2>4 DEF CardKeys
  <2> QED
    BY <1>4, <2>5, <2>6, <2>7 DEF Sound
<1>5. CASE case = "command"
  <2>1. o \in Command
    BY <1>5 DEF Outcomes
  <2>2. o.results = 1 /\ o.answer["conflict"] = 409
    BY <1>5, <2>1 DEF Asserted, Command
  <2>3. {o.command} \cap ({"SUCCESS", "FAILED"} \ {o.execution}) = {}
    <3>1. Evidence(case, o) = {"mismatch" : s \in {o.command} \cap ({"SUCCESS", "FAILED"} \ {o.execution})}
      BY <1>5 DEF Evidence
    <3> QED
      BY <3>1
  <2>4. o.command \in {"SUCCESS", "FAILED"} => o.execution = o.command
    BY <2>3
  <2> QED
    BY <1>5, <2>2, <2>4 DEF Sound
<1>6. CASE case = "plain"
  BY <1>6 DEF Sound, Asserted
<1> QED
  BY <1>1, <1>2, <1>3, <1>4, <1>5, <1>6 DEF Outcomes
-----------------------------------------------------------------------------
(* Types.                                                                   *)

TrialStates ==
  [at : Steps \cup Ended, runtime : Runtimes, phase : {"warmup", "measured"},
   ordinal : Nat \ {0}, orphan : BOOLEAN, ok : BOOLEAN, beside : BOOLEAN]

Going == {"idle", "ready", "trial"}

MaxTrials == Warmups + 2 * MAX_MEASURED_RUNS

DriverStates ==
  [at : DriverSteps \cup Ended, runtime : Runtimes, case : DOMAIN Cases, orphan : BOOLEAN,
   sound : BOOLEAN, beside : BOOLEAN]

\* A trial past its first step has its directory; a matrix that goes on has
\* trials left.
TypeInv ==
  /\ TypeOK
  /\ \A t \in Trials_ : trial[t].at \in Trapped => DirOf(t) \in dirs
  /\ \A m \in Matrices : matrix[m].at \in Going => matrix[m].done < MaxTrials

LEMMA OverTyped ==
  ASSUME NEW t, NEW how \in Ended
  PROVE  IdleTrial \in TrialStates /\ Over(t, how) \in TrialStates /\ Over(t, how).at \in Ended
<1>1. IdleTrial \in TrialStates /\ IdleTrial.at \in Ended
  BY DEF IdleTrial, TrialStates, Ended, Runtimes
<1>2. [IdleTrial EXCEPT !.at = how] \in TrialStates
  BY <1>1 DEF TrialStates
<1>3. [IdleTrial EXCEPT !.at = how].at = how
  BY <1>1 DEF TrialStates
<1> QED
  BY <1>1, <1>2, <1>3 DEF Over

LEMMA BoundsTyped ==
  /\ WARMUP_RUNS \in Nat \ {0} /\ MIN_MEASURED_RUNS \in Nat \ {0}
  /\ MAX_MEASURED_RUNS \in Nat \ {0} /\ LoadCalls \in Nat \ {0}
  /\ Warmups \in Nat /\ Warmups = 2 * WARMUP_RUNS
  /\ MaxTrials \in Nat /\ MaxTrials = Warmups + 2 * MAX_MEASURED_RUNS
  BY TrialsAssumption DEF Warmups, MaxTrials

LEMMA IdleDriverTyped == IdleDriver \in DriverStates
<1>1. 1 \in DOMAIN Cases
  BY TrialsAssumption
<1> QED
  BY <1>1 DEF IdleDriver, DriverStates, Ended, Runtimes

LEMMA TypeInit == Init => TypeInv
<1> SUFFICES ASSUME Init PROVE TypeInv
  OBVIOUS
<1> USE DEF Init
<1>1. trial \in [Trials_ -> TrialStates]
  <2>1. "idle" \in Ended
    BY DEF Ended
  <2> QED
    BY <2>1, OverTyped
<1>2. driver \in [Drivers -> DriverStates]
  BY IdleDriverTyped
<1>3. matrix \in [Matrices -> [at : {"idle", "ready", "trial", "passed", "failed", "gone"},
                               done : 0 .. MaxTrials]]
  BY BoundsTyped
<1>4. \A t \in Trials_ : trial[t].at = "idle"
  BY DEF IdleTrial
<1>5. \A m \in Matrices : matrix[m].at = "idle" /\ matrix[m].done = 0
  OBVIOUS
<1>6. /\ sampler \subseteq Trials_ /\ broken \subseteq Trials_ /\ apis \subseteq Runtimes
      /\ dataset \in Trials_ \cup Drivers \cup {None} /\ faults \subseteq {"partial", "mismatch"}
      /\ summaries \subseteq dirs
  OBVIOUS
<1>7. /\ stats \in [app : Nat, other : Nat] /\ pre \in [Trials_ -> [app : Nat, other : Nat]]
      /\ counted \in [Trials_ -> Nat] /\ issued \in [Trials_ -> Nat]
  BY DEF NoStats
<1>8. 0 < MaxTrials
  BY BoundsTyped
<1> QED
  BY <1>1, <1>2, <1>3, <1>4, <1>5, <1>6, <1>7, <1>8
     DEF TypeInv, TypeOK, TrialStates, DriverStates, MaxTrials, Trapped, Steps

\* A step of a trial changes no other one, and of its own only where it is.
Moves(t) ==
  /\ trial' \in [Trials_ -> TrialStates]
  /\ \A u \in Trials_ \ {t} : trial'[u] = trial[u]
  /\ \/ trial'[t].at \in Ended
     \/ /\ DirOf(t)' = DirOf(t)
        /\ trial'[t].runtime = trial[t].runtime /\ trial'[t].beside = trial[t].beside
  /\ Live(t)
  /\ matrix' = matrix /\ driver' = driver

LEMMA Becomes ==
  ASSUME TypeInv, NEW t \in Trials_, NEW r \in TrialStates, trial' = [trial EXCEPT ![t] = r],
         \/ r.at \in Ended
         \/ /\ r.runtime = trial[t].runtime /\ r.phase = trial[t].phase
            /\ r.ordinal = trial[t].ordinal /\ r.beside = trial[t].beside,
         Live(t), matrix' = matrix, driver' = driver
  PROVE  Moves(t)
<1>1. trial \in [Trials_ -> TrialStates]
  BY DEF TypeInv, TypeOK, TrialStates
<1>2. trial'[t] = r /\ \A u \in Trials_ \ {t} : trial'[u] = trial[u]
  BY <1>1
<1>3. trial' \in [Trials_ -> TrialStates]
  BY <1>1
<1>4. CASE r.at \in Ended
  BY <1>2, <1>3, <1>4 DEF Moves
<1>5. CASE /\ r.runtime = trial[t].runtime /\ r.phase = trial[t].phase
           /\ r.ordinal = trial[t].ordinal /\ r.beside = trial[t].beside
  <2>1. DirOf(t)' = DirOf(t)
    BY <1>2, <1>5 DEF DirOf
  <2> QED
    BY <1>2, <1>3, <1>5, <2>1 DEF Moves
<1> QED
  BY <1>4, <1>5

LEMMA StepMoves ==
  ASSUME TypeInv, NEW t \in Trials_, NEW from \in Steps, NEW to \in Steps \cup Ended,
         Step(t, from, to)
  PROVE  Moves(t) /\ trial'[t].at \in {to} \cup Ended
<1> DEFINE r == IF trial[t].orphan THEN Over(t, "gone")
                ELSE IF to \in Ended THEN Over(t, to) ELSE [trial[t] EXCEPT !.at = to]
<1>1. trial \in [Trials_ -> TrialStates]
  BY DEF TypeInv, TypeOK, TrialStates
<1>2. trial' = [trial EXCEPT ![t] = r] /\ matrix' = matrix /\ driver' = driver
  BY DEF Step
<1>3. Live(t)
  BY DEF Step, Live, Steps, Ended
<1>4. "gone" \in Ended
  BY DEF Ended
<1>5. trial[t] \in TrialStates
  BY <1>1
<1>6. [trial[t] EXCEPT !.at = to] \in TrialStates /\ [trial[t] EXCEPT !.at = to].at = to
  BY <1>5 DEF TrialStates
<1>7. r \in TrialStates /\ r.at \in {to} \cup Ended
  <2>1. CASE trial[t].orphan
    BY <2>1, <1>4, OverTyped
  <2>2. CASE ~trial[t].orphan /\ to \in Ended
    BY <2>2, OverTyped
  <2>3. CASE ~trial[t].orphan /\ to \notin Ended
    BY <2>3, <1>6
  <2> QED
    BY <2>1, <2>2, <2>3
<1>8. \/ r.at \in Ended
      \/ /\ r.runtime = trial[t].runtime /\ r.phase = trial[t].phase
         /\ r.ordinal = trial[t].ordinal /\ r.beside = trial[t].beside
  <2>1. CASE trial[t].orphan
    BY <2>1, <1>4, OverTyped
  <2>2. CASE ~trial[t].orphan /\ to \in Ended
    BY <2>2, OverTyped
  <2>3. CASE ~trial[t].orphan /\ to \notin Ended
    BY <2>3, <1>5 DEF TrialStates
  <2> QED
    BY <2>1, <2>2, <2>3
<1> HIDE DEF r
<1>9. Moves(t)
  BY <1>2, <1>3, <1>7, <1>8, Becomes
<1>10. trial'[t] = r
  BY <1>1, <1>2
<1> QED
  BY <1>7, <1>9, <1>10

LEMMA MakeDirMoves ==
  ASSUME TypeInv, NEW t \in Trials_, MakeDir(t)
  PROVE  /\ Moves(t)
         /\ dirs \subseteq dirs' /\ summaries' \subseteq dirs'
         /\ trial'[t].at \in Ended \/ DirOf(t) \in dirs'
<1>1. CASE DirOf(t) \in dirs /\ ~overwrite
  <2>1. Step(t, "dir", "failed") /\ UNCHANGED << dirs, summaries >>
    BY <1>1 DEF MakeDir
  <2>2. Moves(t)
    BY <2>1, StepMoves DEF Steps, Ended
  <2> QED
    BY <1>1, <2>1, <2>2 DEF TypeInv, TypeOK
<1>2. CASE ~(DirOf(t) \in dirs /\ ~overwrite)
  <2>1. /\ Step(t, "dir", "stop")
        /\ dirs' = dirs \cup {DirOf(t)}
        /\ summaries' = summaries \ {DirOf(t)}
    BY <1>2 DEF MakeDir
  <2>2. Moves(t)
    BY <2>1, StepMoves DEF Steps, Ended
  <2> QED
    BY <2>1, <2>2 DEF TypeInv, TypeOK
<1> QED
  BY <1>1, <1>2

LEMMA EndLoadMoves ==
  ASSUME TypeInv, NEW t \in Trials_, EndLoad(t)
  PROVE  Moves(t) /\ trial'[t].at \in {"post"} \cup Ended
<1>1. trial \in [Trials_ -> TrialStates] /\ trial[t] \in TrialStates
  BY DEF TypeInv, TypeOK, TrialStates
<1>2. PICK ok \in BOOLEAN :
        trial' = [trial EXCEPT ![t] = IF trial[t].orphan THEN Over(t, "gone")
                                      ELSE [@ EXCEPT !.at = "post", !.ok = ok]]
  BY DEF EndLoad
<1> DEFINE r == IF trial[t].orphan THEN Over(t, "gone")
                ELSE [trial[t] EXCEPT !.at = "post", !.ok = ok]
<1>3. trial' = [trial EXCEPT ![t] = r]
  BY <1>1, <1>2
<1>4. "gone" \in Ended /\ Over(t, "gone") \in TrialStates /\ Over(t, "gone").at \in Ended
  BY OverTyped DEF Ended
<1>5. /\ [trial[t] EXCEPT !.at = "post", !.ok = ok] \in TrialStates
      /\ [trial[t] EXCEPT !.at = "post", !.ok = ok].at = "post"
  BY <1>1 DEF TrialStates, Steps
<1>6. r \in TrialStates /\ r.at \in {"post"} \cup Ended
  BY <1>4, <1>5
<1>7. \/ r.at \in Ended
      \/ /\ r.runtime = trial[t].runtime /\ r.phase = trial[t].phase
         /\ r.ordinal = trial[t].ordinal /\ r.beside = trial[t].beside
  BY <1>1, <1>4 DEF TrialStates
<1>8. Live(t) /\ matrix' = matrix /\ driver' = driver
  BY DEF EndLoad, Live, Ended
<1> HIDE DEF r
<1> QED
  BY <1>1, <1>3, <1>6, <1>7, <1>8, Becomes

LEMMA CheckedMoves ==
  ASSUME TypeInv, NEW t \in Trials_, Checked(t)
  PROVE  Moves(t) /\ trial'[t].at \in {"finish"} \cup Ended
<1>1. trial \in [Trials_ -> TrialStates] /\ trial[t] \in TrialStates
  BY DEF TypeInv, TypeOK, TrialStates
<1>0. PICK found \in {faults, {}} :
        trial' = [trial EXCEPT ![t] = IF trial[t].orphan THEN Over(t, "gone")
                                      ELSE [@ EXCEPT !.at = "finish",
                                                     !.ok = trial[t].ok /\ found = {}]]
  BY DEF Checked
<1> DEFINE ok == trial[t].ok /\ found = {}
<1> DEFINE r == IF trial[t].orphan THEN Over(t, "gone")
                ELSE [trial[t] EXCEPT !.at = "finish", !.ok = ok]
<1>2. ok \in BOOLEAN
  BY <1>1 DEF TrialStates
<1>3. trial' = [trial EXCEPT ![t] = r]
  BY <1>0, <1>1
<1>4. "gone" \in Ended /\ Over(t, "gone") \in TrialStates /\ Over(t, "gone").at \in Ended
  BY OverTyped DEF Ended
<1> HIDE DEF ok
<1>5. /\ [trial[t] EXCEPT !.at = "finish", !.ok = ok] \in TrialStates
      /\ [trial[t] EXCEPT !.at = "finish", !.ok = ok].at = "finish"
  BY <1>1, <1>2 DEF TrialStates, Steps
<1>6. r \in TrialStates /\ r.at \in {"finish"} \cup Ended
  BY <1>4, <1>5
<1>7. \/ r.at \in Ended
      \/ /\ r.runtime = trial[t].runtime /\ r.phase = trial[t].phase
         /\ r.ordinal = trial[t].ordinal /\ r.beside = trial[t].beside
  BY <1>1, <1>4 DEF TrialStates
<1>8. Live(t) /\ matrix' = matrix /\ driver' = driver
  BY DEF Checked, Live, Ended
<1> HIDE DEF r
<1> QED
  BY <1>1, <1>3, <1>6, <1>7, <1>8, Becomes

LEMMA EndingMoves ==
  ASSUME TypeInv, NEW t \in Trials_, NEW how \in Ended, Live(t),
         trial' = [trial EXCEPT ![t] = Over(t, how)], matrix' = matrix, driver' = driver
  PROVE  Moves(t) /\ trial'[t].at \in Ended
<1>1. trial \in [Trials_ -> TrialStates]
  BY DEF TypeInv, TypeOK, TrialStates
<1> QED
  BY <1>1, OverTyped, Becomes

LEMMA TerminateMoves ==
  ASSUME TypeInv, NEW t \in Trials_, Terminate(t)
  PROVE  Moves(t) /\ trial' = trial
<1>1. trial \in [Trials_ -> TrialStates]
  BY DEF TypeInv, TypeOK, TrialStates
<1> QED
  BY <1>1 DEF Terminate, Moves, Live, Trapped, Steps, Ended, DirOf

LEMMA KillTrialMoves ==
  ASSUME TypeInv, NEW t \in Trials_, KillTrial(t)
  PROVE  Moves(t) /\ \A u \in Trials_ : trial'[u].at = trial[u].at
<1>1. trial \in [Trials_ -> TrialStates] /\ trial[t] \in TrialStates
  BY DEF TypeInv, TypeOK, TrialStates
<1>2. [trial[t] EXCEPT !.orphan = TRUE] \in TrialStates
  BY <1>1 DEF TrialStates
<1>3. trial' = [trial EXCEPT ![t] = [trial[t] EXCEPT !.orphan = TRUE]]
  BY <1>1 DEF KillTrial
<1>4. /\ [trial[t] EXCEPT !.orphan = TRUE].runtime = trial[t].runtime
      /\ [trial[t] EXCEPT !.orphan = TRUE].phase = trial[t].phase
      /\ [trial[t] EXCEPT !.orphan = TRUE].ordinal = trial[t].ordinal
      /\ [trial[t] EXCEPT !.orphan = TRUE].beside = trial[t].beside
      /\ [trial[t] EXCEPT !.orphan = TRUE].at = trial[t].at
  BY <1>1 DEF TrialStates
<1>5. Moves(t)
  BY <1>2, <1>3, <1>4, Becomes DEF KillTrial
<1>6. trial'[t].at = trial[t].at
  BY <1>1, <1>3, <1>4
<1> QED
  BY <1>5, <1>6 DEF Moves

DataOK ==
  /\ sampler \subseteq Trials_ /\ broken \subseteq Trials_
  /\ apis \subseteq Runtimes
  /\ dataset \in Trials_ \cup Drivers \cup {None}
  /\ faults \subseteq {"partial", "mismatch"}
  /\ stats \in [app : Nat, other : Nat] /\ pre \in [Trials_ -> [app : Nat, other : Nat]]
  /\ counted \in [Trials_ -> Nat] /\ issued \in [Trials_ -> Nat]

LEMMA DataTyped == TypeInv => DataOK
  BY DEF TypeInv, TypeOK, DataOK

LEMMA ApisTyped ==
  ASSUME DataOK, NEW running \in SUBSET Runtimes, SetApis(running)
  PROVE  apis' \subseteq Runtimes /\ broken' \subseteq Trials_
  BY DEF DataOK, SetApis

\* What stops, stops; what does not goes on.
LEMMA StopsApis ==
  ASSUME NEW services, StopApis(services)
  PROVE  /\ apis' \subseteq apis
         /\ \E running \in SUBSET apis : SetApis(running)
<1>1. PICK left \in SUBSET (apis \cap services) : SetApis((apis \ services) \cup left)
  BY DEF StopApis
<1>2. (apis \ services) \cup left \in SUBSET apis
  OBVIOUS
<1> QED
  BY <1>1, <1>2 DEF SetApis

LEMMA StopTyped ==
  ASSUME DataOK, NEW services, StopApis(services)
  PROVE  apis' \subseteq Runtimes /\ broken' \subseteq Trials_
<1>1. PICK running \in SUBSET apis : SetApis(running)
  BY StopsApis
<1>2. running \in SUBSET Runtimes
  BY DEF DataOK
<1> QED
  BY <1>1, <1>2, ApisTyped

LEMMA StatsTyped ==
  ASSUME DataOK, NEW n \in Nat
  PROVE  /\ Issue("app", n) \/ Issue("other", n) =>
              stats' \in [app : Nat, other : Nat] /\ issued' \in [Trials_ -> Nat]
         /\ ResetAndIssue(n) =>
              stats' \in [app : Nat, other : Nat] /\ issued' \in [Trials_ -> Nat]
<1>1. /\ stats \in [app : Nat, other : Nat] /\ issued \in [Trials_ -> Nat]
  BY DEF DataOK
<1>2. \A t \in Trials_ : issued[t] \in Nat /\ issued[t] + n \in Nat
  BY <1>1
<1>3. ASSUME NEW i, i = [t \in Trials_ |-> IF trial[t].at \in {"load", "post"} THEN issued[t] + n
                                           ELSE issued[t]]
      PROVE  i \in [Trials_ -> Nat]
  BY <1>2, <1>3
<1>4. ASSUME Issue("app", n) \/ Issue("other", n)
      PROVE  stats' \in [app : Nat, other : Nat] /\ issued' \in [Trials_ -> Nat]
  <2>1. stats' \in [app : Nat, other : Nat]
    BY <1>1, <1>4 DEF Issue
  <2> QED
    BY <1>3, <1>4, <2>1 DEF Issue
<1>5. ASSUME ResetAndIssue(n)
      PROVE  stats' \in [app : Nat, other : Nat] /\ issued' \in [Trials_ -> Nat]
  BY <1>3, <1>5 DEF ResetAndIssue
<1> QED
  BY <1>4, <1>5

LEMMA ReseedTyped ==
  ASSUME DataOK, NEW who \in Trials_ \cup Drivers, Reseed(who)
  PROVE  /\ dataset' \in Trials_ \cup Drivers \cup {None} /\ faults' \subseteq {"partial", "mismatch"}
         /\ stats' \in [app : Nat, other : Nat] /\ issued' \in [Trials_ -> Nat]
  BY StatsTyped DEF Reseed

LEMMA ForgetTyped ==
  ASSUME DataOK, NEW t \in Trials_, Forget(t)
  PROVE  /\ pre' \in [Trials_ -> [app : Nat, other : Nat]]
         /\ counted' \in [Trials_ -> Nat] /\ issued' \in [Trials_ -> Nat]
  BY DEF DataOK, Forget, NoStats

LEMMA DerivedTyped ==
  ASSUME NEW before \in [app : Nat, other : Nat], NEW after \in [app : Nat, other : Nat]
  PROVE  Derived(before, after) \in Nat
  BY DEF Derived, Min2

LEMMA Typed ==
  ASSUME TypeInv, NEW t \in Trials_, Moves(t), DataOK', dirs \subseteq dirs',
         summaries' \subseteq dirs', trial'[t].at \in Ended \/ DirOf(t) \in dirs'
  PROVE  TypeInv'
<1>1. \A u \in Trials_ : trial'[u].at \in Trapped => DirOf(u)' \in dirs'
  <2>1. ASSUME NEW u \in Trials_ \ {t} PROVE DirOf(u)' = DirOf(u) /\ trial'[u] = trial[u]
    BY DEF Moves, DirOf
  <2>2. \A u \in Trials_ \ {t} : trial'[u].at \in Trapped => DirOf(u)' \in dirs'
    BY <2>1 DEF TypeInv
  <2>3. trial'[t].at \in Trapped => DirOf(t)' \in dirs'
    BY DEF Moves, Trapped, Steps, Ended
  <2> QED
    BY <2>2, <2>3
<1>2. \A m \in Matrices : matrix'[m].at \in Going => matrix'[m].done < MaxTrials
  BY DEF TypeInv, Moves
<1>3. TypeOK'
  BY DEF TypeInv, TypeOK, Moves, DataOK, TrialStates
<1> QED
  BY <1>1, <1>2, <1>3 DEF TypeInv

\* Most steps of a trial leave the directories alone, and have one.
LEMMA TypedAtWork ==
  ASSUME TypeInv, NEW t \in Trials_, Moves(t), DataOK', UNCHANGED << dirs, summaries >>,
         trial[t].at \in Trapped \/ trial'[t].at \in Ended
  PROVE  TypeInv'
<1>1. summaries \subseteq dirs
  BY DEF TypeInv, TypeOK
<1>2. trial'[t].at \in Ended \/ DirOf(t) \in dirs'
  BY DEF TypeInv
<1> QED
  BY <1>1, <1>2, Typed

\* A step of a trial keeps the types.
LEMMA ScenarioTyped ==
  ASSUME TypeInv, NEW t \in Trials_, RunScenario(t)
  PROVE  TypeInv' /\ Moves(t)
<1> USE DataTyped, ApisTyped, StatsTyped, ReseedTyped, ForgetTyped
<1>1. CASE MakeDir(t)
  <2>1. DataOK'
    BY <1>1 DEF MakeDir, DataOK, machine
  <2> QED
    BY <1>1, <2>1, MakeDirMoves, Typed
<1>2. CASE StopAll(t)
  <2>1. Moves(t)
    BY <1>2, StepMoves DEF StopAll, Steps
  <2>2. DataOK'
    BY <1>2 DEF StopAll, DataOK
  <2> QED
    BY <1>2, <2>1, <2>2, TypedAtWork DEF StopAll, Step, outcome, Trapped, Steps
<1>3. CASE ResetDataset(t)
  <2>1. Moves(t)
    BY <1>3, StepMoves DEF ResetDataset, Steps
  <2>2. DataOK'
    BY <1>3 DEF ResetDataset, DataOK
  <2> QED
    BY <1>3, <2>1, <2>2, TypedAtWork DEF ResetDataset, Step, outcome, Trapped, Steps
<1>4. CASE PrepareFixture(t)
  <2>1. Moves(t)
    BY <1>4, StepMoves DEF PrepareFixture, Steps
  <2>2. DataOK'
    BY <1>4 DEF PrepareFixture, DataOK
  <2> QED
    BY <1>4, <2>1, <2>2, TypedAtWork DEF PrepareFixture, Step, outcome, Trapped, Steps
<1>5. CASE StopOther(t)
  <2>1. Moves(t)
    BY <1>5, StepMoves DEF StopOther, Steps
  <2>2. apis \ {Other(trial[t].runtime)} \in SUBSET Runtimes
    BY DEF DataOK
  <2>3. DataOK'
    BY <1>5, <2>2 DEF StopOther, DataOK
  <2> QED
    BY <1>5, <2>1, <2>3, TypedAtWork DEF StopOther, Step, outcome, Trapped, Steps
<1>6. CASE StartApi(t)
  <2>1. Moves(t)
    BY <1>6, StepMoves DEF StartApi, Steps
  <2>2. apis \cup {trial[t].runtime} \in SUBSET Runtimes
    BY DEF DataOK, TypeInv, TypeOK
  <2>3. DataOK'
    BY <1>6, <2>2 DEF StartApi, DataOK
  <2> QED
    BY <1>6, <2>1, <2>3, TypedAtWork DEF StartApi, Step, outcome, Trapped, Steps
<1>7. CASE StartLoad(t)
  <2>1. Moves(t)
    BY <1>7, StepMoves DEF StartLoad, Steps
  <2>2. DataOK'
    BY <1>7 DEF StartLoad, DataOK
  <2> QED
    BY <1>7, <2>1, <2>2, TypedAtWork DEF StartLoad, Step, outcome, Trapped, Steps
<1>8. CASE EndLoad(t)
  <2>1. Moves(t)
    BY <1>8, EndLoadMoves
  <2>2. (IF t \in broken THEN 0 ELSE LoadCalls) \in Nat
    BY BoundsTyped
  <2>3. DataOK'
    BY <1>8, <2>2 DEF EndLoad, DataOK
  <2>4. DirOf(t) \in dirs
    BY <1>8 DEF EndLoad, TypeInv, Trapped, Steps
  <2>5. dirs \subseteq dirs' /\ summaries' \subseteq dirs'
    BY <1>8, <2>4 DEF EndLoad, TypeInv, TypeOK
  <2> QED
    BY <1>8, <2>1, <2>3, <2>4, <2>5, Typed
<1>9. CASE Post(t)
  <2>1. Moves(t)
    BY <1>9, CheckedMoves DEF Post
  <2>2. Derived(pre[t], stats) \in Nat
    BY DerivedTyped DEF DataOK
  <2>3. DataOK'
    BY <1>9, <2>2 DEF Post, Checked, DataOK
  <2> QED
    BY <1>9, <2>1, <2>3, TypedAtWork DEF Post, Checked, outcome, Trapped, Steps
<1>10. CASE Finish(t)
  <2>1. Moves(t)
    BY <1>10, StepMoves DEF Finish, Steps, Ended
  <2>2. DataOK'
    BY <1>10 DEF Finish, DataOK
  <2> QED
    BY <1>10, <2>1, <2>2, TypedAtWork DEF Finish, Step, outcome, Trapped, Steps
<1>11. CASE Fail(t)
  <2>1. Moves(t) /\ trial'[t].at \in Ended
    BY <1>11, EndingMoves DEF Fail, Live, Trapped, Steps, Ended
  <2>2. DataOK'
    BY <1>11, StopTyped DEF Fail, DataOK
  <2> QED
    BY <1>11, <2>1, <2>2, TypedAtWork DEF Fail, outcome
<1>12. CASE Terminate(t)
  <2>1. Moves(t)
    BY <1>12, TerminateMoves
  <2>2. DataOK'
    BY <1>12, StopTyped DEF Terminate, DataOK
  <2> QED
    BY <1>12, <2>1, <2>2, TypedAtWork DEF Terminate, outcome
<1>13. CASE KillTrial(t)
  <2>1. Moves(t) /\ trial'[t].at = trial[t].at
    BY <1>13, KillTrialMoves
  <2>2. DataOK' /\ UNCHANGED << dirs, summaries >>
    BY <1>13 DEF KillTrial, DataOK, machine, outcome
  <2>3. trial[t].at \in Trapped => DirOf(t) \in dirs
    BY DEF TypeInv
  <2>4. TypeOK'
    BY <2>1, <2>2 DEF TypeInv, TypeOK, Moves, DataOK, TrialStates
  <2>5. \A u \in Trials_ : DirOf(u)' = DirOf(u) \/ trial'[u].at \in Ended
    BY <2>1 DEF Moves, DirOf
  <2>6. \A u \in Trials_ : trial'[u].at = trial[u].at
    BY <2>1 DEF Moves
  <2>7. \A u \in Trials_ : trial'[u].at \in Trapped => DirOf(u)' \in dirs'
    BY <2>2, <2>5, <2>6 DEF TypeInv, Trapped, Steps, Ended
  <2> QED
    BY <2>1, <2>4, <2>7 DEF TypeInv, Moves
<1>14. CASE OrphanEnds(t)
  <2>1. Moves(t) /\ trial'[t].at \in Ended
    BY <1>14, EndingMoves DEF OrphanEnds, Ended
  <2>2. DataOK'
    BY <1>14 DEF OrphanEnds, DataOK, machine
  <2> QED
    BY <1>14, <2>1, <2>2, TypedAtWork DEF OrphanEnds, outcome
<1> QED
  BY <1>1, <1>2, <1>3, <1>4, <1>5, <1>6, <1>7, <1>8, <1>9, <1>10, <1>11, <1>12, <1>13, <1>14
     DEF RunScenario

-----------------------------------------------------------------------------
LEMMA ScheduledTyped ==
  ASSUME NEW n \in Nat
  PROVE  /\ Scheduled(n).runtime \in Runtimes /\ Scheduled(n).phase \in {"warmup", "measured"}
         /\ Scheduled(n).ordinal \in Nat \ {0}
<1>1. CASE n < Warmups
  <2>1. n % WARMUP_RUNS \in Nat
    BY BoundsTyped
  <2> QED
    BY <1>1, <2>1 DEF Scheduled, Runtimes
<1>2. CASE ~(n < Warmups)
  <2>1. n - Warmups \in Nat
    BY <1>2, BoundsTyped
  <2> DEFINE round == ((n - Warmups) \div 2) + 1
  <2>2. round \in Nat \ {0} /\ (n - Warmups) % 2 \in {0, 1}
    BY <2>1
  <2>3. ((n - Warmups) % 2) + 1 \in {1, 2}
    BY <2>2
  <2>4. Scheduled(n) = [runtime |-> Order(round)[((n - Warmups) % 2) + 1], phase |-> "measured",
                        ordinal |-> round]
    BY <1>2 DEF Scheduled
  <2> HIDE DEF round
  <2>5. Order(round)[((n - Warmups) % 2) + 1] \in Runtimes
    BY <2>3 DEF Order, Runtimes
  <2> QED
    BY <2>2, <2>4, <2>5
<1> QED
  BY <1>1, <1>2

\* The runs of run_correctness that go on learn that they are not alone.
LEMMA DisturbedIs ==
  ASSUME TypeInv
  PROVE  /\ Disturbed \in [Drivers -> DriverStates]
         /\ \A d \in Drivers :
              /\ Disturbed[d].at = driver[d].at /\ Disturbed[d].runtime = driver[d].runtime
              /\ DriverRuns(d) => Disturbed[d].beside /\ Disturbed[d].sound
              /\ ~DriverRuns(d) => Disturbed[d] = driver[d]
<1>1. driver \in [Drivers -> DriverStates]
  BY DEF TypeInv, TypeOK, DriverStates
<1>2. ASSUME NEW d \in Drivers
      PROVE  /\ Disturbed[d] \in DriverStates
             /\ Disturbed[d].at = driver[d].at /\ Disturbed[d].runtime = driver[d].runtime
             /\ DriverRuns(d) => Disturbed[d].beside /\ Disturbed[d].sound
             /\ ~DriverRuns(d) => Disturbed[d] = driver[d]
  BY <1>1 DEF Disturbed, DriverStates
<1> QED
  BY <1>2 DEF Disturbed

\* A trial begins in its directory's step.
LEMMA BeginTyped ==
  ASSUME TypeInv, NEW t \in Trials_, NEW what, Begin(t, what), what.runtime \in Runtimes,
         what.phase \in {"warmup", "measured"}, what.ordinal \in Nat \ {0}
  PROVE  /\ trial' \in [Trials_ -> TrialStates]
         /\ \A u \in Trials_ \ {t} : trial'[u] = trial[u]
         /\ trial'[t].at = "dir" /\ trial'[t].beside = AnyDriver
         /\ driver' = Disturbed /\ driver' \in [Drivers -> DriverStates]
<1>1. trial \in [Trials_ -> TrialStates]
  BY DEF TypeInv, TypeOK, TrialStates
<1> DEFINE r == [at |-> "dir", runtime |-> what.runtime, phase |-> what.phase,
                 ordinal |-> what.ordinal, orphan |-> FALSE, ok |-> TRUE, beside |-> AnyDriver]
<1>2. r \in TrialStates /\ r.at = "dir" /\ r.beside = AnyDriver
  <2>1. AnyDriver \in BOOLEAN
    BY DEF AnyDriver
  <2> QED
    BY <2>1 DEF TrialStates, Steps
<1>3. trial' = [trial EXCEPT ![t] = r] /\ driver' = Disturbed
  BY DEF Begin
<1>4. /\ trial' \in [Trials_ -> TrialStates] /\ trial'[t] = r
      /\ \A u \in Trials_ \ {t} : trial'[u] = trial[u]
  <2> HIDE DEF r
  <2> QED
    BY <1>1, <1>2, <1>3
<1> QED
  BY <1>2, <1>3, <1>4, DisturbedIs

LEMMA SameDirs ==
  ASSUME TypeInv, NEW t \in Trials_, trial' \in [Trials_ -> TrialStates],
         \A u \in Trials_ \ {t} : trial'[u] = trial[u], trial'[t].at \notin Trapped, dirs' = dirs
  PROVE  \A u \in Trials_ : trial'[u].at \in Trapped => DirOf(u)' \in dirs'
<1>1. \A u \in Trials_ \ {t} : DirOf(u)' = DirOf(u)
  BY DEF DirOf
<1> QED
  BY <1>1 DEF TypeInv

LEMMA StartSoloTyped ==
  ASSUME TypeInv, NEW t \in Solo, StartSolo(t)
  PROVE  TypeInv'
<1>1. t \in Trials_
  BY DEF Trials_
<1> DEFINE what == [runtime |-> "python", phase |-> "measured", ordinal |-> 1]
<1>2. Begin(t, what)
  BY DEF StartSolo
<1>3. what.runtime \in Runtimes /\ what.phase \in {"warmup", "measured"} /\ what.ordinal \in Nat \ {0}
  BY DEF Runtimes
<1>4. /\ trial' \in [Trials_ -> TrialStates] /\ trial'[t].at = "dir"
      /\ driver' \in [Drivers -> DriverStates]
      /\ \A u \in Trials_ \ {t} : trial'[u] = trial[u]
  <2> HIDE DEF what
  <2> QED
    BY <1>1, <1>2, <1>3, BeginTyped
<1>5. dirs' = dirs /\ summaries' = summaries /\ matrix' = matrix
  BY DEF StartSolo, outcome
<1>6. \A u \in Trials_ : trial'[u].at \in Trapped => DirOf(u)' \in dirs'
  BY <1>1, <1>4, <1>5, SameDirs DEF Trapped
<1>7. TypeOK'
  BY <1>4, <1>5 DEF StartSolo, TypeInv, TypeOK, TrialStates, DriverStates, machine
<1> QED
  BY <1>5, <1>6, <1>7 DEF TypeInv

MatrixStates ==
  [at : {"idle", "ready", "trial", "passed", "failed", "gone"}, done : 0 .. MaxTrials]

LEMMA MatrixTyped == TypeInv => matrix \in [Matrices -> MatrixStates]
  BY DEF TypeInv, TypeOK, MatrixStates, MaxTrials

\* A step of a matrix that starts and ends no trial.
LEMMA MatrixAloneTyped ==
  ASSUME TypeInv, matrix' \in [Matrices -> MatrixStates],
         \A m \in Matrices : matrix'[m].at \in Going => matrix'[m].done < MaxTrials,
         UNCHANGED << trial, sampler, driver, machine, pre, counted, outcome >>
  PROVE  TypeInv'
<1>1. \A u \in Trials_ : DirOf(u)' = DirOf(u)
  BY DEF DirOf
<1>2. TypeOK'
  BY DEF TypeInv, TypeOK, machine, outcome, MatrixStates, MaxTrials
<1> QED
  BY <1>1, <1>2 DEF TypeInv, outcome

\* How far a matrix can be when it goes on.
LEMMA TrialsLeft ==
  ASSUME NEW n \in 1 .. MaxTrials, ~AtVarianceCheck(n) \/ Rounds(n) < MAX_MEASURED_RUNS
  PROVE  n < MaxTrials
<1>1. SUFFICES ASSUME n = MaxTrials PROVE FALSE
  BY BoundsTyped
<1>2. n \in Nat /\ ~(n < Warmups) /\ n - Warmups = 2 * MAX_MEASURED_RUNS
  BY <1>1, BoundsTyped
<1>3. Rounds(n) = MAX_MEASURED_RUNS /\ (n - Warmups) % 2 = 0
  BY <1>2, BoundsTyped DEF Rounds
<1> QED
  BY <1>2, <1>3, BoundsTyped, TrialsAssumption DEF AtVarianceCheck

LEMMA MatrixStepTyped ==
  ASSUME TypeInv, NEW m \in Matrices, RunMatrix(m)
  PROVE  TypeInv'
<1> USE MatrixTyped
<1>0. m \in Trials_ /\ matrix[m] \in MatrixStates /\ 0 \in 0 .. MaxTrials
  BY BoundsTyped DEF Trials_
<1>1. CASE LockMatrix(m)
  <2>1. matrix[m].at = "idle" /\ [matrix[m] EXCEPT !.at = "ready"] \in MatrixStates
    BY <1>0, <1>1 DEF LockMatrix, MatrixStates
  <2>2. matrix' = [matrix EXCEPT ![m] = [matrix[m] EXCEPT !.at = "ready"]]
    BY <1>1 DEF LockMatrix
  <2> QED
    BY <1>0, <1>1, <2>1, <2>2, MatrixAloneTyped DEF LockMatrix, TypeInv, Going
<1>2. CASE RunTrial(m)
  <2> DEFINE what == Scheduled(matrix[m].done)
  <2>1. matrix[m].done \in Nat
    BY <1>0, BoundsTyped DEF MatrixStates
  <2>2. Begin(m, what)
    BY <1>2 DEF RunTrial
  <2>3. /\ what.runtime \in Runtimes /\ what.phase \in {"warmup", "measured"}
        /\ what.ordinal \in Nat \ {0}
    BY <2>1, ScheduledTyped
  <2>4. /\ trial' \in [Trials_ -> TrialStates] /\ trial'[m].at = "dir"
        /\ driver' \in [Drivers -> DriverStates]
        /\ \A u \in Trials_ \ {m} : trial'[u] = trial[u]
    <3> HIDE DEF what
    <3> QED
      BY <1>0, <2>2, <2>3, BeginTyped
  <2>5. dirs' = dirs /\ summaries' = summaries
    BY <1>2 DEF RunTrial, outcome
  <2>6. \A u \in Trials_ : trial'[u].at \in Trapped => DirOf(u)' \in dirs'
    BY <1>0, <2>4, <2>5, SameDirs DEF Trapped
  <2>7. /\ matrix' = [matrix EXCEPT ![m] = [matrix[m] EXCEPT !.at = "trial"]]
        /\ [matrix[m] EXCEPT !.at = "trial"] \in MatrixStates
        /\ [matrix[m] EXCEPT !.at = "trial"].done = matrix[m].done
        /\ matrix[m].at = "ready"
    BY <1>0, <1>2 DEF RunTrial, MatrixStates
  <2>8. /\ matrix' \in [Matrices -> MatrixStates]
        /\ \A x \in Matrices : matrix'[x].at \in Going => matrix'[x].done < MaxTrials
    BY <1>0, <2>7 DEF TypeInv, Going
  <2>9. TypeOK'
    BY <1>2, <2>4, <2>5, <2>8
       DEF RunTrial, TypeInv, TypeOK, TrialStates, DriverStates, machine, MatrixStates, MaxTrials
  <2> QED
    BY <2>6, <2>8, <2>9 DEF TypeInv
<1>3. CASE MatrixFails(m)
  <2>1. [at |-> "failed", done |-> 0] \in MatrixStates
    BY <1>0 DEF MatrixStates
  <2> QED
    BY <1>3, <2>1, MatrixAloneTyped DEF MatrixFails, TypeInv, Going
<1>4. CASE KillMatrix(m)
  <2>1. [at |-> "gone", done |-> 0] \in MatrixStates
    BY <1>0 DEF MatrixStates
  <2> QED
    BY <1>4, <2>1, MatrixAloneTyped DEF KillMatrix, TypeInv, Going
<1>5. CASE TrialDone(m)
  <2> DEFINE n == matrix[m].done + 1
  <2>1. n \in 1 .. MaxTrials
    <3>1. matrix[m].done \in Nat /\ matrix[m].done < MaxTrials
      BY <1>0, <1>5, BoundsTyped DEF TrialDone, TypeInv, MatrixStates, Going
    <3> QED
      BY <3>1, BoundsTyped
  <2>2. \/ /\ matrix' = [matrix EXCEPT ![m] = [at |-> "ready", done |-> n]]
           /\ ~AtVarianceCheck(n) \/ Rounds(n) < MAX_MEASURED_RUNS
        \/ matrix' = [matrix EXCEPT ![m] = [at |-> "passed", done |-> n]]
    BY <1>5 DEF TrialDone
  <2> HIDE DEF n
  <2>3. /\ matrix' \in [Matrices -> MatrixStates]
        /\ \A x \in Matrices : matrix'[x].at \in Going => matrix'[x].done < MaxTrials
    <3>1. CASE /\ matrix' = [matrix EXCEPT ![m] = [at |-> "ready", done |-> n]]
               /\ ~AtVarianceCheck(n) \/ Rounds(n) < MAX_MEASURED_RUNS
      <4>1. n < MaxTrials /\ n \in 0 .. MaxTrials
        BY <2>1, <3>1, TrialsLeft, BoundsTyped
      <4>2. [at |-> "ready", done |-> n] \in MatrixStates
        BY <4>1 DEF MatrixStates
      <4> QED
        BY <3>1, <4>1, <4>2 DEF TypeInv, Going
    <3>2. CASE matrix' = [matrix EXCEPT ![m] = [at |-> "passed", done |-> n]]
      <4>1. n \in 0 .. MaxTrials
        BY <2>1, BoundsTyped
      <4>2. [at |-> "passed", done |-> n] \in MatrixStates
        BY <4>1 DEF MatrixStates
      <4> QED
        BY <3>2, <4>2 DEF TypeInv, Going
    <3> QED
      BY <2>2, <3>1, <3>2
  <2>4. trial' = [trial EXCEPT ![m] = IdleTrial] /\ dirs' = dirs /\ summaries' = summaries
    BY <1>5 DEF TrialDone
  <2>5. IdleTrial \in TrialStates /\ IdleTrial.at = "idle"
    BY OverTyped DEF IdleTrial, Ended
  <2>6. /\ trial' \in [Trials_ -> TrialStates] /\ trial'[m] = IdleTrial
        /\ \A u \in Trials_ \ {m} : trial'[u] = trial[u]
    BY <1>0, <2>4, <2>5 DEF TypeInv, TypeOK, TrialStates
  <2>7. \A u \in Trials_ : trial'[u].at \in Trapped => DirOf(u)' \in dirs'
    BY <1>0, <2>4, <2>5, <2>6, SameDirs DEF Trapped, Steps
  <2>8. TypeOK'
    BY <1>5, <2>3, <2>4, <2>6
       DEF TrialDone, TypeInv, TypeOK, TrialStates, machine, MatrixStates, MaxTrials
  <2> QED
    BY <2>3, <2>7, <2>8 DEF TypeInv
<1> QED
  BY <1>1, <1>2, <1>3, <1>4, <1>5 DEF RunMatrix

-----------------------------------------------------------------------------
(* run_correctness.                                                         *)

LEMMA TellingIs ==
  ASSUME NEW case \in DOMAIN Outcomes, NEW o \in TellingsOf[case]
  PROVE  \E x \in Outcomes[case] : o = << Asserted(case, x), Evidence(case, x), Sound(case, x) >>
  BY DEF TellingsOf, Tellings

LEMMA EvidenceTyped ==
  ASSUME NEW case, NEW o
  PROVE  Evidence(case, o) \subseteq {"partial", "mismatch"}
<1>1. CASE case \in {"qr", "rf", "same_key", "card"}
  BY <1>1 DEF Evidence
<1>2. CASE case = "command"
  BY <1>2 DEF Evidence
<1>3. CASE case \notin {"qr", "rf", "same_key", "card", "command"}
  BY <1>3 DEF Evidence
<1> QED
  BY <1>1, <1>2, <1>3

LEMMA FaultsTyped ==
  ASSUME TypeInv, NEW d \in Drivers, NEW o \in TellingsOf[Cases[driver[d].case]],
         faults' = faults \cup o[2]
  PROVE  faults' \subseteq {"partial", "mismatch"} /\ Cases[driver[d].case] \in DOMAIN Outcomes
<1> DEFINE case == Cases[driver[d].case]
<1>1. driver[d].case \in DOMAIN Cases
  BY DEF TypeInv, TypeOK
<1>2. case \in DOMAIN Outcomes
  BY <1>1, TrialsAssumption
<1> HIDE DEF case
<1>3. PICK x : o = << Asserted(case, x), Evidence(case, x), Sound(case, x) >>
  BY <1>2, TellingIs DEF case
<1>4. o[2] \subseteq {"partial", "mismatch"}
  BY <1>3, EvidenceTyped
<1> QED
  BY <1>2, <1>4 DEF TypeInv, TypeOK, case

\* A step of a run that has begun: no other run and no trial is changed, and
\* it goes on as disturbed as it was.
Goes(d) ==
  /\ DriverRuns(d)
  /\ driver' \in [Drivers -> DriverStates]
  /\ \A e \in Drivers \ {d} : driver'[e] = driver[e]
  /\ DriverRuns(d)' => /\ driver'[d].beside = driver[d].beside
                       /\ driver'[d].runtime = driver[d].runtime
  /\ UNCHANGED << matrix, trial, sampler, pre, counted, dirs, summaries, summary, overwrite >>

LEMMA DriverBecomes ==
  ASSUME TypeInv, NEW d \in Drivers, NEW r \in DriverStates, driver' = [driver EXCEPT ![d] = r]
  PROVE  /\ driver' \in [Drivers -> DriverStates] /\ driver'[d] = r
         /\ \A e \in Drivers \ {d} : driver'[e] = driver[e]
<1>1. driver \in [Drivers -> DriverStates]
  BY DEF TypeInv, TypeOK, DriverStates
<1> QED
  BY <1>1

LEMMA GoneTyped ==
  ASSUME NEW at \in {"gone", "failed"}
  PROVE  /\ [IdleDriver EXCEPT !.at = at] \in DriverStates
         /\ [IdleDriver EXCEPT !.at = at].at = at /\ [IdleDriver EXCEPT !.at = at].sound = TRUE
<1>1. IdleDriver \in DriverStates /\ IdleDriver.sound = TRUE
  BY IdleDriverTyped DEF IdleDriver
<1> QED
  BY <1>1 DEF DriverStates, Ended

\* An orphan ends; another run goes on, as sound and as disturbed as it was.
LEMMA AdvanceIs ==
  ASSUME TypeInv, NEW d \in Drivers, NEW at \in DriverSteps \cup {"passed", "failed"},
         Advance(d, at)
  PROVE  /\ driver' \in [Drivers -> DriverStates]
         /\ \A e \in Drivers \ {d} : driver'[e] = driver[e]
         /\ \/ driver'[d].at = "gone" /\ driver'[d].sound
            \/ /\ driver'[d].at = at /\ driver'[d].sound = driver[d].sound
               /\ driver'[d].beside = driver[d].beside /\ driver'[d].runtime = driver[d].runtime
<1>1. driver \in [Drivers -> DriverStates]
  BY DEF TypeInv, TypeOK, DriverStates
<1>2. CASE driver[d].orphan
  <2>1. driver' = [driver EXCEPT ![d] = [IdleDriver EXCEPT !.at = "gone"]]
    BY <1>1, <1>2 DEF Advance
  <2> QED
    BY <2>1, GoneTyped, DriverBecomes
<1>3. CASE ~driver[d].orphan
  <2> DEFINE r == [driver[d] EXCEPT !.at = at]
  <2>1. driver' = [driver EXCEPT ![d] = r]
    BY <1>1, <1>3 DEF Advance
  <2>2. /\ r \in DriverStates /\ r.at = at /\ r.sound = driver[d].sound
        /\ r.beside = driver[d].beside /\ r.runtime = driver[d].runtime
    BY <1>1 DEF DriverStates, Ended
  <2> HIDE DEF r
  <2> QED
    BY <2>1, <2>2, DriverBecomes
<1> QED
  BY <1>2, <1>3

LEMMA GivesUpIs ==
  ASSUME TypeInv, NEW d \in Drivers, GivesUp(d)
  PROVE  /\ driver' \in [Drivers -> DriverStates]
         /\ \A e \in Drivers \ {d} : driver'[e] = driver[e]
         /\ driver'[d].sound
         /\ \/ driver'[d].at \in {"gone", "failed"}
            \/ /\ driver'[d].at = "failing" /\ driver'[d].beside = driver[d].beside
               /\ driver'[d].runtime = driver[d].runtime
<1>1. driver \in [Drivers -> DriverStates]
  BY DEF TypeInv, TypeOK, DriverStates
<1>2. CASE driver[d].orphan
  <2>1. driver' = [driver EXCEPT ![d] = [IdleDriver EXCEPT !.at = "gone"]]
    BY <1>1, <1>2 DEF GivesUp
  <2> QED
    BY <2>1, GoneTyped, DriverBecomes
<1>3. CASE ~driver[d].orphan /\ driver[d].at \notin DriverTrapped
  <2>1. driver' = [driver EXCEPT ![d] = [IdleDriver EXCEPT !.at = "failed"]]
    BY <1>1, <1>3 DEF GivesUp
  <2> QED
    BY <2>1, GoneTyped, DriverBecomes
<1>4. CASE ~driver[d].orphan /\ driver[d].at \in DriverTrapped
  <2> DEFINE r == [IdleDriver EXCEPT !.at = "failing", !.runtime = driver[d].runtime,
                                     !.beside = driver[d].beside]
  <2>1. driver' = [driver EXCEPT ![d] = r]
    BY <1>1, <1>4 DEF GivesUp
  <2>2. IdleDriver \in DriverStates /\ IdleDriver.sound = TRUE
    BY IdleDriverTyped DEF IdleDriver
  <2>3. "failing" \in DriverSteps /\ driver[d].runtime \in Runtimes /\ driver[d].beside \in BOOLEAN
    BY <1>1 DEF DriverStates, DriverSteps
  <2>4. /\ r \in DriverStates /\ r.at = "failing" /\ r.sound = TRUE
        /\ r.beside = driver[d].beside /\ r.runtime = driver[d].runtime
    BY <2>2, <2>3 DEF DriverStates
  <2> HIDE DEF r
  <2> QED
    BY <2>1, <2>4, DriverBecomes
<1> QED
  BY <1>2, <1>3, <1>4

\* A case that ends moves the run on, and settles whether it was sound.
LEMMA RunCaseIs ==
  ASSUME TypeInv, NEW d \in Drivers, RunCase(d)
  PROVE  /\ driver' \in [Drivers -> DriverStates]
         /\ \A e \in Drivers \ {d} : driver'[e] = driver[e]
         /\ driver'[d].at \in {"case", "gate"}
         /\ driver'[d].beside = driver[d].beside /\ driver'[d].runtime = driver[d].runtime
         /\ \E o \in TellingsOf[Cases[driver[d].case]] :
              /\ o[1]
              /\ faults' = faults \cup o[2]
              /\ driver'[d].sound = (driver[d].beside \/ (driver[d].sound /\ o[3]))
<1>1. driver \in [Drivers -> DriverStates]
  BY DEF TypeInv, TypeOK, DriverStates
<1>2. PICK o \in TellingsOf[Cases[driver[d].case]] :
        /\ o[1]
        /\ faults' = faults \cup o[2]
        /\ driver' = [driver EXCEPT ![d] = [@ EXCEPT
             !.sound = driver[d].beside \/ (driver[d].sound /\ o[3]),
             !.at = IF driver[d].case = Len(Cases) THEN "gate" ELSE "case",
             !.case = IF driver[d].case = Len(Cases) THEN 1 ELSE driver[d].case + 1]]
  BY DEF RunCase
<1> DEFINE sound == driver[d].beside \/ (driver[d].sound /\ o[3])
           at == IF driver[d].case = Len(Cases) THEN "gate" ELSE "case"
           case == IF driver[d].case = Len(Cases) THEN 1 ELSE driver[d].case + 1
           r == [driver[d] EXCEPT !.sound = sound, !.at = at, !.case = case]
<1>3. driver' = [driver EXCEPT ![d] = r]
  BY <1>1, <1>2
<1>4. sound \in BOOLEAN /\ at \in {"case", "gate"}
  OBVIOUS
<1>5. case \in DOMAIN Cases
  <2>1. DOMAIN Cases = 1 .. Len(Cases) /\ Len(Cases) \in Nat /\ Len(Cases) # 0
    BY TrialsAssumption
  <2>2. driver[d].case \in 1 .. Len(Cases)
    BY <1>1, <2>1 DEF DriverStates
  <2> QED
    BY <2>1, <2>2
<1>6. sound = (driver[d].beside \/ (driver[d].sound /\ o[3]))
  OBVIOUS
<1>7. /\ r \in DriverStates /\ r.at = at /\ r.sound = sound
      /\ r.beside = driver[d].beside /\ r.runtime = driver[d].runtime
  <2> HIDE DEF sound, at, case
  <2>1. at \in DriverSteps
    BY <1>4 DEF DriverSteps
  <2> QED
    BY <1>1, <1>4, <1>5, <2>1 DEF DriverStates
<1> HIDE DEF r, sound, at, case
<1> QED
  BY <1>2, <1>3, <1>4, <1>6, <1>7, DriverBecomes

LEMMA OrphanedIs ==
  ASSUME TypeInv, NEW d \in Drivers, Orphaned(d)
  PROVE  /\ driver' \in [Drivers -> DriverStates]
         /\ \A e \in Drivers \ {d} : driver'[e] = driver[e]
         /\ driver'[d].at = driver[d].at /\ driver'[d].sound = driver[d].sound
         /\ driver'[d].beside = driver[d].beside /\ driver'[d].runtime = driver[d].runtime
<1>1. driver \in [Drivers -> DriverStates]
  BY DEF TypeInv, TypeOK, DriverStates
<1> DEFINE r == [driver[d] EXCEPT !.orphan = TRUE]
<1>2. driver' = [driver EXCEPT ![d] = r]
  BY <1>1 DEF Orphaned
<1>3. /\ r \in DriverStates /\ r.at = driver[d].at /\ r.sound = driver[d].sound
      /\ r.beside = driver[d].beside /\ r.runtime = driver[d].runtime
  BY <1>1 DEF DriverStates
<1> HIDE DEF r
<1> QED
  BY <1>2, <1>3, DriverBecomes

LEMMA StepsRun ==
  ASSUME NEW d \in Drivers, driver[d].at \in DriverSteps
  PROVE  DriverRuns(d)
  BY DEF DriverSteps, DriverRuns, Ended

\* Every action of a run but its first is such a step.
LEMMA CorrectnessGoes ==
  ASSUME TypeInv, NEW d \in Drivers, RunCorrectness(d), ~StartDriver(d)
  PROVE  Goes(d)
<1> USE DEF DriverUnchanged
<1>1. CASE DriverResets(d) \/ DriverStops(d) \/ DriverStarts(d) \/ DriverClears(d)
  <2>1. PICK at \in {"stop", "up", "counters", "case"} : Advance(d, at)
    BY <1>1 DEF DriverResets, DriverStops, DriverStarts, DriverClears
  <2>2. at \in DriverSteps /\ driver[d].at \in DriverSteps
    BY <1>1 DEF DriverResets, DriverStops, DriverStarts, DriverClears, DriverSteps
  <2>3. UNCHANGED << matrix, trial, sampler, pre, counted, dirs, summaries, summary, overwrite >>
    BY <1>1 DEF DriverResets, DriverStops, DriverStarts, DriverClears
  <2> QED
    BY <2>1, <2>2, <2>3, AdvanceIs, StepsRun DEF Goes, DriverRuns, Ended
<1>2. CASE RunCase(d)
  BY <1>2, RunCaseIs, StepsRun DEF Goes, RunCase, DriverSteps
<1>3. CASE DriverFails(d)
  BY <1>3, GivesUpIs, StepsRun DEF Goes, DriverFails, DriverRuns, Ended
<1>4. CASE Gate(d) \/ Verify(d)
  <2>1. driver[d].at \in DriverSteps
    BY <1>4 DEF Gate, Verify, DriverSteps
  <2>2. Advance(d, "verify") \/ Advance(d, "passing") \/ GivesUp(d)
    BY <1>4 DEF Gate, Verify
  <2>3. UNCHANGED << matrix, trial, sampler, pre, counted, dirs, summaries, summary, overwrite >>
    BY <1>4 DEF Gate, Verify
  <2>4. "verify" \in DriverSteps /\ "passing" \in DriverSteps
    BY DEF DriverSteps
  <2> QED
    BY <2>1, <2>2, <2>3, <2>4, AdvanceIs, GivesUpIs, StepsRun DEF Goes, DriverRuns, Ended
<1>5. CASE DriverTrap(d)
  <2>1. driver[d].at \in DriverSteps
    BY <1>5 DEF DriverTrap, DriverSteps
  <2>2. Advance(d, "passed") \/ Advance(d, "failed")
    BY <1>5 DEF DriverTrap
  <2> QED
    BY <1>5, <2>1, <2>2, AdvanceIs, StepsRun DEF Goes, DriverTrap, DriverRuns, Ended
<1>6. CASE Orphaned(d)
  BY <1>6, OrphanedIs DEF Goes, Orphaned, outcome
<1> QED
  BY <1>1, <1>2, <1>3, <1>4, <1>5, <1>6 DEF RunCorrectness, KillDriver, TerminateDriver

LEMMA StartDriverTyped ==
  ASSUME TypeInv, NEW d \in Drivers, StartDriver(d)
  PROVE  /\ TypeInv'
         /\ ~DriverRuns(d) /\ driver' \in [Drivers -> DriverStates]
         /\ \A e \in Drivers \ {d} : driver'[e] = Disturbed[e]
         /\ driver'[d].at = "reset" /\ driver'[d].sound = TRUE
         /\ driver'[d].beside = (AnyDriver \/ \E t \in Trials_ : Live(t))
         /\ \A t \in Trials_ : /\ trial'[t].at = trial[t].at /\ trial'[t].runtime = trial[t].runtime
                               /\ Live(t) => trial'[t].beside
                               /\ ~Live(t) => trial'[t].beside = trial[t].beside
<1>1. trial \in [Trials_ -> TrialStates]
  BY DEF TypeInv, TypeOK, TrialStates
<1>2. trial' = [t \in Trials_ |-> [trial[t] EXCEPT !.beside = @ \/ Live(t)]]
  BY DEF StartDriver
<1>3. \A t \in Trials_ :
        /\ trial'[t] \in TrialStates
        /\ trial'[t].at = trial[t].at /\ trial'[t].runtime = trial[t].runtime
        /\ trial'[t].phase = trial[t].phase /\ trial'[t].ordinal = trial[t].ordinal
        /\ trial'[t].beside = (trial[t].beside \/ Live(t)) /\ trial[t].beside \in BOOLEAN
  <2> SUFFICES ASSUME NEW t \in Trials_
               PROVE  /\ trial'[t] \in TrialStates
                      /\ trial'[t].at = trial[t].at /\ trial'[t].runtime = trial[t].runtime
                      /\ trial'[t].phase = trial[t].phase /\ trial'[t].ordinal = trial[t].ordinal
                      /\ trial'[t].beside = (trial[t].beside \/ Live(t))
                      /\ trial[t].beside \in BOOLEAN
    OBVIOUS
  <2>1. trial'[t] = [trial[t] EXCEPT !.beside = trial[t].beside \/ Live(t)] /\ trial[t] \in TrialStates
    BY <1>1, <1>2
  <2>2. (trial[t].beside \/ Live(t)) \in BOOLEAN
    BY DEF Live
  <2> QED
    BY <2>1, <2>2 DEF TrialStates
<1>4. trial' \in [Trials_ -> TrialStates]
  BY <1>2, <1>3
<1> DEFINE beside == AnyDriver \/ \E t \in Trials_ : Live(t)
<1>5. PICK runtime \in Runtimes :
        driver' = [Disturbed EXCEPT ![d] = [IdleDriver EXCEPT !.at = "reset", !.runtime = runtime,
                                                              !.beside = beside]]
  BY DEF StartDriver
<1> DEFINE r == [IdleDriver EXCEPT !.at = "reset", !.runtime = runtime, !.beside = beside]
<1>6. r \in DriverStates /\ r.at = "reset" /\ r.sound = TRUE /\ r.beside = beside
  <2>1. beside \in BOOLEAN
    BY DEF AnyDriver, Live
  <2>2. IdleDriver \in DriverStates /\ IdleDriver.sound = TRUE
    BY IdleDriverTyped DEF IdleDriver
  <2>3. "reset" \in DriverSteps
    BY DEF DriverSteps
  <2> HIDE DEF beside
  <2> QED
    BY <2>1, <2>2, <2>3 DEF DriverStates
<1>7. /\ driver' \in [Drivers -> DriverStates] /\ driver'[d] = r
      /\ \A e \in Drivers \ {d} : driver'[e] = Disturbed[e]
  <2> HIDE DEF r
  <2> QED
    BY <1>5, <1>6, DisturbedIs DEF r
<1>8. \A u \in Trials_ : DirOf(u)' = DirOf(u)
  BY <1>3 DEF DirOf
<1>9. TypeOK'
  BY <1>4, <1>7 DEF TypeInv, TypeOK, StartDriver, machine, outcome, TrialStates, DriverStates
<1>10. dirs' = dirs /\ matrix' = matrix /\ ~DriverRuns(d)
  BY DEF StartDriver, outcome, DriverRuns, Ended
<1>11. TypeInv'
  BY <1>3, <1>8, <1>9, <1>10 DEF TypeInv
<1>12. \A t \in Trials_ : /\ Live(t) => trial'[t].beside
                          /\ ~Live(t) => trial'[t].beside = trial[t].beside
  BY <1>3
<1> QED
  BY <1>3, <1>6, <1>7, <1>10, <1>11, <1>12

LEMMA CorrectnessTyped ==
  ASSUME TypeInv, NEW d \in Drivers, RunCorrectness(d)
  PROVE  TypeInv'
<1>1. CASE StartDriver(d)
  BY <1>1, StartDriverTyped
<1>2. CASE ~StartDriver(d)
  <2> USE DataTyped, ApisTyped, StopTyped, StatsTyped, ReseedTyped
  <2>0. /\ DataOK /\ driver[d].runtime \in Runtimes
        /\ apis \cup {driver[d].runtime} \in SUBSET Runtimes
        /\ apis \ {driver[d].runtime} \in SUBSET Runtimes /\ {} \in SUBSET Runtimes
    BY DEF TypeInv, TypeOK
  <2>1. ASSUME DriverResets(d) PROVE DataOK'
    BY <2>0, <2>1 DEF DriverResets, DriverUnchanged, DataOK
  <2>2. ASSUME DriverStops(d) PROVE DataOK'
    BY <2>0, <2>2 DEF DriverStops, DriverUnchanged, DataOK
  <2>3. ASSUME DriverStarts(d) PROVE DataOK'
    BY <2>0, <2>3 DEF DriverStarts, DriverUnchanged, DataOK
  <2>4. ASSUME DriverClears(d) PROVE DataOK'
    BY <2>0, <2>4 DEF DriverClears, DriverUnchanged, DataOK
  <2>5. ASSUME RunCase(d) PROVE DataOK'
    <3>1. PICK o \in TellingsOf[Cases[driver[d].case]] : faults' = faults \cup o[2]
      BY <2>5, RunCaseIs
    <3>2. faults' \subseteq {"partial", "mismatch"}
      BY <3>1, FaultsTyped
    <3> QED
      BY <2>0, <2>5, <3>2 DEF RunCase, DriverUnchanged, DataOK
  <2>6. ASSUME DriverFails(d) PROVE DataOK'
    <3>1. faults' \subseteq {"partial", "mismatch"} /\ dataset' \in Trials_ \cup Drivers \cup {None}
      <4>1. CASE driver[d].at = "case"
        BY <2>6, <4>1, FaultsTyped DEF DriverFails
      <4>2. CASE driver[d].at # "case"
        BY <2>0, <2>6, <4>2 DEF DriverFails, DataOK
      <4> QED
        BY <4>1, <4>2
    <3> QED
      BY <2>0, <2>6, <3>1 DEF DriverFails, DriverUnchanged, DataOK
  <2>7. ASSUME Gate(d) \/ Verify(d) PROVE DataOK'
    BY <2>0, <2>7 DEF Gate, Verify, DriverUnchanged, DataOK
  <2>8. ASSUME DriverTrap(d) PROVE DataOK'
    BY <2>0, <2>8 DEF DriverTrap, DriverUnchanged, DataOK
  <2>9. ASSUME KillDriver(d) PROVE DataOK'
    BY <2>0, <2>9 DEF KillDriver, Orphaned, outcome, DataOK
  <2>10. ASSUME TerminateDriver(d) PROVE DataOK'
    BY <2>0, <2>10 DEF TerminateDriver, Orphaned, outcome, DataOK
  <2>11. DataOK'
    BY <1>2, <2>1, <2>2, <2>3, <2>4, <2>5, <2>6, <2>7, <2>8, <2>9, <2>10 DEF RunCorrectness
  <2>12. Goes(d)
    BY <1>2, CorrectnessGoes
  <2>13. \A u \in Trials_ : DirOf(u)' = DirOf(u)
    BY <2>12 DEF DirOf, Goes
  <2>14. TypeOK'
    BY <2>11, <2>12 DEF TypeInv, TypeOK, Goes, DataOK, DriverStates
  <2> QED
    BY <2>12, <2>13, <2>14 DEF TypeInv, Goes
<1> QED
  BY <1>1, <1>2

LEMMA TypeStays == TypeInv /\ [Next]_vars => TypeInv'
<1> SUFFICES ASSUME TypeInv, [Next]_vars PROVE TypeInv'
  OBVIOUS
<1>1. ASSUME NEW t \in Trials_, RunScenario(t) PROVE TypeInv'
  BY <1>1, ScenarioTyped
<1>2. ASSUME NEW t \in Solo, StartSolo(t) PROVE TypeInv'
  BY <1>2, StartSoloTyped
<1>3. ASSUME NEW m \in Matrices, RunMatrix(m) PROVE TypeInv'
  BY <1>3, MatrixStepTyped
<1>4. ASSUME NEW d \in Drivers, RunCorrectness(d) PROVE TypeInv'
  BY <1>4, CorrectnessTyped
<1>5. CASE UNCHANGED vars
  <2>1. \A u \in Trials_ : DirOf(u)' = DirOf(u)
    BY <1>5 DEF vars, DirOf
  <2>2. TypeOK'
    BY <1>5 DEF vars, machine, outcome, TypeInv, TypeOK
  <2> QED
    BY <1>5, <2>1, <2>2 DEF vars, outcome, TypeInv
<1> QED
  BY <1>1, <1>2, <1>3, <1>4, <1>5 DEF Next

\* Every variable keeps its type; in particular a summary of k6 is in its
\* trial's directory and a matrix never starts a trial too many.
THEOREM TypeCorrect == Spec => []TypeOK
<1>1. Spec => []TypeInv
  BY TypeInit, TypeStays, PTL DEF Spec
<1> QED
  BY <1>1, PTL DEF TypeInv

-----------------------------------------------------------------------------
(* What a report that says PASS is worth.                                   *)

Reports ==
  [Runtimes -> [gate : [partial_committed_financial_state : Nat,
                        illegal_command_state_transition : Nat],
                profile : {"D1"}, sound : BOOLEAN]]

\* A run is beside whatever goes on with it.  A case that was not sound leaves
\* a fault, which only a trial or another run can remove.
PassInv ==
  /\ \A d \in Drivers :
       DriverRuns(d) /\ (\E t \in Trials_ : Live(t)) => driver[d].beside
  /\ \A d, e \in Drivers : d # e /\ DriverRuns(d) /\ DriverRuns(e) => driver[d].beside
  /\ \A d \in Drivers :
       ~driver[d].sound => /\ driver[d].at \in {"case", "gate"} /\ ~driver[d].beside
                           /\ faults # {}
  /\ reports \in Reports
  /\ \A r \in Runtimes : Clean(reports[r].gate) => reports[r].sound

LEMMA GateTyped ==
  ASSUME NEW f \in SUBSET {"partial", "mismatch"}
  PROVE  /\ hard_gate(f) \in [partial_committed_financial_state : Nat,
                              illegal_command_state_transition : Nat]
         /\ Clean(hard_gate(f)) <=> f = {}
<1>1. /\ IsFiniteSet(f \cap {"partial"}) /\ IsFiniteSet(f \cap {"mismatch"})
  <2>1. IsFiniteSet({"partial"}) /\ IsFiniteSet({"mismatch"})
    BY FS_Singleton
  <2> QED
    BY <2>1, FS_Subset
<1>2. /\ Cardinality(f \cap {"partial"}) \in Nat /\ Cardinality(f \cap {"mismatch"}) \in Nat
      /\ Cardinality(f \cap {"partial"}) = 0 <=> f \cap {"partial"} = {}
      /\ Cardinality(f \cap {"mismatch"}) = 0 <=> f \cap {"mismatch"} = {}
  BY <1>1, FS_CardinalityType, FS_EmptySet
<1>3. f = {} <=> f \cap {"partial"} = {} /\ f \cap {"mismatch"} = {}
  OBVIOUS
<1>4. Clean(hard_gate(f)) <=> /\ Cardinality(f \cap {"partial"}) = 0
                              /\ Cardinality(f \cap {"mismatch"}) = 0
  BY DEF Clean, hard_gate
<1>5. hard_gate(f) \in [partial_committed_financial_state : Nat,
                        illegal_command_state_transition : Nat]
  BY <1>2 DEF hard_gate
<1> QED
  BY <1>2, <1>3, <1>4, <1>5

LEMMA PassInit == Init => PassInv
<1> SUFFICES ASSUME Init PROVE PassInv
  OBVIOUS
<1>1. hard_gate({}) \in [partial_committed_financial_state : Nat,
                         illegal_command_state_transition : Nat]
  BY GateTyped
<1>2. Accepted \in [gate : [partial_committed_financial_state : Nat,
                            illegal_command_state_transition : Nat],
                    profile : {"D1"}, sound : BOOLEAN] /\ Accepted.sound = TRUE
  BY <1>1 DEF Accepted
<1>3. reports \in Reports /\ \A r \in Runtimes : reports[r].sound
  BY <1>2 DEF Init, Reports
<1>4. \A d \in Drivers : driver[d].at = "idle" /\ driver[d].sound
  BY DEF Init, IdleDriver
<1> QED
  BY <1>3, <1>4 DEF PassInv, DriverRuns, Ended

\* Nothing a trial does is seen by a run that still counts on its rows.
LEMMA PassKept ==
  ASSUME TypeInv, PassInv, reports' = reports, driver' = driver,
         \/ \E t \in Trials_ : Live(t)
         \/ faults' = faults,
         \A t \in Trials_ : Live(t)' => Live(t)
  PROVE  PassInv'
<1>1. \A d \in Drivers : DriverRuns(d)' = DriverRuns(d)
  BY DEF DriverRuns
<1>2. ASSUME NEW d \in Drivers, ~driver[d].sound PROVE faults' = faults
  <2>1. driver[d].at \in {"case", "gate"} => DriverRuns(d)
    BY DEF DriverRuns, Ended
  <2> QED
    BY <1>2, <2>1 DEF PassInv
<1> QED
  BY <1>1, <1>2 DEF PassInv

LEMMA ScenarioWritesNoReport ==
  ASSUME NEW t \in Trials_, RunScenario(t)
  PROVE  reports' = reports
  BY DEF RunScenario, MakeDir, StopAll, ResetDataset, PrepareFixture, StopOther, StartApi,
         StartLoad, EndLoad, Post, Checked, Finish, Fail, Terminate, KillTrial, OrphanEnds, outcome

LEMMA ScenarioKeepsPass ==
  ASSUME TypeInv, PassInv, NEW t \in Trials_, RunScenario(t)
  PROVE  PassInv'
<1>1. Moves(t) /\ reports' = reports
  BY ScenarioTyped, ScenarioWritesNoReport
<1>2. \A u \in Trials_ : Live(u)' => Live(u)
  BY <1>1 DEF Moves, Live
<1> QED
  BY <1>1, <1>2, PassKept DEF Moves

LEMMA BeginKeepsPass ==
  ASSUME TypeInv, PassInv, reports' = reports, faults' = faults, driver' = Disturbed
  PROVE  PassInv'
<1>1. \A d \in Drivers : /\ driver'[d].at = driver[d].at
                         /\ DriverRuns(d) => driver'[d].beside /\ driver'[d].sound
                         /\ ~DriverRuns(d) => driver'[d] = driver[d]
  BY DisturbedIs
<1>2. \A d \in Drivers : DriverRuns(d)' = DriverRuns(d)
  BY <1>1 DEF DriverRuns
<1>3. \A d \in Drivers : driver'[d].sound
  <2>1. \A d \in Drivers : driver[d].at \in {"case", "gate"} => DriverRuns(d)
    BY DEF DriverRuns, Ended
  <2> QED
    BY <1>1, <2>1 DEF PassInv
<1> QED
  BY <1>1, <1>2, <1>3 DEF PassInv

LEMMA MatrixKeepsPass ==
  ASSUME TypeInv, PassInv, NEW m \in Matrices, RunMatrix(m)
  PROVE  PassInv'
<1>0. m \in Trials_ /\ trial \in [Trials_ -> TrialStates]
  BY DEF Trials_, TypeInv, TypeOK, TrialStates
<1>1. CASE LockMatrix(m) \/ MatrixFails(m) \/ KillMatrix(m)
  BY <1>1, PassKept DEF LockMatrix, MatrixFails, KillMatrix, machine, outcome, Live
<1>2. CASE TrialDone(m)
  <2>1. \A t \in Trials_ : Live(t)' => Live(t)
    BY <1>0, <1>2 DEF TrialDone, Live, IdleTrial, Ended
  <2> QED
    BY <1>2, <2>1, PassKept DEF TrialDone, machine
<1>3. CASE RunTrial(m)
  <2> DEFINE what == Scheduled(matrix[m].done)
  <2>1. matrix[m].done \in Nat
    BY MatrixTyped, BoundsTyped DEF MatrixStates
  <2>2. Begin(m, what) /\ reports' = reports /\ faults' = faults
    BY <1>3 DEF RunTrial, outcome, machine
  <2>3. /\ what.runtime \in Runtimes /\ what.phase \in {"warmup", "measured"}
        /\ what.ordinal \in Nat \ {0}
    BY <2>1, ScheduledTyped
  <2> HIDE DEF what
  <2> QED
    BY <1>0, <2>2, <2>3, BeginTyped, BeginKeepsPass
<1> QED
  BY <1>1, <1>2, <1>3 DEF RunMatrix

LEMMA SoloKeepsPass ==
  ASSUME TypeInv, PassInv, NEW t \in Solo, StartSolo(t)
  PROVE  PassInv'
<1> DEFINE what == [runtime |-> "python", phase |-> "measured", ordinal |-> 1]
<1>1. Begin(t, what) /\ reports' = reports /\ faults' = faults /\ t \in Trials_
  BY DEF StartSolo, outcome, machine, Trials_
<1>2. what.runtime \in Runtimes /\ what.phase \in {"warmup", "measured"} /\ what.ordinal \in Nat \ {0}
  BY DEF Runtimes
<1> HIDE DEF what
<1> QED
  BY <1>1, <1>2, BeginTyped, BeginKeepsPass

\* Who else runs is not counting on its rows, so only the run that steps and
\* the report it may write are left to look at.
LEMMA GoesKeepsPass ==
  ASSUME TypeInv, PassInv, NEW d \in Drivers, Goes(d),
         ~driver'[d].sound =>
           driver'[d].at \in {"case", "gate"} /\ ~driver'[d].beside /\ faults' # {},
         reports' \in Reports,
         \A r \in Runtimes : Clean(reports'[r].gate) => reports'[r].sound
  PROVE  PassInv'
<1>1. \A t \in Trials_ : Live(t)' <=> Live(t)
  BY DEF Goes, Live
<1>2. \A e \in Drivers : DriverRuns(e)' => DriverRuns(e) /\ driver'[e].beside = driver[e].beside
  BY DEF Goes, DriverRuns
<1>3. \A e \in Drivers \ {d} : driver'[e].sound
  <2> SUFFICES ASSUME NEW e \in Drivers \ {d}, ~driver[e].sound PROVE FALSE
    BY DEF Goes
  <2>1. DriverRuns(e) /\ ~driver[e].beside
    BY DEF PassInv, DriverRuns, Ended
  <2> QED
    BY <2>1 DEF PassInv, Goes
<1> QED
  BY <1>1, <1>2, <1>3 DEF PassInv

LEMMA DriverKeepsPass ==
  ASSUME TypeInv, PassInv, NEW d \in Drivers, RunCorrectness(d)
  PROVE  PassInv'
<1>1. CASE StartDriver(d)
  <2>1. /\ \A e \in Drivers \ {d} : driver'[e] = Disturbed[e]
        /\ driver'[d].sound /\ driver'[d].beside = (AnyDriver \/ \E t \in Trials_ : Live(t))
        /\ \A t \in Trials_ : Live(t)' <=> Live(t)
    BY <1>1, StartDriverTyped DEF Live
  <2>2. reports' = reports
    BY <1>1 DEF StartDriver, outcome
  <2>3. ASSUME NEW e \in Drivers \ {d}
        PROVE  /\ DriverRuns(e)' <=> DriverRuns(e)
               /\ DriverRuns(e) => driver'[e].beside
               /\ driver'[e].sound
    <3>1. /\ driver'[e].at = driver[e].at
          /\ DriverRuns(e) => driver'[e].beside /\ driver'[e].sound
          /\ ~DriverRuns(e) => driver'[e] = driver[e]
      BY <2>1, DisturbedIs
    <3>2. ~DriverRuns(e) => driver[e].sound
      BY DEF PassInv, DriverRuns, Ended
    <3> QED
      BY <3>1, <3>2 DEF DriverRuns
  <2>4. \A e \in Drivers : driver'[e].sound
    BY <2>1, <2>3
  <2>5. (\E t \in Trials_ : Live(t)') => driver'[d].beside
    BY <2>1
  <2>6. \A e \in Drivers \ {d} : DriverRuns(e) => driver'[d].beside
    BY <2>1 DEF AnyDriver
  <2> QED
    BY <2>2, <2>3, <2>4, <2>5, <2>6 DEF PassInv
<1>2. CASE ~StartDriver(d)
  <2> USE GoesKeepsPass
  <2>1. Goes(d)
    BY <1>2, CorrectnessGoes
  <2>2. reports \in Reports /\ \A r \in Runtimes : Clean(reports[r].gate) => reports[r].sound
    BY DEF PassInv
  <2>3. driver[d].at \notin {"case", "gate"} => driver[d].sound
    BY DEF PassInv
  <2>4. CASE DriverResets(d) \/ DriverStops(d) \/ DriverStarts(d) \/ DriverClears(d)
    <3>1. PICK at \in {"stop", "up", "counters", "case"} : Advance(d, at)
      BY <2>4 DEF DriverResets, DriverStops, DriverStarts, DriverClears
    <3>2. at \in DriverSteps /\ driver[d].sound /\ reports' = reports
      BY <2>3, <2>4 DEF DriverResets, DriverStops, DriverStarts, DriverClears, DriverSteps
    <3>3. driver'[d].sound
      BY <3>1, <3>2, AdvanceIs
    <3> QED
      BY <2>1, <2>2, <3>2, <3>3
  <2>5. CASE RunCase(d)
    <3>1. PICK o \in TellingsOf[Cases[driver[d].case]] :
            /\ o[1]
            /\ faults' = faults \cup o[2]
            /\ driver'[d].sound = (driver[d].beside \/ (driver[d].sound /\ o[3]))
      BY <2>5, RunCaseIs
    <3>2. driver'[d].at \in {"case", "gate"} /\ driver'[d].beside = driver[d].beside
      BY <2>5, RunCaseIs
    <3>3. o[2] = {} => o[3]
      <4> DEFINE case == Cases[driver[d].case]
      <4>1. case \in DOMAIN Outcomes
        BY <3>1, FaultsTyped
      <4> HIDE DEF case
      <4>2. PICK x \in Outcomes[case] :
              o = << Asserted(case, x), Evidence(case, x), Sound(case, x) >>
        BY <4>1, TellingIs DEF case
      <4> QED
        BY <3>1, <4>1, <4>2, AcceptedIsSound
    <3>4. ~driver'[d].sound => ~driver'[d].beside /\ faults' # {}
      BY <3>1, <3>2, <3>3 DEF PassInv
    <3>5. reports' = reports
      BY <2>5 DEF RunCase
    <3> QED
      BY <2>1, <2>2, <3>2, <3>4, <3>5
  <2>6. CASE DriverFails(d)
    <3>1. reports' = reports /\ driver'[d].sound
      BY <2>6, GivesUpIs DEF DriverFails
    <3> QED
      BY <2>1, <2>2, <3>1
  <2>7. CASE Gate(d)
    <3> DEFINE report == [gate |-> hard_gate(faults), profile |-> "D1", sound |-> driver[d].sound]
    <3>1. reports' = [reports EXCEPT ![driver[d].runtime] = report]
      BY <2>7 DEF Gate
    <3>2. faults \in SUBSET {"partial", "mismatch"} /\ driver[d].sound \in BOOLEAN
          /\ driver[d].runtime \in Runtimes
      BY DEF TypeInv, TypeOK
    <3>3. report \in [gate : [partial_committed_financial_state : Nat,
                              illegal_command_state_transition : Nat],
                      profile : {"D1"}, sound : BOOLEAN]
      BY <3>2, GateTyped
    <3>4. Clean(report.gate) => report.sound
      BY <3>2, GateTyped DEF PassInv
    <3>5. reports' \in Reports /\ \A r \in Runtimes : Clean(reports'[r].gate) => reports'[r].sound
      <4> HIDE DEF report
      <4>1. reports' \in Reports
        BY <2>2, <3>1, <3>3 DEF Reports
      <4>2. \A r \in Runtimes : reports'[r] = IF r = driver[d].runtime THEN report ELSE reports[r]
        BY <2>2, <3>1 DEF Reports
      <4> QED
        BY <2>2, <3>4, <4>1, <4>2
    <3>6. driver'[d].sound
      <4>1. CASE faults = {}
        <5>1. Advance(d, "verify") /\ "verify" \in DriverSteps /\ driver[d].sound
          BY <2>7, <4>1 DEF Gate, DriverSteps, PassInv
        <5> QED
          BY <5>1, AdvanceIs
      <4>2. CASE faults # {}
        BY <2>7, <4>2, GivesUpIs DEF Gate
      <4> QED
        BY <4>1, <4>2
    <3> QED
      BY <2>1, <3>5, <3>6
  <2>8. CASE Verify(d)
    <3>1. Advance(d, "passing") \/ GivesUp(d)
      BY <2>8 DEF Verify
    <3>2. reports' = reports /\ driver[d].sound /\ "passing" \in DriverSteps
      BY <2>3, <2>8 DEF Verify, DriverSteps
    <3>3. driver'[d].sound
      BY <3>1, <3>2, AdvanceIs, GivesUpIs
    <3> QED
      BY <2>1, <2>2, <3>2, <3>3
  <2>9. CASE DriverTrap(d)
    <3>1. Advance(d, "passed") \/ Advance(d, "failed")
      BY <2>9 DEF DriverTrap
    <3>2. reports' = reports /\ driver[d].sound
      BY <2>3, <2>9 DEF DriverTrap
    <3>3. driver'[d].sound
      BY <3>1, <3>2, AdvanceIs
    <3> QED
      BY <2>1, <2>2, <3>2, <3>3
  <2>10. CASE Orphaned(d)
    <3>1. reports' = reports /\ faults' = faults
      BY <2>10 DEF Orphaned, outcome
    <3>2. /\ driver'[d].at = driver[d].at /\ driver'[d].sound = driver[d].sound
          /\ driver'[d].beside = driver[d].beside
      BY <2>10, OrphanedIs
    <3>3. ~driver'[d].sound =>
            driver'[d].at \in {"case", "gate"} /\ ~driver'[d].beside /\ faults' # {}
      BY <3>1, <3>2 DEF PassInv
    <3> QED
      BY <2>1, <2>2, <3>1, <3>3
  <2> QED
    BY <1>2, <2>4, <2>5, <2>6, <2>7, <2>8, <2>9, <2>10
       DEF RunCorrectness, KillDriver, TerminateDriver
<1> QED
  BY <1>1, <1>2

LEMMA PassStays == TypeInv /\ PassInv /\ [Next]_vars => PassInv'
<1> SUFFICES ASSUME TypeInv, PassInv, [Next]_vars PROVE PassInv'
  OBVIOUS
<1>1. ASSUME NEW t \in Trials_, RunScenario(t) PROVE PassInv'
  BY <1>1, ScenarioKeepsPass
<1>2. ASSUME NEW t \in Solo, StartSolo(t) PROVE PassInv'
  BY <1>2, SoloKeepsPass
<1>3. ASSUME NEW m \in Matrices, RunMatrix(m) PROVE PassInv'
  BY <1>3, MatrixKeepsPass
<1>4. ASSUME NEW d \in Drivers, RunCorrectness(d) PROVE PassInv'
  BY <1>4, DriverKeepsPass
<1>5. CASE UNCHANGED vars
  BY <1>5 DEF vars, machine, outcome, PassInv, DriverRuns, Live
<1> QED
  BY <1>1, <1>2, <1>3, <1>4, <1>5 DEF Next

\* A run of run_correctness that passes, and two reports that
\* compare_correctness accepts, are of runs whose every case was sound unless
\* a trial, another run or what is left of one was beside them, in whatever
\* order any number of scripts run, fail and are killed.
THEOREM PassMeansEveryCaseWasCleanHolds == Spec => []PassMeansEveryCaseWasClean
<1>1. Spec => [](TypeInv /\ PassInv)
  BY TypeInit, TypeStays, PassInit, PassStays, PTL DEF Spec
<1>2. PassInv => PassMeansEveryCaseWasClean
  <2> SUFFICES ASSUME PassInv PROVE PassMeansEveryCaseWasClean
    OBVIOUS
  <2>1. \A d \in Drivers : driver[d].at = "passed" => driver[d].sound
    BY DEF PassInv
  <2>2. Parity(reports["python"], reports["go"]) => \A r \in Runtimes : reports[r].sound
    BY DEF PassInv, Parity, Runtimes
  <2> QED
    BY <2>1, <2>2 DEF PassMeansEveryCaseWasClean
<1> QED
  BY <1>1, <1>2, PTL

-----------------------------------------------------------------------------
(* What a load and an assertion have the machine for.                       *)

Seeded == {"fixture", "other", "up", "pre", "load"}

\* Alone, a run of run_correctness finds its own rows from its reset on.
DriverAlone(d) ==
  ~driver[d].beside /\ driver[d].at \in {"stop", "up", "counters", "case"} => dataset = d

\* One trial or matrix holds the lock; until run_correctness comes, a trial
\* finds its own rows from its reset on, and its own API from its start on.
AloneInv ==
  /\ \A t, u \in Trials_ : Holds(t) /\ Holds(u) => t = u
  /\ AnyDriver => \A t \in Trials_ : Live(t) => trial[t].beside
  /\ \A t \in Trials_ : ~trial[t].beside /\ trial[t].at \in Seeded => dataset = t
  /\ \A t \in Trials_ :
       ~trial[t].beside /\ trial[t].at \in {"pre", "load"} => apis \subseteq {trial[t].runtime}
  /\ \A d \in Drivers : DriverAlone(d)

LEMMA EndedAlone ==
  ASSUME NEW d \in Drivers, ~DriverRuns(d)
  PROVE  DriverAlone(d)
  BY DEF DriverAlone, DriverRuns, Ended

LEMMA AloneInit == Init => AloneInv
<1> SUFFICES ASSUME Init PROVE AloneInv
  OBVIOUS
<1>1. \A t \in Trials_ : trial[t].at = "idle" /\ ~Holds(t)
  BY DEF Init, IdleTrial, Holds, Live, Ended
<1>2. \A d \in Drivers : ~DriverRuns(d)
  BY DEF Init, IdleDriver, DriverRuns, Ended
<1> QED
  BY <1>1, <1>2, EndedAlone DEF AloneInv, AnyDriver, Ended, Seeded

\* What a step of a trial does to its own claims.
Claims(t) ==
  /\ sampler' \subseteq sampler \cup {t}
  /\ ~trial'[t].beside /\ trial'[t].at \in Seeded => dataset' = t
  /\ ~trial'[t].beside /\ trial'[t].at \in {"pre", "load"} => apis' \subseteq {trial'[t].runtime}

LEMMA ScenarioClaims ==
  ASSUME TypeInv, AloneInv, NEW t \in Trials_, RunScenario(t)
  PROVE  Claims(t)
<1>0. Moves(t)
  BY ScenarioTyped
<1>0a. trial'[t].at \notin Ended =>
         trial'[t].runtime = trial[t].runtime /\ trial'[t].beside = trial[t].beside
  BY <1>0 DEF Moves
<1>0b. \A x \in Seeded : x \notin Ended
  BY DEF Seeded, Ended
<1>1. CASE MakeDir(t)
  <2>1. trial'[t].at \in {"stop"} \cup Ended
    BY <1>1, StepMoves DEF MakeDir, Steps, Ended
  <2> QED
    BY <1>1, <2>1 DEF MakeDir, Claims, Seeded, Ended
<1>2. CASE StopAll(t)
  <2>1. trial'[t].at \in {"reset"} \cup Ended
    BY <1>2, StepMoves DEF StopAll, Steps
  <2> QED
    BY <1>2, <2>1 DEF StopAll, Claims, Seeded, Ended
<1>3. CASE ResetDataset(t)
  <2>1. trial'[t].at \in {"fixture"} \cup Ended
    BY <1>3, StepMoves DEF ResetDataset, Steps
  <2> QED
    BY <1>3, <2>1 DEF ResetDataset, Reseed, Claims, Seeded, Ended
<1>4. CASE PrepareFixture(t)
  <2>1. trial'[t].at \in {"other"} \cup Ended /\ trial[t].at = "fixture"
    BY <1>4, StepMoves DEF PrepareFixture, Step, Steps
  <2> QED
    BY <1>0a, <1>4, <2>1 DEF PrepareFixture, Claims, Seeded, Ended, AloneInv
<1>5. CASE StopOther(t)
  <2>1. trial'[t].at \in {"up"} \cup Ended /\ trial[t].at = "other"
    BY <1>5, StepMoves DEF StopOther, Step, Steps
  <2> QED
    BY <1>0a, <1>5, <2>1 DEF StopOther, Claims, Seeded, Ended, AloneInv
<1>6. CASE StartApi(t)
  <2>1. trial'[t].at \in {"pre"} \cup Ended /\ trial[t].at = "up"
    BY <1>6, StepMoves DEF StartApi, Step, Steps
  <2>2. apis \subseteq Runtimes /\ trial[t].runtime \in Runtimes
    BY DEF TypeInv, TypeOK
  <2>3. apis' \subseteq {trial[t].runtime}
    BY <1>6, <2>2 DEF StartApi, SetApis, Other, Runtimes
  <2>4. dataset' = dataset /\ sampler' = sampler
    BY <1>6 DEF StartApi
  <2> QED
    BY <1>0a, <2>1, <2>3, <2>4 DEF Claims, Seeded, Ended, AloneInv
<1>7. CASE StartLoad(t)
  <2>1. trial'[t].at \in {"load"} \cup Ended /\ trial[t].at = "pre"
    BY <1>7, StepMoves DEF StartLoad, Step, Steps
  <2> QED
    BY <1>0a, <1>7, <2>1 DEF StartLoad, Claims, Seeded, Ended, AloneInv
<1>8. CASE EndLoad(t)
  <2>1. trial'[t].at \in {"post"} \cup Ended
    BY <1>8, EndLoadMoves
  <2> QED
    BY <1>8, <2>1 DEF EndLoad, Claims, Seeded, Ended
<1>9. CASE Post(t)
  <2>1. trial'[t].at \in {"finish"} \cup Ended
    BY <1>9, CheckedMoves DEF Post
  <2> QED
    BY <1>9, <2>1 DEF Post, Checked, Claims, Seeded, Ended
<1>10. CASE Finish(t)
  <2>1. trial'[t].at \in Ended
    BY <1>10, StepMoves DEF Finish, Steps, Ended
  <2> QED
    BY <1>10, <2>1 DEF Finish, Claims, Seeded, Ended
<1>11. CASE Fail(t)
  <2>1. trial'[t].at \in Ended
    BY <1>11, EndingMoves DEF Fail, Live, Trapped, Steps, Ended
  <2> QED
    BY <1>11, <2>1 DEF Fail, Claims, Seeded, Ended
<1>12. CASE Terminate(t)
  BY <1>12, StopsApis DEF Terminate, Claims, AloneInv
<1>13. CASE KillTrial(t)
  <2>1. trial'[t].at = trial[t].at
    BY <1>13, KillTrialMoves
  <2>2. sampler' = sampler /\ dataset' = dataset /\ apis' = apis
    BY <1>13 DEF KillTrial, machine
  <2> QED
    BY <1>0a, <1>0b, <2>1, <2>2 DEF Claims, AloneInv, Seeded
<1>14. CASE OrphanEnds(t)
  <2>1. trial'[t].at \in Ended
    BY <1>14, EndingMoves DEF OrphanEnds, Ended
  <2> QED
    BY <1>14, <2>1 DEF OrphanEnds, Claims, Seeded, Ended
<1> QED
  BY <1>1, <1>2, <1>3, <1>4, <1>5, <1>6, <1>7, <1>8, <1>9, <1>10, <1>11, <1>12, <1>13, <1>14
     DEF RunScenario

LEMMA ScenarioKeepsAlone ==
  ASSUME TypeInv, PassInv, AloneInv, NEW t \in Trials_, RunScenario(t)
  PROVE  AloneInv'
<1>1. Moves(t) /\ Claims(t)
  BY ScenarioTyped, ScenarioClaims
<1>2. \A u \in Trials_ : Live(u)' => Live(u)
  BY <1>1 DEF Moves, Live
<1>3. \A u \in Trials_ : Holds(u)' => Holds(u)
  BY <1>1, <1>2 DEF Moves, Claims, Holds
<1>4. \A u \in Trials_ \ {t} : ~Live(u)
  BY <1>1 DEF Moves, AloneInv, Holds
<1>5. \A u \in Trials_ \ {t} : trial'[u] = trial[u] /\ trial'[u].at \notin Seeded
  BY <1>1, <1>4 DEF Moves, Live, Seeded, Ended
<1>6. AnyDriver' = AnyDriver /\ driver' = driver
  BY <1>1 DEF Moves, AnyDriver, DriverRuns
<1>7. \A d \in Drivers : DriverAlone(d)'
  <2>1. \A d \in Drivers : DriverRuns(d) => driver[d].beside
    BY <1>1 DEF Moves, PassInv
  <2> QED
    BY <1>6, <2>1 DEF DriverAlone, DriverRuns, Ended
<1>8. AnyDriver' => \A u \in Trials_ : Live(u)' => trial'[u].beside
  BY <1>1, <1>2, <1>6 DEF Moves, AloneInv, Live
<1> QED
  BY <1>1, <1>3, <1>5, <1>7, <1>8 DEF AloneInv, Claims, Seeded

LEMMA BeginKeepsAlone ==
  ASSUME TypeInv, AloneInv, NEW t \in Trials_, NEW what, Begin(t, what),
         what.runtime \in Runtimes, what.phase \in {"warmup", "measured"},
         what.ordinal \in Nat \ {0}, \A u \in Trials_ : Holds(u) => u = t,
         \A u \in Trials_ \ {t} : Holds(u)' => Holds(u),
         dataset' = dataset, apis' = apis
  PROVE  AloneInv'
<1>1. /\ \A u \in Trials_ \ {t} : trial'[u] = trial[u]
      /\ trial'[t].at = "dir" /\ trial'[t].beside = AnyDriver
      /\ driver' = Disturbed
  BY BeginTyped
<1>2. \A d \in Drivers : /\ DriverRuns(d)' <=> DriverRuns(d)
                         /\ DriverRuns(d) => driver'[d].beside
  BY <1>1, DisturbedIs DEF DriverRuns
<1>3. AnyDriver' => \A u \in Trials_ : Live(u)' => trial'[u].beside
  BY <1>1, <1>2 DEF AloneInv, Live, AnyDriver
<1>4. \A u, x \in Trials_ : Holds(u)' /\ Holds(x)' => u = x
  OBVIOUS
<1>5. \A d \in Drivers : DriverAlone(d)'
  BY <1>2 DEF DriverAlone, DriverRuns, Ended
<1> QED
  BY <1>1, <1>3, <1>4, <1>5 DEF AloneInv, Seeded

LEMMA MatrixKeepsAlone ==
  ASSUME TypeInv, AloneInv, NEW m \in Matrices, RunMatrix(m)
  PROVE  AloneInv'
<1>0. m \in Trials_ /\ trial \in [Trials_ -> TrialStates] /\ matrix \in [Matrices -> MatrixStates]
  BY MatrixTyped DEF Trials_, TypeInv, TypeOK, TrialStates
<1>1. ASSUME UNCHANGED << trial, sampler, driver, machine >>,
             \A t, u \in Trials_ : Holds(t)' /\ Holds(u)' => t = u
      PROVE  AloneInv'
  BY <1>1 DEF AloneInv, machine, AnyDriver, DriverRuns, DriverAlone, Live
<1>2. CASE LockMatrix(m)
  <2>1. \A t \in Trials_ \ {m} : ~Holds(t)'
    BY <1>0, <1>2 DEF LockMatrix, Free, Holds, Live
  <2> QED
    BY <1>1, <1>2, <2>1 DEF LockMatrix
<1>3. CASE MatrixFails(m) \/ KillMatrix(m)
  <2>1. \A t \in Trials_ : Holds(t)' => Holds(t)
    BY <1>0, <1>3 DEF MatrixFails, KillMatrix, Holds, Live
  <2> QED
    BY <1>1, <1>3, <2>1 DEF MatrixFails, KillMatrix, AloneInv
<1>4. CASE TrialDone(m)
  <2>1. /\ trial' = [trial EXCEPT ![m] = IdleTrial] /\ IdleTrial.at = "idle"
        /\ UNCHANGED << sampler, driver, machine >> /\ matrix[m].at = "trial"
    BY <1>4 DEF TrialDone, IdleTrial
  <2>2. trial'[m].at = "idle" /\ \A t \in Trials_ \ {m} : trial'[t] = trial[t]
    BY <1>0, <2>1
  <2>3. \A t \in Matrices \ {m} : matrix'[t] = matrix[t]
    BY <1>0, <1>4 DEF TrialDone
  <2>4. \A t \in Trials_ : Holds(t)' => Holds(t)
    BY <1>0, <2>1, <2>2, <2>3 DEF Holds, Live, Ended
  <2> QED
    BY <1>0, <2>1, <2>2, <2>4
       DEF AloneInv, machine, AnyDriver, DriverRuns, DriverAlone, Live, Ended, Seeded
<1>5. CASE RunTrial(m)
  <2> DEFINE what == Scheduled(matrix[m].done)
  <2>1. matrix[m].done \in Nat
    BY <1>0, BoundsTyped DEF MatrixStates
  <2>2. Begin(m, what) /\ dataset' = dataset /\ apis' = apis
    BY <1>5 DEF RunTrial, machine
  <2>3. /\ what.runtime \in Runtimes /\ what.phase \in {"warmup", "measured"}
        /\ what.ordinal \in Nat \ {0}
    BY <2>1, ScheduledTyped
  <2> HIDE DEF what
  <2>4. \A u \in Trials_ \ {m} : trial'[u] = trial[u]
    BY <1>0, <2>2, <2>3, BeginTyped
  <2>5. \A u \in Trials_ \ {m} : Holds(u)' => Holds(u)
    BY <1>0, <1>5, <2>4 DEF RunTrial, Holds, Live
  <2>6. \A u \in Trials_ : Holds(u) => u = m
    BY <1>0, <1>5 DEF RunTrial, Holds, AloneInv
  <2> QED
    BY <1>0, <2>2, <2>3, <2>5, <2>6, BeginKeepsAlone
<1> QED
  BY <1>2, <1>3, <1>4, <1>5 DEF RunMatrix

LEMMA SoloKeepsAlone ==
  ASSUME TypeInv, AloneInv, NEW t \in Solo, StartSolo(t)
  PROVE  AloneInv'
<1> DEFINE what == [runtime |-> "python", phase |-> "measured", ordinal |-> 1]
<1>1. /\ Begin(t, what) /\ dataset' = dataset /\ apis' = apis /\ t \in Trials_
      /\ matrix' = matrix /\ sampler' = sampler
  BY DEF StartSolo, machine, Trials_
<1>2. what.runtime \in Runtimes /\ what.phase \in {"warmup", "measured"} /\ what.ordinal \in Nat \ {0}
  BY DEF Runtimes
<1> HIDE DEF what
<1>3. \A u \in Trials_ \ {t} : trial'[u] = trial[u]
  BY <1>1, <1>2, BeginTyped
<1>4. \A u \in Trials_ \ {t} : Holds(u)' => Holds(u)
  BY <1>1, <1>3 DEF Holds, Live
<1>5. \A u \in Trials_ : Holds(u) => u = t
  BY DEF StartSolo, Free
<1> QED
  BY <1>1, <1>2, <1>4, <1>5, BeginKeepsAlone

\* A run that steps must keep its own claims; no other run, and no trial, has
\* any while it is there.
LEMMA GoesKeepsAlone ==
  ASSUME TypeInv, PassInv, AloneInv, NEW d \in Drivers, Goes(d), DriverAlone(d)'
  PROVE  AloneInv'
<1>1. \A t \in Trials_ : (Live(t)' <=> Live(t)) /\ (Holds(t)' <=> Holds(t))
  BY DEF Goes, Live, Holds
<1>2. \A t \in Trials_ : trial'[t] = trial[t] /\ (~trial[t].beside => trial[t].at \notin Seeded)
  BY DEF Goes, AloneInv, AnyDriver, Live, Seeded, Ended
<1>3. "load" \in Seeded /\ "pre" \in Seeded
  BY DEF Seeded
<1>4. AnyDriver
  BY DEF Goes, AnyDriver
<1>5. \A e \in Drivers \ {d} : DriverAlone(e)'
  <2> SUFFICES ASSUME NEW e \in Drivers \ {d} PROVE DriverAlone(e)'
    OBVIOUS
  <2>1. DriverRuns(e) => driver[e].beside
    BY DEF PassInv, Goes
  <2> QED
    BY <2>1 DEF Goes, DriverAlone, DriverRuns, Ended
<1> QED
  BY <1>1, <1>2, <1>3, <1>4, <1>5 DEF AloneInv

LEMMA DriverKeepsAlone ==
  ASSUME TypeInv, PassInv, AloneInv, NEW d \in Drivers, RunCorrectness(d)
  PROVE  AloneInv'
<1>1. CASE StartDriver(d)
  <2>1. /\ driver'[d].at = "reset"
        /\ \A e \in Drivers \ {d} : driver'[e] = Disturbed[e]
        /\ \A t \in Trials_ : /\ trial'[t].at = trial[t].at
                              /\ Live(t) => trial'[t].beside
    BY <1>1, StartDriverTyped
  <2>2. \A t \in Trials_ : (Live(t)' <=> Live(t)) /\ (Holds(t)' <=> Holds(t))
    BY <1>1, <2>1 DEF StartDriver, Live, Holds
  <2>3. \A t \in Trials_ : ~trial'[t].beside => trial'[t].at \notin Seeded
    BY <2>1 DEF Live, Seeded, Ended
  <2>4. "load" \in Seeded /\ "pre" \in Seeded
    BY DEF Seeded
  <2>5. DriverAlone(d)'
    BY <2>1 DEF DriverAlone
  <2>6. ASSUME NEW e \in Drivers \ {d} PROVE DriverAlone(e)'
    BY <2>1, DisturbedIs DEF DriverAlone, DriverRuns, Ended
  <2> QED
    BY <2>1, <2>2, <2>3, <2>4, <2>5, <2>6 DEF AloneInv
<1>2. CASE ~StartDriver(d)
  <2>1. Goes(d)
    BY <1>2, CorrectnessGoes
  <2>2. DriverAlone(d)
    BY DEF AloneInv
  <2>3. CASE DriverResets(d)
    <3>1. driver'[d].at \in {"stop", "gone"}
      BY <2>3, AdvanceIs DEF DriverResets, DriverSteps
    <3> QED
      BY <2>1, <2>3, <3>1, GoesKeepsAlone DEF DriverResets, Reseed, DriverAlone
  <2>4. CASE DriverStops(d) \/ DriverStarts(d) \/ DriverClears(d)
    <3>1. PICK at \in {"up", "counters", "case"} : Advance(d, at)
      BY <2>4 DEF DriverStops, DriverStarts, DriverClears
    <3>2. /\ driver[d].at \in {"stop", "up", "counters"} /\ dataset' = dataset
          /\ at \in DriverSteps
      BY <2>4 DEF DriverStops, DriverStarts, DriverClears, DriverSteps
    <3>3. driver'[d].at = "gone" \/ driver'[d].beside = driver[d].beside
      BY <3>1, <3>2, AdvanceIs
    <3> QED
      BY <2>1, <2>2, <3>2, <3>3, GoesKeepsAlone DEF DriverAlone
  <2>5. CASE RunCase(d)
    BY <2>1, <2>5, GoesKeepsAlone DEF RunCase, DriverAlone
  <2>6. CASE DriverFails(d)
    <3>1. driver'[d].at \in {"gone", "failed", "failing"}
      BY <2>6, GivesUpIs DEF DriverFails
    <3> QED
      BY <2>1, <3>1, GoesKeepsAlone DEF DriverAlone
  <2>7. CASE Gate(d) \/ Verify(d)
    <3>1. Advance(d, "verify") \/ Advance(d, "passing") \/ GivesUp(d)
      BY <2>7 DEF Gate, Verify
    <3>2. "verify" \in DriverSteps /\ "passing" \in DriverSteps
      BY DEF DriverSteps
    <3>3. driver'[d].at \in {"verify", "passing", "gone", "failed", "failing"}
      BY <3>1, <3>2, AdvanceIs, GivesUpIs
    <3> QED
      BY <2>1, <3>3, GoesKeepsAlone DEF DriverAlone
  <2>8. CASE DriverTrap(d)
    <3>1. Advance(d, "passed") \/ Advance(d, "failed")
      BY <2>8 DEF DriverTrap
    <3>2. driver'[d].at \in {"passed", "gone", "failed"}
      BY <3>1, AdvanceIs
    <3> QED
      BY <2>1, <3>2, GoesKeepsAlone DEF DriverAlone
  <2>9. CASE KillDriver(d) \/ TerminateDriver(d)
    <3>1. /\ driver'[d].at = driver[d].at /\ driver'[d].beside = driver[d].beside
          /\ dataset' = dataset
      BY <2>9, OrphanedIs DEF KillDriver, TerminateDriver, Orphaned
    <3> QED
      BY <2>1, <2>2, <3>1, GoesKeepsAlone DEF DriverAlone
  <2> QED
    BY <1>2, <2>3, <2>4, <2>5, <2>6, <2>7, <2>8, <2>9
       DEF RunCorrectness
<1> QED
  BY <1>1, <1>2

LEMMA AloneStays == TypeInv /\ PassInv /\ AloneInv /\ [Next]_vars => AloneInv'
<1> SUFFICES ASSUME TypeInv, PassInv, AloneInv, [Next]_vars PROVE AloneInv'
  OBVIOUS
<1>1. ASSUME NEW t \in Trials_, RunScenario(t) PROVE AloneInv'
  BY <1>1, ScenarioKeepsAlone
<1>2. ASSUME NEW t \in Solo, StartSolo(t) PROVE AloneInv'
  BY <1>2, SoloKeepsAlone
<1>3. ASSUME NEW m \in Matrices, RunMatrix(m) PROVE AloneInv'
  BY <1>3, MatrixKeepsAlone
<1>4. ASSUME NEW d \in Drivers, RunCorrectness(d) PROVE AloneInv'
  BY <1>4, DriverKeepsAlone
<1>5. CASE UNCHANGED vars
  BY <1>5 DEF vars, machine, outcome, AloneInv, AnyDriver, DriverRuns, DriverAlone, Live, Holds
<1> QED
  BY <1>1, <1>2, <1>3, <1>4, <1>5 DEF Next

\* However many matrices, trials by hand and runs of run_correctness are
\* started, killed and terminated, two loads never overlap, a load that
\* run_correctness and its orphans leave alone has the machine for itself, and
\* an assertion that nothing else disturbs is about its own run's rows.
THEOREM MeasuredAloneHolds == Spec => []MeasuredAlone
<1>1. Spec => [](TypeInv /\ PassInv /\ AloneInv)
  BY TypeInit, TypeStays, PassInit, PassStays, AloneInit, AloneStays, PTL DEF Spec
<1>2. AloneInv => MeasuredAlone
  <2> SUFFICES ASSUME AloneInv PROVE MeasuredAlone
    OBVIOUS
  <2>1. \A t, u \in Trials_ : trial[t].at = "load" /\ trial[u].at = "load" => t = u
    BY DEF AloneInv, Holds, Live, Ended
  <2>2. \A t \in Trials_ : trial[t].at = "load" /\ ~trial[t].beside =>
          apis \subseteq {trial[t].runtime} /\ dataset = t
    BY DEF AloneInv, Seeded
  <2>3. \A d \in Drivers : driver[d].at = "case" /\ ~driver[d].beside => dataset = d
    BY DEF AloneInv, DriverAlone
  <2> QED
    BY <2>1, <2>2, <2>3 DEF MeasuredAlone
<1> QED
  BY <1>1, <1>2, PTL

-----------------------------------------------------------------------------
(* Which calls a trial counts.                                              *)

\* From its first snapshot on, what derive_run would find is at most what was
\* issued, and exactly the load if nobody else was there.
CountsOf(t) ==
  /\ trial[t].at \in {"load", "post"} => Derived(pre[t], stats) <= issued[t]
  /\ trial[t].at = "finish" => counted[t] <= issued[t]
  /\ ~trial[t].beside /\ trial[t].at = "load" => stats = pre[t]
  /\ ~trial[t].beside /\ trial[t].at = "post" =>
       stats = [app |-> pre[t].app + IF t \in broken THEN 0 ELSE LoadCalls, other |-> pre[t].other]
  /\ ~trial[t].beside /\ trial[t].at = "finish" =>
       counted[t] = IF t \in broken THEN 0 ELSE LoadCalls

CountInv == \A t \in Trials_ : CountsOf(t)

LEMMA DerivedOf ==
  ASSUME NEW b \in [app : Nat, other : Nat], NEW a \in [app : Nat, other : Nat], NEW n \in Nat
  PROVE  /\ Derived(b, [a EXCEPT !["app"] = @ + n]) <= Derived(b, a) + n
         /\ Derived(b, [a EXCEPT !["other"] = @ + n]) <= Derived(b, a) + n
         /\ Derived(b, [app |-> n, other |-> 0]) <= n
         /\ Derived(a, a) = 0
         /\ Derived(b, [app |-> b.app + n, other |-> b.other]) = n
<1>1. /\ [a EXCEPT !["app"] = @ + n].app = a.app + n
      /\ [a EXCEPT !["app"] = @ + n].other = a.other
      /\ [a EXCEPT !["other"] = @ + n].app = a.app
      /\ [a EXCEPT !["other"] = @ + n].other = a.other + n
  OBVIOUS
<1>2. \A x, y \in Nat : /\ Min2(x, y) \in Nat /\ Min2(x, y) <= x /\ Min2(x, y) <= y
                        /\ Min2(x, y) = x \/ Min2(x, y) = y
  BY DEF Min2
<1>3. \A x, y \in Nat : (y + n) - Min2(x, y + n) <= (y - Min2(x, y)) + n
  BY DEF Min2
<1>4. /\ a.app \in Nat /\ a.other \in Nat /\ b.app \in Nat /\ b.other \in Nat
  OBVIOUS
<1>5. Derived(b, [a EXCEPT !["app"] = @ + n]) <= Derived(b, a) + n
  <2>1. Derived(b, [a EXCEPT !["app"] = @ + n])
          = ((a.app + n) - Min2(b.app, a.app + n)) + (a.other - Min2(b.other, a.other))
    BY <1>1 DEF Derived
  <2>2. (a.app + n) - Min2(b.app, a.app + n) <= (a.app - Min2(b.app, a.app)) + n
    BY <1>3, <1>4
  <2>0. /\ a.app + n \in Nat /\ Min2(b.app, a.app + n) \in Nat
        /\ Min2(b.app, a.app) \in Nat /\ Min2(b.other, a.other) \in Nat
    <3>1. a.app + n \in Nat
      BY <1>4
    <3> QED
      BY <1>2, <1>4, <3>1
  <2> DEFINE x == (a.app + n) - Min2(b.app, a.app + n)
  <2> DEFINE y == a.app - Min2(b.app, a.app)
  <2> DEFINE z == a.other - Min2(b.other, a.other)
  <2>3. x \in Int /\ y \in Int /\ z \in Int
    BY <1>4, <2>0
  <2>4. Derived(b, a) = y + z /\ Derived(b, [a EXCEPT !["app"] = @ + n]) = x + z /\ x <= y + n
    BY <2>1, <2>2 DEF Derived
  <2> HIDE DEF x, y, z
  <2> QED
    BY <2>3, <2>4
<1>6. Derived(b, [a EXCEPT !["other"] = @ + n]) <= Derived(b, a) + n
  <2>1. Derived(b, [a EXCEPT !["other"] = @ + n])
          = (a.app - Min2(b.app, a.app)) + ((a.other + n) - Min2(b.other, a.other + n))
    BY <1>1 DEF Derived
  <2>2. (a.other + n) - Min2(b.other, a.other + n) <= (a.other - Min2(b.other, a.other)) + n
    BY <1>3, <1>4
  <2>0. /\ a.other + n \in Nat /\ Min2(b.other, a.other + n) \in Nat
        /\ Min2(b.other, a.other) \in Nat /\ Min2(b.app, a.app) \in Nat
    <3>1. a.other + n \in Nat
      BY <1>4
    <3> QED
      BY <1>2, <1>4, <3>1
  <2> DEFINE x == (a.other + n) - Min2(b.other, a.other + n)
  <2> DEFINE y == a.other - Min2(b.other, a.other)
  <2> DEFINE z == a.app - Min2(b.app, a.app)
  <2>3. x \in Int /\ y \in Int /\ z \in Int
    BY <1>4, <2>0
  <2>4. Derived(b, a) = z + y /\ Derived(b, [a EXCEPT !["other"] = @ + n]) = z + x /\ x <= y + n
    BY <2>1, <2>2 DEF Derived
  <2> HIDE DEF x, y, z
  <2> QED
    BY <2>3, <2>4
<1>7. Derived(b, [app |-> n, other |-> 0]) <= n
  BY <1>4 DEF Derived, Min2
<1>8. Derived(a, a) = 0
  BY <1>4 DEF Derived, Min2
<1>9. Derived(b, [app |-> b.app + n, other |-> b.other]) = n
  BY <1>4 DEF Derived, Min2
<1> QED
  BY <1>5, <1>6, <1>7, <1>8, <1>9

LEMMA CountInit == Init => CountInv
<1> SUFFICES ASSUME Init PROVE CountInv
  OBVIOUS
<1>1. \A t \in Trials_ : trial[t].at = "idle"
  BY DEF Init, IdleTrial
<1> QED
  BY <1>1 DEF CountInv, CountsOf

\* A trial that is neither loading nor being counted makes no claim.
LEMMA NoCount ==
  ASSUME NEW t \in Trials_, trial'[t].at \notin {"load", "post", "finish"}
  PROVE  CountsOf(t)'
  BY DEF CountsOf

LEMMA EndedCountsNothing == \A x \in Ended : x \notin {"load", "post", "finish"}
  BY DEF Ended

\* Of the trial's own variables nothing changes, but perhaps a loss of its
\* API that comes after the load.
LEMMA SameCount ==
  ASSUME TypeInv, NEW t \in Trials_, CountsOf(t), UNCHANGED << stats, issued, pre, counted >>,
         trial'[t].at = trial[t].at, trial[t].beside => trial'[t].beside,
         (t \in broken') <=> (t \in broken)
  PROVE  CountsOf(t)'
  BY DEF CountsOf

LEMMA ScenarioCounts ==
  ASSUME TypeInv, CountInv, NEW t \in Trials_, RunScenario(t)
  PROVE  CountsOf(t)'
<1>0. /\ Moves(t) /\ CountsOf(t)
      /\ stats \in [app : Nat, other : Nat] /\ pre \in [Trials_ -> [app : Nat, other : Nat]]
      /\ counted \in [Trials_ -> Nat] /\ issued \in [Trials_ -> Nat] /\ broken \subseteq Trials_
  BY ScenarioTyped DEF CountInv, TypeInv, TypeOK
<1>0a. trial'[t].at \notin Ended => trial'[t].beside = trial[t].beside
  BY <1>0 DEF Moves
<1> USE EndedCountsNothing
<1>1. CASE MakeDir(t)
  <2>1. trial'[t].at \in {"stop"} \cup Ended
    BY <1>1, StepMoves DEF MakeDir, Steps, Ended
  <2> QED
    BY <2>1, NoCount
<1>2. CASE StopAll(t)
  <2>1. trial'[t].at \in {"reset"} \cup Ended
    BY <1>2, StepMoves DEF StopAll, Steps
  <2> QED
    BY <2>1, NoCount
<1>3. CASE ResetDataset(t)
  <2>1. trial'[t].at \in {"fixture"} \cup Ended
    BY <1>3, StepMoves DEF ResetDataset, Steps
  <2> QED
    BY <2>1, NoCount
<1>4. CASE PrepareFixture(t)
  <2>1. trial'[t].at \in {"other"} \cup Ended
    BY <1>4, StepMoves DEF PrepareFixture, Steps
  <2> QED
    BY <2>1, NoCount
<1>5. CASE StopOther(t)
  <2>1. trial'[t].at \in {"up"} \cup Ended
    BY <1>5, StepMoves DEF StopOther, Steps
  <2> QED
    BY <2>1, NoCount
<1>6. CASE StartApi(t)
  <2>1. trial'[t].at \in {"pre"} \cup Ended
    BY <1>6, StepMoves DEF StartApi, Steps
  <2> QED
    BY <2>1, NoCount
<1>7. CASE StartLoad(t)
  <2>1. trial'[t].at \in {"load"} \cup Ended
    BY <1>7, StepMoves DEF StartLoad, Steps
  <2>2. pre'[t] = stats /\ issued'[t] = 0 /\ stats' = stats
    BY <1>0, <1>7 DEF StartLoad
  <2>3. Derived(pre'[t], stats') = 0
    BY <1>0, <2>2, DerivedOf
  <2>4. CASE trial'[t].at = "load"
    BY <2>2, <2>3, <2>4 DEF CountsOf
  <2> QED
    BY <2>1, <2>4, NoCount
<1>8. CASE EndLoad(t)
  <2>1. trial'[t].at \in {"post"} \cup Ended
    BY <1>8, EndLoadMoves
  <2> DEFINE n == IF t \in broken THEN 0 ELSE LoadCalls
  <2>2. n \in Nat
    BY BoundsTyped
  <2>3. /\ trial[t].at = "load" /\ stats' = [stats EXCEPT !["app"] = @ + n]
        /\ issued'[t] = issued[t] + n /\ pre' = pre /\ broken' = broken
    BY <1>0, <1>8 DEF EndLoad, Issue
  <2>4. Derived(pre[t], stats) <= issued[t] /\ pre[t] \in [app : Nat, other : Nat]
        /\ issued[t] \in Nat
    BY <1>0, <2>3 DEF CountsOf
  <2>5. Derived(pre'[t], stats') <= issued'[t]
    <3>1. Derived(pre'[t], stats') <= Derived(pre[t], stats) + n /\ Derived(pre[t], stats) \in Nat
      BY <1>0, <2>2, <2>3, <2>4, DerivedOf, DerivedTyped
    <3>2. Derived(pre'[t], stats') \in Nat
      BY <2>3, <2>4, <1>0, <2>2, ScenarioTyped, DerivedTyped DEF TypeInv, TypeOK
    <3> QED
      BY <2>2, <2>3, <2>4, <3>1, <3>2
  <2>6. ~trial[t].beside => stats' = [app |-> pre[t].app + n, other |-> pre[t].other]
    BY <1>0, <2>2, <2>3, <2>4 DEF CountsOf
  <2>7. CASE trial'[t].at = "post"
    BY <1>0a, <2>3, <2>5, <2>6, <2>7 DEF CountsOf, Ended
  <2> QED
    BY <2>1, <2>7, NoCount
<1>9. CASE Post(t)
  <2>1. trial'[t].at \in {"finish"} \cup Ended
    BY <1>9, CheckedMoves DEF Post
  <2>2. /\ trial[t].at = "post" /\ counted'[t] = Derived(pre[t], stats)
        /\ issued' = issued /\ broken' = broken
    BY <1>0, <1>9 DEF Post, Checked
  <2>3. counted'[t] <= issued'[t]
    BY <1>0, <2>2 DEF CountsOf
  <2>4. ~trial[t].beside => counted'[t] = IF t \in broken THEN 0 ELSE LoadCalls
    <3> DEFINE n == IF t \in broken THEN 0 ELSE LoadCalls
    <3>1. n \in Nat /\ pre[t] \in [app : Nat, other : Nat]
      BY <1>0, BoundsTyped
    <3>2. ~trial[t].beside => stats = [app |-> pre[t].app + n, other |-> pre[t].other]
      BY <1>0, <2>2 DEF CountsOf
    <3> HIDE DEF n
    <3>3. ~trial[t].beside => Derived(pre[t], stats) = n
      BY <3>1, <3>2, DerivedOf
    <3> QED
      BY <2>2, <3>3 DEF n
  <2>5. CASE trial'[t].at = "finish"
    BY <1>0a, <2>2, <2>3, <2>4, <2>5 DEF CountsOf, Ended
  <2> QED
    BY <2>1, <2>5, NoCount
<1>10. CASE Finish(t)
  <2>1. trial'[t].at \in Ended
    BY <1>10, StepMoves DEF Finish, Steps, Ended
  <2> QED
    BY <2>1, NoCount
<1>11. CASE Fail(t)
  <2>1. trial'[t].at \in Ended
    BY <1>11, EndingMoves DEF Fail, Live, Trapped, Steps, Ended
  <2> QED
    BY <2>1, NoCount
<1>12. CASE Terminate(t)
  <2>1. trial' = trial /\ trial[t].at # "load" /\ UNCHANGED << stats, issued, pre, counted >>
    BY <1>12 DEF Terminate
  <2>2. (t \in broken') <=> (t \in broken)
    BY <1>12, <2>1, StopsApis DEF Terminate, SetApis
  <2> QED
    BY <1>0, <2>1, <2>2, SameCount
<1>13. CASE KillTrial(t)
  <2>1. trial'[t].at = trial[t].at /\ UNCHANGED << stats, issued, pre, counted, broken >>
    BY <1>13, KillTrialMoves DEF KillTrial, machine
  <2>2. Live(t)
    BY <1>13 DEF KillTrial
  <2> QED
    BY <1>0, <1>0a, <2>1, <2>2, SameCount DEF Live
<1>14. CASE OrphanEnds(t)
  <2>1. trial'[t].at \in Ended
    BY <1>14, EndingMoves DEF OrphanEnds, Ended
  <2> QED
    BY <2>1, NoCount
<1> QED
  BY <1>1, <1>2, <1>3, <1>4, <1>5, <1>6, <1>7, <1>8, <1>9, <1>10, <1>11, <1>12, <1>13, <1>14
     DEF RunScenario

LEMMA ScenarioKeepsCount ==
  ASSUME TypeInv, AloneInv, CountInv, NEW t \in Trials_, RunScenario(t)
  PROVE  CountInv'
<1>1. Moves(t)
  BY ScenarioTyped
<1>2. \A u \in Trials_ \ {t} : ~Live(u) /\ trial'[u] = trial[u]
  BY <1>1 DEF Moves, AloneInv, Holds
<1>3. \A u \in Trials_ \ {t} : trial'[u].at \notin {"load", "post", "finish"}
  BY <1>2 DEF Live, Ended
<1> QED
  BY <1>3, ScenarioCounts, NoCount DEF CountInv

\* Trials begin and matrices move on without a statement.
LEMMA QuietKeepsCount ==
  ASSUME TypeInv, CountInv, UNCHANGED << stats, issued, pre, counted, broken >>,
         \A u \in Trials_ : \/ trial'[u] = trial[u]
                            \/ trial'[u].at \notin {"load", "post", "finish"}
                            \/ trial'[u].at = trial[u].at /\ trial'[u].beside
  PROVE  CountInv'
<1> SUFFICES ASSUME NEW u \in Trials_ PROVE CountsOf(u)'
  BY DEF CountInv
<1>1. CountsOf(u)
  BY DEF CountInv
<1>2. CASE trial'[u] = trial[u]
  BY <1>1, <1>2, SameCount
<1>3. CASE trial'[u].at \notin {"load", "post", "finish"}
  BY <1>3, NoCount
<1>4. CASE trial'[u].at = trial[u].at /\ trial'[u].beside
  BY <1>1, <1>4, SameCount
<1> QED
  BY <1>2, <1>3, <1>4

LEMMA MatrixKeepsCount ==
  ASSUME TypeInv, CountInv, NEW m \in Matrices, RunMatrix(m)
  PROVE  CountInv'
<1>0. m \in Trials_ /\ trial \in [Trials_ -> TrialStates]
  BY DEF Trials_, TypeInv, TypeOK, TrialStates
<1>1. CASE LockMatrix(m) \/ MatrixFails(m) \/ KillMatrix(m)
  BY <1>1, QuietKeepsCount DEF LockMatrix, MatrixFails, KillMatrix, machine
<1>2. CASE TrialDone(m)
  <2>1. trial' = [trial EXCEPT ![m] = IdleTrial] /\ IdleTrial.at = "idle"
        /\ UNCHANGED << stats, issued, pre, counted, broken >>
    BY <1>2 DEF TrialDone, IdleTrial, machine
  <2>2. trial'[m].at = "idle" /\ \A u \in Trials_ \ {m} : trial'[u] = trial[u]
    BY <1>0, <2>1
  <2> QED
    BY <2>1, <2>2, QuietKeepsCount
<1>3. CASE RunTrial(m)
  <2> DEFINE what == Scheduled(matrix[m].done)
  <2>1. matrix[m].done \in Nat
    BY MatrixTyped, BoundsTyped DEF MatrixStates
  <2>2. Begin(m, what) /\ UNCHANGED << stats, issued, pre, counted, broken >>
    BY <1>3 DEF RunTrial, machine
  <2>3. /\ what.runtime \in Runtimes /\ what.phase \in {"warmup", "measured"}
        /\ what.ordinal \in Nat \ {0}
    BY <2>1, ScheduledTyped
  <2> HIDE DEF what
  <2>4. trial'[m].at = "dir" /\ \A u \in Trials_ \ {m} : trial'[u] = trial[u]
    BY <1>0, <2>2, <2>3, BeginTyped
  <2> QED
    BY <2>2, <2>4, QuietKeepsCount
<1> QED
  BY <1>1, <1>2, <1>3 DEF RunMatrix

LEMMA SoloKeepsCount ==
  ASSUME TypeInv, CountInv, NEW t \in Solo, StartSolo(t)
  PROVE  CountInv'
<1> DEFINE what == [runtime |-> "python", phase |-> "measured", ordinal |-> 1]
<1>1. Begin(t, what) /\ t \in Trials_ /\ UNCHANGED << stats, issued, pre, counted, broken >>
  BY DEF StartSolo, machine, Trials_
<1>2. what.runtime \in Runtimes /\ what.phase \in {"warmup", "measured"} /\ what.ordinal \in Nat \ {0}
  BY DEF Runtimes
<1> HIDE DEF what
<1>3. trial'[t].at = "dir" /\ \A u \in Trials_ \ {t} : trial'[u] = trial[u]
  BY <1>1, <1>2, BeginTyped
<1> QED
  BY <1>1, <1>3, QuietKeepsCount

\* The statements of run_correctness are counted for a trial, but issued beside it too.
LEMMA CountedBeside ==
  ASSUME TypeInv, CountInv, AloneInv, AnyDriver, UNCHANGED << trial, pre, counted >>,
         NEW n \in Nat, Issue("other", n) \/ ResetAndIssue(n)
  PROVE  CountInv'
<1> SUFFICES ASSUME NEW t \in Trials_ PROVE CountsOf(t)'
  BY DEF CountInv
<1>1. /\ stats \in [app : Nat, other : Nat] /\ pre[t] \in [app : Nat, other : Nat]
      /\ issued \in [Trials_ -> Nat] /\ CountsOf(t)
  BY DEF TypeInv, TypeOK, CountInv
<1>2. CASE trial[t].at \in {"load", "post"}
  <2>1. trial[t].beside
    BY <1>2 DEF AloneInv, Live, Ended
  <2>2. issued'[t] = issued[t] + n /\ issued[t] \in Nat /\ Derived(pre[t], stats) \in Nat
    BY <1>1, <1>2, DerivedTyped DEF Issue, ResetAndIssue
  <2>3. Derived(pre[t], stats) <= issued[t]
    BY <1>1, <1>2 DEF CountsOf
  <2>4. Derived(pre[t], stats') <= issued'[t]
    <3>1. CASE Issue("other", n)
      <4>1. stats' = [stats EXCEPT !["other"] = @ + n]
        BY <3>1 DEF Issue
      <4>2. Derived(pre[t], stats') <= Derived(pre[t], stats) + n
        BY <1>1, <4>1, DerivedOf
      <4>3. stats' \in [app : Nat, other : Nat]
        BY <1>1, <4>1
      <4>4. Derived(pre[t], stats') \in Nat
        BY <1>1, <4>3, DerivedTyped
      <4> QED
        BY <2>2, <2>3, <4>2, <4>4
    <3>2. CASE ResetAndIssue(n)
      <4>1. stats' = [app |-> n, other |-> 0]
        BY <3>2 DEF ResetAndIssue
      <4>2. Derived(pre[t], stats') <= n /\ stats' \in [app : Nat, other : Nat]
        BY <1>1, <4>1, DerivedOf
      <4>3. Derived(pre[t], stats') \in Nat
        BY <1>1, <4>2, DerivedTyped
      <4> QED
        BY <2>2, <4>2, <4>3
    <3> QED
      BY <3>1, <3>2
  <2> QED
    BY <1>2, <2>1, <2>4 DEF CountsOf
<1>3. CASE trial[t].at = "finish"
  <2>1. trial[t].beside
    BY <1>3 DEF AloneInv, Live, Ended
  <2>2. issued'[t] = issued[t]
    BY <1>3 DEF Issue, ResetAndIssue
  <2> QED
    BY <1>1, <1>3, <2>1, <2>2 DEF CountsOf
<1>4. CASE trial[t].at \notin {"load", "post", "finish"}
  BY <1>4, NoCount
<1> QED
  BY <1>2, <1>3, <1>4

\* It may stop an API of a load it runs beside.
LEMMA ApisBeside ==
  ASSUME TypeInv, CountInv, AloneInv, AnyDriver, UNCHANGED << trial, stats, issued, pre, counted >>
  PROVE  CountInv'
<1> SUFFICES ASSUME NEW t \in Trials_ PROVE CountsOf(t)'
  BY DEF CountInv
<1>1. CountsOf(t)
  BY DEF CountInv
<1>2. trial[t].at \in {"load", "post", "finish"} => trial[t].beside
  BY DEF AloneInv, Live, Ended
<1> QED
  BY <1>1, <1>2 DEF CountsOf

LEMMA DriverKeepsCount ==
  ASSUME TypeInv, CountInv, AloneInv, NEW d \in Drivers, RunCorrectness(d)
  PROVE  CountInv'
<1>1. CASE StartDriver(d)
  <2>1. /\ UNCHANGED << stats, issued, pre, counted, broken >>
        /\ \A t \in Trials_ : trial'[t].at = trial[t].at /\ (Live(t) => trial'[t].beside)
    BY <1>1, StartDriverTyped DEF StartDriver, machine
  <2>2. \A t \in Trials_ : trial[t].at \in {"load", "post", "finish"} => Live(t)
    BY DEF Live, Ended
  <2> QED
    BY <2>1, <2>2, QuietKeepsCount
<1>2. CASE ~StartDriver(d)
  <2>1. AnyDriver /\ UNCHANGED << trial, pre, counted >>
    BY <1>2, CorrectnessGoes DEF Goes, AnyDriver
  <2>2. CASE DriverResets(d)
    BY <2>1, <2>2, CountedBeside DEF DriverResets, Reseed
  <2>3. CASE DriverClears(d) \/ RunCase(d)
    BY <2>1, <2>3, CountedBeside DEF DriverClears, RunCase
  <2>4. CASE DriverStops(d) \/ DriverStarts(d) \/ DriverTrap(d)
    BY <2>1, <2>4, ApisBeside DEF DriverStops, DriverStarts, DriverTrap
  <2>5. CASE DriverFails(d) \/ Gate(d) \/ Verify(d)
    BY <2>1, <2>5, ApisBeside DEF DriverFails, Gate, Verify
  <2>6. CASE Orphaned(d)
    BY <2>1, <2>6, ApisBeside DEF Orphaned
  <2> QED
    BY <1>2, <2>2, <2>3, <2>4, <2>5, <2>6 DEF RunCorrectness, KillDriver, TerminateDriver
<1> QED
  BY <1>1, <1>2

LEMMA CountStays == TypeInv /\ AloneInv /\ CountInv /\ [Next]_vars => CountInv'
<1> SUFFICES ASSUME TypeInv, AloneInv, CountInv, [Next]_vars PROVE CountInv'
  OBVIOUS
<1>1. ASSUME NEW t \in Trials_, RunScenario(t) PROVE CountInv'
  BY <1>1, ScenarioKeepsCount
<1>2. ASSUME NEW t \in Solo, StartSolo(t) PROVE CountInv'
  BY <1>2, SoloKeepsCount
<1>3. ASSUME NEW m \in Matrices, RunMatrix(m) PROVE CountInv'
  BY <1>3, MatrixKeepsCount
<1>4. ASSUME NEW d \in Drivers, RunCorrectness(d) PROVE CountInv'
  BY <1>4, DriverKeepsCount
<1>5. CASE UNCHANGED vars
  BY <1>5, QuietKeepsCount DEF vars, machine
<1> QED
  BY <1>1, <1>2, <1>3, <1>4, <1>5 DEF Next

\* Whoever resets the counters and whoever queries the database, a trial is
\* never charged with more calls than were issued during it, and, left alone,
\* with exactly those of its load.
THEOREM CountedCallsAreTheTrialsHolds == Spec => []CountedCallsAreTheTrials
<1>1. Spec => [](TypeInv /\ PassInv /\ AloneInv /\ CountInv)
  BY TypeInit, TypeStays, PassInit, PassStays, AloneInit, AloneStays, CountInit, CountStays,
     PTL DEF Spec
<1>2. CountInv => CountedCallsAreTheTrials
  BY DEF CountInv, CountsOf, CountedCallsAreTheTrials
<1> QED
  BY <1>1, <1>2, PTL

-----------------------------------------------------------------------------
(* What a matrix has measured when it ends.                                 *)

\* The directory of the trial after k others.
SlotOf(m, k) ==
  << RunIdOf[m], Scheduled(k).runtime, Scheduled(k).phase, Scheduled(k).ordinal >>

\* A matrix that may still come to its end.
Working(m) ==
  \/ matrix[m].at = "ready"
  \/ matrix[m].at = "trial" /\ trial[m].at \in Steps \cup {"passed"}

HasDir == Trapped \cup {"passed"}
HasSummary == {"post", "finish", "passed"}

\* How many directories it has made, and how many of them have a summary.
Made(m) ==
  matrix[m].done + IF matrix[m].at = "trial" /\ trial[m].at \in HasDir THEN 1 ELSE 0
Loaded(m) ==
  matrix[m].done + IF matrix[m].at = "trial" /\ trial[m].at \in HasSummary THEN 1 ELSE 0

\* A measured directory of the matrix's run-id is its own, or one of another
\* run that it fails at before it ends: its first warm-up was there already,
\* or the directory is the one of a trial by hand.
Expected(m, d) ==
  \/ \E k \in 0 .. Made(m) - 1 : d = SlotOf(m, k)
  \/ Made(m) = 0 /\ SlotOf(m, 0) \in dirs
  \/ Made(m) <= Warmups /\ d = SlotOf(m, Warmups)

Kept(m) ==
  /\ Made(m) > 0 => SlotOf(m, 0) \in dirs
  /\ \A k \in Nat : Warmups <= k /\ k < Loaded(m) => SlotOf(m, k) \in summaries
  /\ ~overwrite => \A d \in dirs : d[1] = RunIdOf[m] /\ d[3] = "measured" => Expected(m, d)

MatrixAt(m) ==
  /\ matrix[m].at = "idle" => matrix[m].done = 0
  /\ matrix[m].at \in {"idle", "ready"} => ~Live(m)
  /\ matrix[m].at = "trial" /\ Live(m) => DirOf(m) = SlotOf(m, matrix[m].done)
  /\ Working(m) => Kept(m)

\* A trial by hand has its one directory; one of a matrix is the first warm-up
\* or comes after it, also when the matrix is gone.
SlotHeld(t) ==
  IF t \in Solo THEN DirOf(t) = << RunIdOf[t], "python", "measured", 1 >>
  ELSE DirOf(t) = SlotOf(t, 0) \/ SlotOf(t, 0) \in dirs

DirsInv ==
  /\ IsFiniteSet(dirs)
  /\ \A t \in Trials_ : Live(t) => SlotHeld(t)
  /\ \A d \in dirs : d[3] = "measured" =>
       \/ << d[1], "python", "warmup", 1 >> \in dirs
       \/ d = << d[1], "python", "measured", 1 >>

BalanceInv ==
  /\ DirsInv
  /\ DOMAIN summary = Matrices
  /\ \A m \in Matrices : MatrixAt(m)
  /\ BalancedMatrix

LEMMA FirstSlot ==
  ASSUME NEW m
  PROVE  SlotOf(m, 0) = << RunIdOf[m], "python", "warmup", 1 >>
<1>1. 0 < Warmups /\ 0 < WARMUP_RUNS /\ 0 % WARMUP_RUNS = 0
  BY BoundsTyped
<1> QED
  BY <1>1 DEF SlotOf, Scheduled

\* The trials after the warm-ups come in rounds.
LEMMA MeasuredSlot ==
  ASSUME NEW k \in Nat, Warmups <= k
  PROVE  \E i \in Nat \ {0} :
           /\ Scheduled(k).phase = "measured" /\ Scheduled(k).ordinal = i
           /\ \/ k = Warmups + 2 * i - 2 /\ Scheduled(k).runtime = Order(i)[1]
              \/ k = Warmups + 2 * i - 1 /\ Scheduled(k).runtime = Order(i)[2]
<1>1. PICK j \in Nat : j = k - Warmups
  BY BoundsTyped
<1>2. PICK i \in Nat \ {0} : i = (j \div 2) + 1
  <2>1. j \div 2 \in Nat
    OBVIOUS
  <2> QED
    BY <2>1
<1>3. (j % 2 = 0 /\ j = 2 * i - 2) \/ (j % 2 = 1 /\ j = 2 * i - 1)
  BY <1>2
<1>4. k = Warmups + j /\ ~(k < Warmups)
  BY <1>1, BoundsTyped
<1>5. Scheduled(k) = [runtime |-> Order(i)[(j % 2) + 1], phase |-> "measured", ordinal |-> i]
  BY <1>1, <1>2, <1>4 DEF Scheduled
<1>6. CASE j % 2 = 0 /\ j = 2 * i - 2
  <2>1. (j % 2) + 1 = 1 /\ k = Warmups + 2 * i - 2
    BY <1>4, <1>6, BoundsTyped
  <2> QED
    BY <1>5, <2>1
<1>7. CASE j % 2 = 1 /\ j = 2 * i - 1
  <2>1. (j % 2) + 1 = 2 /\ k = Warmups + 2 * i - 1
    BY <1>4, <1>7, BoundsTyped
  <2> QED
    BY <1>5, <2>1
<1> QED
  BY <1>3, <1>6, <1>7

LEMMA WarmupSlot ==
  ASSUME NEW k \in Nat, k < Warmups
  PROVE  Scheduled(k).phase = "warmup"
  BY DEF Scheduled

LEMMA Orders ==
  ASSUME NEW i \in Nat
  PROVE  /\ Order(i)[1] \in Runtimes /\ Order(i)[2] = Other(Order(i)[1])
         /\ \A r \in Runtimes : r # Order(i)[1] => r = Order(i)[2]
  BY DEF Order, Runtimes, Other

\* A matrix measures each runtime once in each round ...
LEMMA SlotInRound ==
  ASSUME NEW r \in Runtimes, NEW i \in Nat \ {0}
  PROVE  \E k \in Nat : /\ Warmups <= k /\ k < Warmups + 2 * i
                        /\ Scheduled(k).runtime = r /\ Scheduled(k).phase = "measured"
                        /\ Scheduled(k).ordinal = i
<1>1. CASE r = Order(i)[1]
  <2>1. PICK k \in Nat : k = Warmups + 2 * i - 2
    BY BoundsTyped
  <2>2. Warmups <= k /\ k < Warmups + 2 * i
    BY <2>1, BoundsTyped
  <2>3. PICK j \in Nat \ {0} :
          /\ Scheduled(k).phase = "measured" /\ Scheduled(k).ordinal = j
          /\ \/ k = Warmups + 2 * j - 2 /\ Scheduled(k).runtime = Order(j)[1]
             \/ k = Warmups + 2 * j - 1 /\ Scheduled(k).runtime = Order(j)[2]
    BY <2>2, MeasuredSlot
  <2>4. j = i /\ k # Warmups + 2 * j - 1
    BY <2>1, <2>3, BoundsTyped
  <2> QED
    BY <1>1, <2>2, <2>3, <2>4
<1>2. CASE r # Order(i)[1]
  <2>1. PICK k \in Nat : k = Warmups + 2 * i - 1
    BY BoundsTyped
  <2>2. Warmups <= k /\ k < Warmups + 2 * i
    BY <2>1, BoundsTyped
  <2>3. PICK j \in Nat \ {0} :
          /\ Scheduled(k).phase = "measured" /\ Scheduled(k).ordinal = j
          /\ \/ k = Warmups + 2 * j - 2 /\ Scheduled(k).runtime = Order(j)[1]
             \/ k = Warmups + 2 * j - 1 /\ Scheduled(k).runtime = Order(j)[2]
    BY <2>2, MeasuredSlot
  <2>4. j = i /\ k # Warmups + 2 * j - 2
    BY <2>1, <2>3, BoundsTyped
  <2>5. r = Order(i)[2]
    BY <1>2, Orders
  <2> QED
    BY <2>2, <2>3, <2>4, <2>5
<1> QED
  BY <1>1, <1>2

\* ... and never anything twice.
LEMMA SlotsDiffer ==
  ASSUME NEW m, NEW j \in Nat, NEW k \in Nat, Warmups <= j, j < k
  PROVE  SlotOf(m, j) # SlotOf(m, k)
<1>1. SUFFICES ASSUME /\ Scheduled(j).runtime = Scheduled(k).runtime
                      /\ Scheduled(j).ordinal = Scheduled(k).ordinal
               PROVE  FALSE
  BY DEF SlotOf
<1>2. Warmups <= k
  BY BoundsTyped
<1>3. PICK i \in Nat \ {0} :
        /\ Scheduled(k).phase = "measured" /\ Scheduled(k).ordinal = i
        /\ \/ k = Warmups + 2 * i - 2 /\ Scheduled(k).runtime = Order(i)[1]
           \/ k = Warmups + 2 * i - 1 /\ Scheduled(k).runtime = Order(i)[2]
  BY <1>2, MeasuredSlot
<1>4. PICK h \in Nat \ {0} :
        /\ Scheduled(j).phase = "measured" /\ Scheduled(j).ordinal = h
        /\ \/ j = Warmups + 2 * h - 2 /\ Scheduled(j).runtime = Order(h)[1]
           \/ j = Warmups + 2 * h - 1 /\ Scheduled(j).runtime = Order(h)[2]
  BY MeasuredSlot
<1>5. h = i
  BY <1>1, <1>3, <1>4
<1>6. Order(i)[1] # Order(i)[2]
  BY DEF Order
<1>7. \/ k = Warmups + 2 * i - 2 /\ j = Warmups + 2 * i - 2
      \/ k = Warmups + 2 * i - 1 /\ j = Warmups + 2 * i - 1
  BY <1>1, <1>3, <1>4, <1>5, <1>6
<1> QED
  BY <1>7

LEMMA HandSlot ==
  ASSUME NEW m
  PROVE  SlotOf(m, Warmups) = << RunIdOf[m], "python", "measured", 1 >>
<1>1. PICK i \in Nat \ {0} :
        /\ Scheduled(Warmups).phase = "measured" /\ Scheduled(Warmups).ordinal = i
        /\ \/ Warmups = Warmups + 2 * i - 2 /\ Scheduled(Warmups).runtime = Order(i)[1]
           \/ Warmups = Warmups + 2 * i - 1 /\ Scheduled(Warmups).runtime = Order(i)[2]
  BY BoundsTyped, MeasuredSlot
<1>2. i = 1 /\ Scheduled(Warmups).runtime = Order(1)[1]
  BY <1>1, BoundsTyped
<1>3. Order(1)[1] = "python"
  BY DEF Order
<1> QED
  BY <1>1, <1>2, <1>3 DEF SlotOf

-----------------------------------------------------------------------------
(* Files are counted by the rounds they are of.                             *)

LEMMA NoMoreThan ==
  ASSUME NEW S, NEW T, IsFiniteSet(T), NEW f \in [S -> T],
         \A x, y \in S : f[x] = f[y] => x = y
  PROVE  IsFiniteSet(S) /\ Cardinality(S) <= Cardinality(T)
<1>1. f \in Injection(S, T)
  BY DEF Injection, IsInjective
<1> QED
  BY <1>1, FS_Injection

RoundFile(id, r, i) == << id, r, "measured", i >>

RoundFiles(id, r, n) == {RoundFile(id, r, i) : i \in 1 .. n}

LEMMA RoundFilesCounted ==
  ASSUME NEW id, NEW r, NEW n \in Nat
  PROVE  IsFiniteSet(RoundFiles(id, r, n)) /\ Cardinality(RoundFiles(id, r, n)) = n
<1> DEFINE f == [i \in 1 .. n |-> RoundFile(id, r, i)]
<1>1. f \in [1 .. n -> RoundFiles(id, r, n)]
  BY DEF RoundFiles
<1>2. \A i, j \in 1 .. n : f[i] = f[j] => i = j
  BY DEF RoundFile
<1>3. \A x \in RoundFiles(id, r, n) : \E i \in 1 .. n : f[i] = x
  BY DEF RoundFiles
<1> HIDE DEF f
<1>4. f \in Bijection(1 .. n, RoundFiles(id, r, n))
  BY <1>1, <1>2, <1>3 DEF Bijection, Injection, IsInjective, Surjection
<1>5. IsFiniteSet(1 .. n) /\ Cardinality(1 .. n) = n
  BY FS_Interval
<1> QED
  BY <1>4, <1>5, FS_Bijection DEF ExistsBijection

FirstRounds(r, n) == {i \in 1 .. n : Order(i)[1] = r}

\* The blocks A B, B A: each runtime is the first as often as the other, up to
\* one.
LEMMA FirstInTurn ==
  ASSUME NEW n \in Nat, NEW r \in Runtimes
  PROVE  Cardinality(FirstRounds(r, n)) <= Cardinality(FirstRounds(Other(r), n)) + 1
<1> DEFINE S == FirstRounds(r, n) \ {1}
           T == FirstRounds(Other(r), n)
           f == [i \in S |-> i - 1]
<1>1. IsFiniteSet(FirstRounds(r, n)) /\ IsFiniteSet(T)
  <2>1. IsFiniteSet(1 .. n)
    BY FS_Interval
  <2> QED
    BY <2>1, FS_Subset DEF FirstRounds
<1>2. \A i \in S : i \in 2 .. n /\ Order(i)[1] = r
  BY DEF FirstRounds
<1>3. \A i \in S : i - 1 \in T
  <2> SUFFICES ASSUME NEW i \in S PROVE i - 1 \in T
    OBVIOUS
  <2>1. i \in 2 .. n /\ i - 1 \in 1 .. n /\ Order(i)[1] = r
    BY <1>2
  <2>2. (i % 2 = 0 /\ (i - 1) % 2 = 1) \/ (i % 2 = 1 /\ (i - 1) % 2 = 0)
    BY <2>1
  <2>3. Order(i - 1)[1] = Other(r)
    BY <2>1, <2>2 DEF Order, Other
  <2> QED
    BY <2>1, <2>3 DEF FirstRounds
<1>4. f \in [S -> T] /\ \A i, j \in S : f[i] = f[j] => i = j
  BY <1>2, <1>3
<1>5. Cardinality(S) <= Cardinality(T) /\ IsFiniteSet(S)
  <2> HIDE DEF f, S, T
  <2> QED
    BY <1>1, <1>4, NoMoreThan
<1>6. Cardinality(S) >= Cardinality(FirstRounds(r, n)) - 1
  <2>1. PICK F : F = FirstRounds(r, n)
    OBVIOUS
  <2>2. IsFiniteSet(F) /\ Cardinality(F) \in Nat
    BY <1>1, <2>1, FS_CardinalityType
  <2>3. Cardinality(F \ {1}) = IF 1 \in F THEN Cardinality(F) - 1 ELSE Cardinality(F)
    BY <2>2, FS_RemoveElement
  <2>4. Cardinality(F \ {1}) >= Cardinality(F) - 1
    BY <2>2, <2>3
  <2> QED
    BY <2>1, <2>4
<1>7. /\ Cardinality(S) \in Nat /\ Cardinality(T) \in Nat
      /\ Cardinality(FirstRounds(r, n)) \in Nat
  BY <1>1, <1>5, FS_CardinalityType
<1> HIDE DEF S
<1> QED
  BY <1>5, <1>6, <1>7

\* A matrix that has no more to run after n trials has measured the rounds, and
\* only those, in whole.
LEMMA FilesOfTheRounds ==
  ASSUME TypeInv, DirsInv, NEW m \in Matrices, NEW n \in Nat, Kept(m), Made(m) = n, Loaded(m) = n,
         Warmups < n, NEW c \in Nat, n = Warmups + 2 * c, NEW r \in Runtimes
  PROVE  /\ Cardinality(MeasuredFiles(RunIdOf[m], r)) >= c
         /\ ~overwrite => Cardinality(MeasuredFiles(RunIdOf[m], r)) = c
<1> DEFINE own == RoundFiles(RunIdOf[m], r, c)
           all == MeasuredFiles(RunIdOf[m], r)
<1>1. own \subseteq all
  <2> SUFFICES ASSUME NEW i \in 1 .. c PROVE RoundFile(RunIdOf[m], r, i) \in all
    BY DEF RoundFiles
  <2>1. PICK k \in Nat : /\ Warmups <= k /\ k < Warmups + 2 * i
                         /\ Scheduled(k).runtime = r /\ Scheduled(k).phase = "measured"
                         /\ Scheduled(k).ordinal = i
    BY SlotInRound
  <2>2. k < n
    BY <2>1, BoundsTyped
  <2>3. SlotOf(m, k) \in summaries
    BY <2>1, <2>2 DEF Kept
  <2>4. SlotOf(m, k) = RoundFile(RunIdOf[m], r, i)
    BY <2>1 DEF SlotOf, RoundFile
  <2> QED
    BY <2>3, <2>4 DEF MeasuredFiles, RoundFile
<1>2. IsFiniteSet(all)
  <2>1. all \subseteq dirs
    BY DEF MeasuredFiles, TypeInv, TypeOK
  <2> QED
    BY <2>1, FS_Subset DEF DirsInv
<1>3. ASSUME ~overwrite PROVE all \subseteq own
  <2> SUFFICES ASSUME NEW d \in all PROVE d \in own
    OBVIOUS
  <2>1. d \in dirs /\ d[1] = RunIdOf[m] /\ d[2] = r /\ d[3] = "measured"
    BY DEF MeasuredFiles, TypeInv, TypeOK
  <2>2. Expected(m, d)
    BY <1>3, <2>1 DEF Kept
  <2>3. PICK k \in 0 .. n - 1 : d = SlotOf(m, k)
    BY <2>2, BoundsTyped DEF Expected
  <2>4. k \in Nat /\ k < n /\ Scheduled(k).phase = "measured" /\ Scheduled(k).runtime = r
    BY <2>1, <2>3 DEF SlotOf
  <2>5. Warmups <= k
    BY <2>4, WarmupSlot, BoundsTyped
  <2>6. PICK i \in Nat \ {0} :
          /\ Scheduled(k).ordinal = i
          /\ \/ k = Warmups + 2 * i - 2
             \/ k = Warmups + 2 * i - 1
    BY <2>4, <2>5, MeasuredSlot
  <2>7. i \in 1 .. c
    BY <2>4, <2>6, BoundsTyped
  <2>8. d = RoundFile(RunIdOf[m], r, i)
    BY <2>3, <2>4, <2>6 DEF SlotOf, RoundFile
  <2> QED
    BY <2>7, <2>8 DEF RoundFiles
<1>4. Cardinality(own) = c
  BY RoundFilesCounted
<1>5. Cardinality(all) >= c
  <2> HIDE DEF own, all
  <2>1. Cardinality(own) <= Cardinality(all)
    BY <1>1, <1>2, FS_Subset
  <2>2. Cardinality(all) \in Nat
    BY <1>2, FS_CardinalityType
  <2> QED
    BY <1>4, <2>1, <2>2
<1>6. ~overwrite => all = own
  BY <1>1, <1>3
<1> QED
  BY <1>4, <1>5, <1>6

-----------------------------------------------------------------------------
(* The invariant, step by step.                                             *)

LEMMA BalanceInit == Init => BalanceInv
<1> SUFFICES ASSUME Init PROVE BalanceInv
  OBVIOUS
<1>1. \A t \in Trials_ : ~Live(t)
  BY DEF Init, IdleTrial, Live, Ended
<1>2. \A m \in Matrices : m \in Trials_ /\ matrix[m].at = "idle" /\ matrix[m].done = 0
  BY DEF Init, Trials_
<1>3. DirsInv
  <2>1. IsFiniteSet(dirs)
    BY FS_EmptySet, LeftoverAssumption DEF Init
  <2>2. \A d \in dirs : d[3] = "measured" => << d[1], "python", "warmup", 1 >> \in dirs
    BY LeftoverAssumption DEF Init
  <2> QED
    BY <1>1, <2>1, <2>2 DEF DirsInv
<1>4. \A m \in Matrices : MatrixAt(m)
  BY <1>1, <1>2 DEF MatrixAt, Working
<1>5. BalancedMatrix
  BY <1>2 DEF BalancedMatrix
<1> QED
  BY <1>3, <1>4, <1>5 DEF BalanceInv, Init

\* A step that touches no directory, no matrix and no trial's place.
LEMMA ElsewhereKeepsBalance ==
  ASSUME BalanceInv, UNCHANGED << matrix, dirs, summaries, summary, overwrite >>,
         \A t \in Trials_ : trial'[t].at = trial[t].at /\ DirOf(t)' = DirOf(t)
  PROVE  BalanceInv'
<1>1. \A t \in Trials_ : Live(t)' <=> Live(t)
  BY DEF Live
<1>2. DirsInv'
  BY <1>1 DEF BalanceInv, DirsInv, SlotHeld, SlotOf
<1>3. ASSUME NEW m \in Matrices PROVE MatrixAt(m)'
  <2>1. MatrixAt(m) /\ trial'[m].at = trial[m].at /\ DirOf(m)' = DirOf(m) /\ (Live(m)' <=> Live(m))
    BY <1>1 DEF BalanceInv, Trials_
  <2>2. Made(m)' = Made(m) /\ Loaded(m)' = Loaded(m) /\ (Working(m)' <=> Working(m))
    BY <2>1 DEF Made, Loaded, Working
  <2>3. Kept(m) => Kept(m)'
    BY <2>2 DEF Kept, Expected, SlotOf
  <2> QED
    BY <2>1, <2>2, <2>3 DEF MatrixAt, SlotOf
<1>4. BalancedMatrix'
  BY DEF BalanceInv, BalancedMatrix
<1> QED
  BY <1>2, <1>3, <1>4 DEF BalanceInv

\* Where a command leaves a trial: at the next, or at its end.
LEMMA StepArrives ==
  ASSUME TypeInv, NEW t \in Trials_, NEW from \in Steps, NEW to \in Steps, Step(t, from, to)
  PROVE  trial[t].at = from /\ trial'[t].at \in {to, "gone", "idle"}
<1>1. trial \in [Trials_ -> TrialStates]
  BY DEF TypeInv, TypeOK, TrialStates
<1>2. trial[t] \in TrialStates
  BY <1>1
<1>3. Over(t, "gone").at \in {"gone", "idle"}
  BY DEF Over, IdleTrial
<1>4. to \notin Ended
  BY DEF Steps, Ended
<1>5. trial' = [trial EXCEPT ![t] = IF trial[t].orphan THEN Over(t, "gone")
                                    ELSE [trial[t] EXCEPT !.at = to]]
  BY <1>1, <1>4 DEF Step
<1>6. trial'[t] = IF trial[t].orphan THEN Over(t, "gone") ELSE [trial[t] EXCEPT !.at = to]
  BY <1>1, <1>5
<1>7. [trial[t] EXCEPT !.at = to].at = to
  BY <1>2 DEF TrialStates
<1> QED
  BY <1>3, <1>6, <1>7 DEF Step

\* How a step of a trial moves on what a matrix counts.
Advances(t) ==
  /\ overwrite' = overwrite /\ summary' = summary
  /\ dirs' = dirs /\ summaries' = summaries
  /\ \/ trial'[t].at \in Ended \ {"passed"}
     \/ /\ trial'[t].at \in HasDir <=> trial[t].at \in HasDir
        /\ trial'[t].at \in HasSummary <=> trial[t].at \in HasSummary

LEMMA ScenarioAdvances ==
  ASSUME TypeInv, NEW t \in Trials_, RunScenario(t)
  PROVE  MakeDir(t) \/ EndLoad(t) \/ Advances(t)
<1> USE DEF HasDir, HasSummary, Trapped, Steps, Ended
<1>1. ASSUME NEW how, trial' = [trial EXCEPT ![t] = Over(t, how)]
      PROVE  trial'[t].at \in {how, "idle"}
  <2>1. trial \in [Trials_ -> TrialStates]
    BY DEF TypeInv, TypeOK, TrialStates
  <2> QED
    BY <1>1, <2>1 DEF Over, IdleTrial
<1>2. CASE StopAll(t)
  BY StepArrives, <1>2 DEF StopAll, Step, outcome, Advances
<1>3. CASE ResetDataset(t)
  BY StepArrives, <1>3 DEF ResetDataset, Step, outcome, Advances
<1>4. CASE PrepareFixture(t)
  BY StepArrives, <1>4 DEF PrepareFixture, Step, outcome, Advances
<1>5. CASE StopOther(t)
  BY StepArrives, <1>5 DEF StopOther, Step, outcome, Advances
<1>6. CASE StartApi(t)
  BY StepArrives, <1>6 DEF StartApi, Step, outcome, Advances
<1>7. CASE StartLoad(t)
  BY StepArrives, <1>7 DEF StartLoad, Step, outcome, Advances
<1>8. CASE Post(t)
  <2>1. trial \in [Trials_ -> TrialStates] /\ trial[t] \in TrialStates
    BY DEF TypeInv, TypeOK, TrialStates
  <2>2. trial'[t].at \in {"gone", "idle", "finish"} /\ trial[t].at = "post"
    BY <1>8, <2>1 DEF Post, Checked, Over, IdleTrial, TrialStates
  <2> QED
    BY <1>8, <2>2 DEF Post, Checked, outcome, Advances
<1>9. CASE Finish(t)
  <2>1. \E how \in {"gone", "passed", "failed"} : trial' = [trial EXCEPT ![t] = Over(t, how)]
    BY <1>9 DEF Finish, Step
  <2>2. trial'[t].at \in {"gone", "passed", "failed", "idle"} /\ trial[t].at = "finish"
    BY <1>1, <1>9, <2>1 DEF Finish, Step
  <2> QED
    BY <1>9, <2>2 DEF Finish, Step, outcome, Advances
<1>10. CASE Fail(t)
  BY <1>1, <1>10 DEF Fail, outcome, Advances
<1>11. CASE Terminate(t)
  BY <1>11 DEF Terminate, outcome, Advances
<1>12. CASE KillTrial(t)
  BY <1>12, KillTrialMoves DEF KillTrial, outcome, Advances
<1>13. CASE OrphanEnds(t)
  <2>1. trial'[t].at \in {"gone", "idle"}
    BY <1>1, <1>13 DEF OrphanEnds
  <2> QED
    BY <1>13, <2>1 DEF OrphanEnds, outcome, Advances
<1> QED
  BY <1>2, <1>3, <1>4, <1>5, <1>6, <1>7, <1>8, <1>9, <1>10, <1>11, <1>12, <1>13
     DEF RunScenario

\* While a trial takes a step, only its own matrix is at work.
LEMMA OnlyOwnMatrixWorks ==
  ASSUME TypeInv, AloneInv, BalanceInv, NEW t \in Trials_, RunScenario(t),
         overwrite' = overwrite, summary' = summary, DirsInv',
         t \in Matrices /\ Working(t)' => Working(t) /\ Kept(t)'
  PROVE  BalanceInv'
<1>1. Moves(t) /\ Live(t)
  BY ScenarioTyped DEF Moves
<1>2. matrix' = matrix /\ \A u \in Trials_ \ {t} : trial'[u] = trial[u]
  BY <1>1 DEF Moves
<1>3. ASSUME NEW m \in Matrices PROVE MatrixAt(m)'
  <2>1. MatrixAt(m) /\ m \in Trials_
    BY DEF BalanceInv, Trials_
  <2>2. CASE m = t
    <3>1. Live(m)' => DirOf(m)' = DirOf(m)
      BY <1>1, <2>2 DEF Moves, Live
    <3>2. matrix[m].at \notin {"idle", "ready"} /\ DirOf(m) = DirOf(m)
      BY <1>1, <2>1, <2>2 DEF MatrixAt
    <3>3. Working(m)' => Kept(m)'
      BY <2>2
    <3> QED
      BY <1>1, <1>2, <2>1, <2>2, <3>1, <3>2, <3>3 DEF MatrixAt, SlotOf
  <2>3. CASE m # t
    <3>1. trial'[m] = trial[m] /\ DirOf(m)' = DirOf(m) /\ (Live(m)' <=> Live(m))
      BY <1>2, <2>1, <2>3 DEF DirOf, Live
    <3>2. matrix[m].at \notin {"ready", "trial"}
      BY <1>1, <2>1, <2>3 DEF AloneInv, Holds
    <3>3. ~Working(m)'
      BY <1>2, <3>2 DEF Working
    <3> QED
      BY <1>2, <2>1, <3>1, <3>3 DEF MatrixAt, SlotOf
  <2> QED
    BY <2>2, <2>3
<1>4. BalancedMatrix'
  BY <1>2 DEF BalanceInv, BalancedMatrix
<1> QED
  BY <1>3, <1>4, <1>2 DEF BalanceInv

LEMMA HeldSlots ==
  ASSUME DirsInv, NEW t \in Trials_, Moves(t), dirs \subseteq dirs'
  PROVE  \A u \in Trials_ : Live(u)' => SlotHeld(u)'
<1> SUFFICES ASSUME NEW u \in Trials_, Live(u)' PROVE SlotHeld(u)'
  OBVIOUS
<1>1. DirOf(u)' = DirOf(u) /\ Live(u)
  BY DEF Moves, Live, DirOf
<1>2. SlotHeld(u)
  BY <1>1 DEF DirsInv
<1> QED
  BY <1>1, <1>2 DEF SlotHeld, SlotOf

LEMMA MakeDirKeepsBalance ==
  ASSUME TypeInv, AloneInv, BalanceInv, NEW t \in Trials_, RunScenario(t), MakeDir(t)
  PROVE  BalanceInv'
<1>1. Moves(t) /\ dirs \subseteq dirs' /\ matrix' = matrix /\ DirsInv /\ SlotHeld(t) /\ Live(t)
  BY MakeDirMoves DEF Moves, BalanceInv, DirsInv
<1>2. overwrite' = overwrite /\ summary' = summary
  BY DEF MakeDir, Step
<1>3. t \in Matrices => MatrixAt(t) /\ matrix[t].at \notin {"idle", "ready"}
  BY <1>1 DEF BalanceInv, MatrixAt
<1>4. CASE DirOf(t) \in dirs /\ ~overwrite
  <2>1. Step(t, "dir", "failed") /\ UNCHANGED << dirs, summaries >>
    BY <1>4 DEF MakeDir
  <2>2. trial'[t].at \in {"gone", "failed", "idle"}
    <3>1. trial \in [Trials_ -> TrialStates]
      BY DEF TypeInv, TypeOK, TrialStates
    <3>2. \E how \in {"gone", "failed"} : trial' = [trial EXCEPT ![t] = Over(t, how)]
      BY <2>1 DEF Step, Ended
    <3> QED
      BY <3>1, <3>2 DEF Over, IdleTrial
  <2>3. ~(t \in Matrices /\ Working(t)')
    BY <1>1, <1>3, <2>2 DEF Working, Steps
  <2>4. DirsInv'
    BY <1>1, <2>1, HeldSlots DEF DirsInv
  <2> QED
    BY <1>2, <2>3, <2>4, OnlyOwnMatrixWorks
<1>5. CASE ~(DirOf(t) \in dirs /\ ~overwrite)
  <2>1. /\ Step(t, "dir", "stop")
        /\ dirs' = dirs \cup {DirOf(t)} /\ summaries' = summaries \ {DirOf(t)}
    BY <1>5 DEF MakeDir
  <2>2. trial[t].at = "dir" /\ trial'[t].at \in {"stop", "gone", "idle"}
    BY <2>1, StepArrives DEF Steps
  <2>3. DirsInv'
    <3>1. IsFiniteSet(dirs')
      BY <1>1, <2>1, FS_AddElement DEF DirsInv
    <3>2. DirOf(t)[3] = "measured" =>
            \/ << DirOf(t)[1], "python", "warmup", 1 >> \in dirs
            \/ DirOf(t) = << DirOf(t)[1], "python", "measured", 1 >>
      <4>1. CASE t \in Solo
        BY <1>1, <4>1 DEF SlotHeld
      <4>2. CASE t \notin Solo
        <5>1. SlotOf(t, 0) = << RunIdOf[t], "python", "warmup", 1 >>
          BY FirstSlot
        <5> QED
          BY <1>1, <4>2, <5>1 DEF SlotHeld, DirOf
      <4> QED
        BY <4>1, <4>2
    <3>3. \A d \in dirs' : d[3] = "measured" =>
            \/ << d[1], "python", "warmup", 1 >> \in dirs'
            \/ d = << d[1], "python", "measured", 1 >>
      BY <1>1, <2>1, <3>2 DEF DirsInv
    <3> QED
      BY <1>1, <3>1, <3>3, HeldSlots DEF DirsInv
  <2>4. ASSUME t \in Matrices, Working(t)' PROVE Working(t) /\ Kept(t)'
    <3>1. matrix[t].at = "trial" /\ trial'[t].at = "stop"
      BY <1>1, <1>3, <2>2, <2>4 DEF Working, Steps
    <3>2. Working(t)
      BY <2>2, <3>1 DEF Working, Steps
    <3>3. PICK n \in Nat : n = matrix[t].done
      BY <2>4, MatrixTyped, BoundsTyped DEF MatrixStates
    <3>4. /\ Made(t) = n /\ Loaded(t) = n /\ Made(t)' = n + 1 /\ Loaded(t)' = n
          /\ DirOf(t) = SlotOf(t, n) /\ Kept(t)
      <4>1. "dir" \notin HasDir \cup HasSummary /\ "stop" \in HasDir \ HasSummary
        BY DEF HasDir, HasSummary, Trapped, Steps
      <4> QED
        BY <1>1, <1>3, <2>2, <2>4, <3>1, <3>2, <3>3, <4>1 DEF Made, Loaded, MatrixAt
    <3>5. SlotOf(t, 0) \in dirs'
      BY <1>1, <2>1, <3>4 DEF Kept
    <3>6. \A k \in Nat : Warmups <= k /\ k < n => SlotOf(t, k) \in summaries'
      BY <2>1, <3>4, SlotsDiffer DEF Kept
    <3>7. ASSUME ~overwrite, NEW d \in dirs', d[1] = RunIdOf[t], d[3] = "measured"
          PROVE  Expected(t, d)'
      <4>1. SlotOf(t, n) \notin dirs
        BY <1>5, <3>4, <3>7
      <4>2. CASE d = SlotOf(t, n)
        <5>1. n \in 0 .. (n + 1) - 1
          OBVIOUS
        <5> QED
          BY <3>4, <4>2, <5>1 DEF Expected, SlotOf
      <4>3. CASE d \in dirs
        <5>1. Expected(t, d)
          BY <3>4, <3>7, <4>3 DEF Kept
        <5>2. CASE \E k \in 0 .. Made(t) - 1 : d = SlotOf(t, k)
          <6>1. \E k \in 0 .. (n + 1) - 1 : d = SlotOf(t, k)
            BY <3>4, <5>2
          <6> QED
            BY <3>4, <6>1 DEF Expected, SlotOf
        <5>3. CASE Made(t) <= Warmups /\ d = SlotOf(t, Warmups)
          <6>1. n # Warmups
            BY <4>1, <4>3, <5>3
          <6>2. n + 1 <= Warmups
            BY <3>4, <5>3, <6>1, BoundsTyped
          <6> QED
            BY <3>4, <5>3, <6>2 DEF Expected, SlotOf
        <5> QED
          BY <3>4, <4>1, <5>1, <5>2, <5>3 DEF Expected
      <4> QED
        BY <2>1, <3>4, <3>7, <4>2, <4>3
    <3> QED
      BY <1>2, <3>2, <3>4, <3>5, <3>6, <3>7 DEF Kept, SlotOf
  <2> QED
    BY <1>2, <2>3, <2>4, OnlyOwnMatrixWorks
<1> QED
  BY <1>4, <1>5

LEMMA EndLoadKeepsBalance ==
  ASSUME TypeInv, AloneInv, BalanceInv, NEW t \in Trials_, RunScenario(t), EndLoad(t)
  PROVE  BalanceInv'
<1>1. Moves(t) /\ dirs' = dirs /\ matrix' = matrix /\ DirsInv /\ Live(t)
  BY EndLoadMoves DEF EndLoad, Moves, BalanceInv
<1>2. overwrite' = overwrite /\ summary' = summary /\ summaries' = summaries \cup {DirOf(t)}
  BY DEF EndLoad
<1>3. trial[t].at = "load" /\ trial'[t].at \in {"post"} \cup Ended
  BY EndLoadMoves DEF EndLoad
<1>4. trial'[t].at # "passed"
  <2>1. trial \in [Trials_ -> TrialStates] /\ trial[t] \in TrialStates
    BY DEF TypeInv, TypeOK, TrialStates
  <2> QED
    BY <2>1 DEF EndLoad, Over, IdleTrial, TrialStates
<1>5. DirsInv'
  BY <1>1, HeldSlots DEF DirsInv
<1>6. ASSUME t \in Matrices, Working(t)' PROVE Working(t) /\ Kept(t)'
  <2>1. MatrixAt(t) /\ matrix[t].at \notin {"idle", "ready"}
    BY <1>1, <1>6 DEF BalanceInv, MatrixAt
  <2>2. matrix[t].at = "trial" /\ trial'[t].at = "post"
    BY <1>1, <1>3, <1>4, <1>6, <2>1 DEF Working, Steps, Ended
  <2>3. Working(t)
    BY <1>3, <2>2 DEF Working, Steps
  <2>4. PICK n \in Nat : n = matrix[t].done
    BY <1>6, MatrixTyped, BoundsTyped DEF MatrixStates
  <2>5. /\ Made(t)' = Made(t) /\ Loaded(t) = n /\ Loaded(t)' = n + 1
        /\ DirOf(t) = SlotOf(t, n) /\ Kept(t)
    <3>1. {"load", "post"} \subseteq HasDir /\ "load" \notin HasSummary /\ "post" \in HasSummary
      BY DEF HasDir, HasSummary, Trapped, Steps
    <3> QED
      BY <1>1, <1>3, <2>1, <2>2, <2>3, <2>4, <3>1 DEF Made, Loaded, MatrixAt
  <2>6. \A k \in Nat : Warmups <= k /\ k < n + 1 => SlotOf(t, k) \in summaries'
    <3> SUFFICES ASSUME NEW k \in Nat, Warmups <= k, k < n + 1 PROVE SlotOf(t, k) \in summaries'
      OBVIOUS
    <3>1. k = n \/ k < n
      OBVIOUS
    <3> QED
      BY <1>2, <2>5, <3>1 DEF Kept
  <2> QED
    BY <1>1, <1>2, <2>3, <2>5, <2>6 DEF Kept, Expected, SlotOf
<1> QED
  BY <1>2, <1>5, <1>6, OnlyOwnMatrixWorks

LEMMA ScenarioKeepsBalance ==
  ASSUME TypeInv, AloneInv, BalanceInv, NEW t \in Trials_, RunScenario(t)
  PROVE  BalanceInv'
<1>1. CASE Advances(t)
  <2>1. Moves(t) /\ dirs' = dirs /\ matrix' = matrix /\ DirsInv /\ Live(t)
    BY <1>1, ScenarioTyped DEF Advances, Moves, BalanceInv
  <2>2. DirsInv'
    BY <2>1, HeldSlots DEF DirsInv
  <2>3. ASSUME t \in Matrices, Working(t)' PROVE Working(t) /\ Kept(t)'
    <3>1. MatrixAt(t) /\ matrix[t].at \notin {"idle", "ready"}
      BY <2>1, <2>3 DEF BalanceInv, MatrixAt
    <3>2. matrix[t].at = "trial" /\ trial'[t].at \in Steps \cup {"passed"}
      BY <2>1, <2>3, <3>1 DEF Working
    <3>3. trial[t].at \in Steps
      BY <2>1 DEF Live, TypeInv, TypeOK
    <3>4. Working(t) /\ Kept(t)
      BY <3>1, <3>2, <3>3 DEF Working, MatrixAt
    <3>5. Made(t)' = Made(t) /\ Loaded(t)' = Loaded(t)
      BY <1>1, <2>1, <3>2 DEF Advances, Made, Loaded, Ended, Steps
    <3> QED
      BY <1>1, <2>1, <3>4, <3>5 DEF Advances, Kept, Expected, SlotOf
  <2> QED
    BY <1>1, <2>2, <2>3, OnlyOwnMatrixWorks DEF Advances
<1> QED
  BY <1>1, ScenarioAdvances, MakeDirKeepsBalance, EndLoadKeepsBalance

\* A trial that begins has no directory yet.
LEMMA BeginKeepsDirs ==
  ASSUME TypeInv, BalanceInv, NEW t \in Trials_, NEW what, NEW d, Begin(t, what), dirs' = dirs,
         d = << RunIdOf[t], what.runtime, what.phase, what.ordinal >>,
         IF t \in Solo THEN d = << RunIdOf[t], "python", "measured", 1 >>
         ELSE d = SlotOf(t, 0) \/ SlotOf(t, 0) \in dirs
  PROVE  /\ DirsInv'
         /\ trial'[t].at = "dir" /\ Live(t)'
         /\ DirOf(t)' = d
         /\ \A u \in Trials_ \ {t} : trial'[u] = trial[u]
<1>1. trial \in [Trials_ -> TrialStates]
  BY DEF TypeInv, TypeOK, TrialStates
<1>2. trial' = [trial EXCEPT ![t] =
                  [at |-> "dir", runtime |-> what.runtime, phase |-> what.phase,
                   ordinal |-> what.ordinal, orphan |-> FALSE, ok |-> TRUE, beside |-> AnyDriver]]
  BY DEF Begin
<1>3. /\ trial'[t] = [at |-> "dir", runtime |-> what.runtime, phase |-> what.phase,
                      ordinal |-> what.ordinal, orphan |-> FALSE, ok |-> TRUE,
                      beside |-> AnyDriver]
      /\ \A u \in Trials_ \ {t} : trial'[u] = trial[u]
  BY <1>1, <1>2
<1>4. trial'[t].at = "dir" /\ Live(t)'
  BY <1>3 DEF Live, Ended
<1>5. DirOf(t)' = d
  BY <1>3 DEF DirOf
<1>6. SlotHeld(t)'
  BY <1>5 DEF SlotHeld, SlotOf
<1>7. \A u \in Trials_ \ {t} : Live(u)' => SlotHeld(u)'
  BY <1>3 DEF Live, SlotHeld, SlotOf, DirOf, BalanceInv, DirsInv
<1>8. DirsInv'
  BY <1>6, <1>7 DEF BalanceInv, DirsInv
<1> QED
  BY <1>3, <1>4, <1>5, <1>8

LEMMA OtherMatrices ==
  ASSUME BalanceInv, UNCHANGED << dirs, summaries, overwrite >>, NEW m \in Matrices,
         trial'[m] = trial[m], matrix'[m] = matrix[m]
  PROVE  MatrixAt(m)'
<1>1. MatrixAt(m)
  BY DEF BalanceInv
<1>2. /\ DirOf(m)' = DirOf(m) /\ (Live(m)' <=> Live(m)) /\ (Working(m)' <=> Working(m))
      /\ Made(m)' = Made(m) /\ Loaded(m)' = Loaded(m)
  BY DEF DirOf, Live, Working, Made, Loaded
<1>3. Kept(m) => Kept(m)'
  BY <1>2 DEF Kept, Expected, SlotOf
<1> QED
  BY <1>1, <1>2, <1>3 DEF MatrixAt, SlotOf

LEMMA SoloKeepsBalance ==
  ASSUME TypeInv, BalanceInv, NEW t \in Solo, StartSolo(t)
  PROVE  BalanceInv'
<1> DEFINE what == [runtime |-> "python", phase |-> "measured", ordinal |-> 1]
<1>1. /\ Begin(t, what) /\ t \in Trials_ /\ matrix' = matrix
      /\ UNCHANGED << dirs, summaries, summary, overwrite >>
  BY DEF StartSolo, Trials_, outcome
<1>2. PICK d : /\ d = << RunIdOf[t], what.runtime, what.phase, what.ordinal >>
               /\ d = << RunIdOf[t], "python", "measured", 1 >>
  OBVIOUS
<1> HIDE DEF what
<1>3. DirsInv' /\ \A u \in Trials_ \ {t} : trial'[u] = trial[u]
  BY <1>1, <1>2, BeginKeepsDirs
<1>4. \A m \in Matrices : trial'[m] = trial[m]
  BY <1>3, TrialsAssumption DEF Trials_
<1>5. \A m \in Matrices : MatrixAt(m)'
  BY <1>1, <1>4, OtherMatrices
<1>6. BalancedMatrix'
  BY <1>1 DEF BalanceInv, BalancedMatrix
<1> QED
  BY <1>1, <1>3, <1>5, <1>6 DEF BalanceInv

\* A matrix that takes the lock meets directories that it would fail at.
LEMMA LockKeepsBalance ==
  ASSUME TypeInv, BalanceInv, NEW m \in Matrices, LockMatrix(m)
  PROVE  BalanceInv'
<1>1. /\ m \in Trials_ /\ matrix \in [Matrices -> MatrixStates] /\ matrix[m].at = "idle"
      /\ matrix' = [matrix EXCEPT ![m] = [matrix[m] EXCEPT !.at = "ready"]]
      /\ UNCHANGED << trial, dirs, summaries, summary, overwrite >>
  BY MatrixTyped DEF LockMatrix, Trials_, outcome
<1>2. matrix[m].done = 0 /\ ~Live(m)
  BY <1>1 DEF BalanceInv, MatrixAt
<1>3. matrix'[m].at = "ready" /\ matrix'[m].done = 0
  BY <1>1, <1>2 DEF MatrixStates
<1>4. \A x \in Matrices \ {m} : matrix'[x] = matrix[x]
  BY <1>1
<1>5. DirsInv'
  BY <1>1 DEF BalanceInv, DirsInv, Live, SlotHeld, SlotOf, DirOf
<1>6. Made(m)' = 0 /\ Loaded(m)' = 0
  BY <1>3 DEF Made, Loaded
<1>7. ASSUME NEW d \in dirs, d[1] = RunIdOf[m], d[3] = "measured"
      PROVE  Expected(m, d)'
  <2>1. << d[1], "python", "warmup", 1 >> \in dirs \/ d = << d[1], "python", "measured", 1 >>
    BY <1>7 DEF BalanceInv, DirsInv
  <2>2. SlotOf(m, 0) \in dirs \/ d = SlotOf(m, Warmups)
    BY <1>7, <2>1, FirstSlot, HandSlot
  <2>3. 0 <= Warmups
    BY BoundsTyped
  <2> QED
    BY <1>1, <1>6, <2>2, <2>3 DEF Expected, SlotOf
<1>8. Kept(m)'
  BY <1>1, <1>6, <1>7, BoundsTyped DEF Kept
<1>9. MatrixAt(m)'
  BY <1>1, <1>2, <1>3, <1>8 DEF MatrixAt, Live
<1>10. \A x \in Matrices : MatrixAt(x)'
  BY <1>1, <1>4, <1>9, OtherMatrices
<1>11. BalancedMatrix'
  BY <1>1, <1>3, <1>4 DEF BalanceInv, BalancedMatrix
<1> QED
  BY <1>1, <1>5, <1>10, <1>11 DEF BalanceInv

LEMMA StopKeepsBalance ==
  ASSUME TypeInv, BalanceInv, NEW m \in Matrices, MatrixFails(m) \/ KillMatrix(m)
  PROVE  BalanceInv'
<1>1. matrix \in [Matrices -> MatrixStates]
  BY MatrixTyped
<1>2. /\ \E how \in {"failed", "gone"} : matrix' = [matrix EXCEPT ![m] = [at |-> how, done |-> 0]]
      /\ UNCHANGED << trial, dirs, summaries, summary, overwrite >>
  BY DEF MatrixFails, KillMatrix, outcome
<1>3. matrix'[m].at \in {"failed", "gone"} /\ \A x \in Matrices \ {m} : matrix'[x] = matrix[x]
  BY <1>1, <1>2
<1>4. DirsInv'
  BY <1>2 DEF BalanceInv, DirsInv, Live, SlotHeld, SlotOf, DirOf
<1>5. MatrixAt(m)'
  BY <1>3 DEF MatrixAt, Working
<1>6. \A x \in Matrices : MatrixAt(x)'
  BY <1>2, <1>3, <1>5, OtherMatrices
<1>7. BalancedMatrix'
  BY <1>2, <1>3 DEF BalanceInv, BalancedMatrix
<1> QED
  BY <1>2, <1>4, <1>6, <1>7 DEF BalanceInv

LEMMA RunTrialKeepsBalance ==
  ASSUME TypeInv, BalanceInv, NEW m \in Matrices, RunTrial(m)
  PROVE  BalanceInv'
<1>1. m \in Trials_ /\ m \notin Solo /\ matrix \in [Matrices -> MatrixStates]
  BY MatrixTyped, TrialsAssumption DEF Trials_
<1>2. PICK n \in Nat : n = matrix[m].done
  BY <1>1, BoundsTyped DEF MatrixStates
<1> DEFINE what == Scheduled(n)
<1>3. /\ Begin(m, what) /\ matrix[m].at = "ready"
      /\ matrix' = [matrix EXCEPT ![m] = [matrix[m] EXCEPT !.at = "trial"]]
      /\ UNCHANGED << dirs, summaries, summary, overwrite >>
  BY <1>2 DEF RunTrial, outcome
<1>4. Kept(m) /\ Made(m) = n /\ Loaded(m) = n
  BY <1>2, <1>3 DEF BalanceInv, MatrixAt, Working, Made, Loaded
<1>5. PICK d : d = << RunIdOf[m], what.runtime, what.phase, what.ordinal >> /\ d = SlotOf(m, n)
  BY DEF SlotOf
<1>6. SlotOf(m, n) = SlotOf(m, 0) \/ SlotOf(m, 0) \in dirs
  <2>1. n = 0 \/ n > 0
    OBVIOUS
  <2> QED
    BY <1>4, <2>1 DEF Kept
<1> HIDE DEF what
<1>7. /\ DirsInv' /\ trial'[m].at = "dir" /\ Live(m)' /\ DirOf(m)' = SlotOf(m, n)
      /\ \A u \in Trials_ \ {m} : trial'[u] = trial[u]
  BY <1>1, <1>3, <1>5, <1>6, BeginKeepsDirs
<1>8. /\ matrix'[m].at = "trial" /\ matrix'[m].done = n
      /\ \A x \in Matrices \ {m} : matrix'[x] = matrix[x]
  BY <1>1, <1>2, <1>3 DEF MatrixStates
<1>9. Made(m)' = n /\ Loaded(m)' = n
  <2>1. "dir" \notin HasDir \cup HasSummary
    BY DEF HasDir, HasSummary, Trapped
  <2> QED
    BY <1>2, <1>7, <1>8, <2>1 DEF Made, Loaded
<1>10. Kept(m)'
  BY <1>3, <1>4, <1>9 DEF Kept, Expected, SlotOf
<1>11. MatrixAt(m)'
  BY <1>7, <1>8, <1>10 DEF MatrixAt, SlotOf
<1>12. \A x \in Matrices : MatrixAt(x)'
  BY <1>3, <1>7, <1>8, <1>11, OtherMatrices DEF Trials_
<1>13. BalancedMatrix'
  BY <1>3, <1>8 DEF BalanceInv, BalancedMatrix
<1> QED
  BY <1>3, <1>7, <1>12, <1>13 DEF BalanceInv

\* The matrix ends with what BalancedMatrix says, or goes on.
LEMMA TrialDoneKeepsBalance ==
  ASSUME TypeInv, BalanceInv, NEW m \in Matrices, TrialDone(m)
  PROVE  BalanceInv'
<1>1. /\ m \in Trials_ /\ matrix \in [Matrices -> MatrixStates] /\ trial \in [Trials_ -> TrialStates]
      /\ matrix[m].at = "trial" /\ trial[m].at = "passed"
      /\ trial' = [trial EXCEPT ![m] = IdleTrial]
      /\ UNCHANGED << dirs, summaries, overwrite >>
  BY MatrixTyped DEF TrialDone, TrialPassed, Trials_, TypeInv, TypeOK, TrialStates
<1>2. matrix[m].done \in Nat /\ matrix[m].done < MaxTrials
  BY <1>1, BoundsTyped DEF TypeInv, Going, MatrixStates
<1>3. PICK n \in Nat : n = matrix[m].done + 1
  BY <1>2
<1>4. /\ 0 < n /\ n <= MaxTrials
  BY <1>2, <1>3, BoundsTyped
<1>5. /\ trial'[m].at = "idle" /\ ~Live(m)'
      /\ \A u \in Trials_ \ {m} : trial'[u] = trial[u]
  BY <1>1 DEF IdleTrial, Live, Ended
<1>6. Kept(m) /\ Made(m) = n /\ Loaded(m) = n
  <2>1. "passed" \in HasDir /\ "passed" \in HasSummary
    BY DEF HasDir, HasSummary
  <2> QED
    BY <1>1, <1>3, <2>1 DEF BalanceInv, MatrixAt, Working, Made, Loaded
<1>7. DirsInv'
  <2>1. \A u \in Trials_ : Live(u)' => SlotHeld(u)'
    BY <1>1, <1>5 DEF Live, SlotHeld, SlotOf, DirOf, BalanceInv, DirsInv
  <2> QED
    BY <1>1, <2>1 DEF BalanceInv, DirsInv
<1> DEFINE on == /\ matrix' = [matrix EXCEPT ![m] = [at |-> "ready", done |-> n]]
                 /\ summary' = summary
           end(x) == /\ matrix' = [matrix EXCEPT ![m] = [at |-> "passed", done |-> n]]
                     /\ AtVarianceCheck(n)
                     /\ x => ~(Rounds(n) < MAX_MEASURED_RUNS)
                     /\ summary' = [summary EXCEPT ![m] =
                          [status |-> IF x THEN "UNSTABLE" ELSE "STABLE",
                           measured |-> Rounds(n),
                           count |-> [r \in Runtimes |->
                                        Cardinality(MeasuredFiles(RunIdOf[m], r))]]]
<1>8. on \/ \E x \in BOOLEAN : end(x)
  BY <1>3 DEF TrialDone
<1>9. ASSUME on PROVE BalanceInv'
  <2>1. /\ matrix'[m].at = "ready" /\ matrix'[m].done = n
        /\ \A x \in Matrices \ {m} : matrix'[x] = matrix[x]
    BY <1>1, <1>9
  <2>2. Made(m)' = n /\ Loaded(m)' = n
    BY <2>1 DEF Made, Loaded
  <2>3. Kept(m)'
    BY <1>1, <1>6, <2>2 DEF Kept, Expected, SlotOf
  <2>4. MatrixAt(m)'
    BY <1>5, <2>1, <2>3 DEF MatrixAt
  <2>5. \A x \in Matrices : MatrixAt(x)'
    BY <1>1, <1>5, <2>1, <2>4, OtherMatrices DEF Trials_
  <2>6. BalancedMatrix'
    BY <1>1, <1>9, <2>1 DEF BalanceInv, BalancedMatrix
  <2> QED
    BY <1>7, <1>9, <2>5, <2>6 DEF BalanceInv
<1>10. ASSUME NEW x \in BOOLEAN, end(x) PROVE BalanceInv'
  <2>1. /\ matrix'[m].at = "passed"
        /\ \A y \in Matrices \ {m} : matrix'[y] = matrix[y]
    BY <1>1, <1>10
  <2>2. MatrixAt(m)'
    BY <2>1 DEF MatrixAt, Working
  <2>3. \A y \in Matrices : MatrixAt(y)'
    BY <1>1, <1>5, <2>1, <2>2, OtherMatrices DEF Trials_
  <2>4. DOMAIN summary = Matrices
    BY DEF BalanceInv
  <2>5. /\ summary'[m].status = IF x THEN "UNSTABLE" ELSE "STABLE"
        /\ summary'[m].measured = Rounds(n)
        /\ \A r \in Runtimes :
             summary'[m].count[r] = Cardinality(MeasuredFiles(RunIdOf[m], r))
        /\ \A y \in Matrices \ {m} : summary'[y] = summary[y]
        /\ DOMAIN summary' = Matrices
    BY <1>10, <2>4
  <2>6. PICK c \in Nat : c = Rounds(n) /\ n = Warmups + 2 * c /\ MIN_MEASURED_RUNS <= c
    <3>1. n >= Warmups /\ (n - Warmups) % 2 = 0 /\ Rounds(n) >= MIN_MEASURED_RUNS
      BY <1>10 DEF AtVarianceCheck
    <3>2. PICK j \in Nat : j = n - Warmups
      BY <3>1, BoundsTyped
    <3>3. Rounds(n) = j \div 2 /\ j = 2 * (j \div 2) /\ j \div 2 \in Nat
      BY <3>1, <3>2, BoundsTyped DEF Rounds
    <3> QED
      BY <3>1, <3>2, <3>3, BoundsTyped
  <2>7. c <= MAX_MEASURED_RUNS /\ Warmups < n
    BY <1>4, <2>6, BoundsTyped
  <2>8. c \in MIN_MEASURED_RUNS .. MAX_MEASURED_RUNS
    BY <2>6, <2>7, BoundsTyped
  <2>9. ASSUME NEW r \in Runtimes
        PROVE  /\ summary'[m].count[r] >= c
               /\ ~overwrite => summary'[m].count[r] = c
               /\ Cardinality(FirstRounds(r, c)) <= Cardinality(FirstRounds(Other(r), c)) + 1
    <3>1. /\ Cardinality(MeasuredFiles(RunIdOf[m], r)) >= c
          /\ ~overwrite => Cardinality(MeasuredFiles(RunIdOf[m], r)) = c
      BY <1>6, <2>6, <2>7, FilesOfTheRounds DEF BalanceInv
    <3> QED
      BY <2>5, <3>1, FirstInTurn
  <2>10. summary'[m].status = "UNSTABLE" => c = MAX_MEASURED_RUNS
    BY <1>10, <2>5, <2>6, <2>7, BoundsTyped
  <2>11. BalancedMatrix'
    <3> SUFFICES ASSUME NEW y \in Matrices, matrix'[y].at = "passed"
                 PROVE  LET s == summary'[y]
                            first(r) == Cardinality({i \in 1 .. s.measured : Order(i)[1] = r})
                        IN  /\ s.measured \in MIN_MEASURED_RUNS .. MAX_MEASURED_RUNS
                            /\ \A r \in Runtimes :
                                 /\ s.count[r] >= s.measured
                                 /\ ~overwrite => s.count[r] = s.measured
                                 /\ first(r) <= first(Other(r)) + 1
                            /\ s.status = "UNSTABLE" => s.measured = MAX_MEASURED_RUNS
      BY <1>1 DEF BalancedMatrix
    <3>1. CASE y = m
      BY <2>5, <2>6, <2>8, <2>9, <2>10, <3>1 DEF FirstRounds
    <3>2. CASE y # m
      BY <2>1, <2>5, <3>2 DEF BalanceInv, BalancedMatrix
    <3> QED
      BY <3>1, <3>2
  <2> QED
    BY <1>7, <2>3, <2>5, <2>11 DEF BalanceInv
<1> QED
  BY <1>8, <1>9, <1>10

LEMMA DriverKeepsBalance ==
  ASSUME TypeInv, BalanceInv, NEW d \in Drivers, RunCorrectness(d)
  PROVE  BalanceInv'
<1>1. UNCHANGED << matrix, dirs, summaries, summary, overwrite >>
  BY CorrectnessGoes DEF Goes, StartDriver, outcome
<1>2. CASE StartDriver(d)
  <2>1. trial \in [Trials_ -> TrialStates]
    BY DEF TypeInv, TypeOK, TrialStates
  <2>2. \A t \in Trials_ : trial'[t] = [trial[t] EXCEPT !.beside = trial[t].beside \/ Live(t)]
    BY <1>2, <2>1 DEF StartDriver
  <2>3. \A t \in Trials_ : trial'[t].at = trial[t].at /\ DirOf(t)' = DirOf(t)
    <3> SUFFICES ASSUME NEW t \in Trials_
                 PROVE  trial'[t].at = trial[t].at /\ DirOf(t)' = DirOf(t)
      OBVIOUS
    <3>1. PICK b : trial'[t] = [trial[t] EXCEPT !.beside = b] /\ trial[t] \in TrialStates
      BY <2>1, <2>2
    <3>2. /\ trial'[t].at = trial[t].at /\ trial'[t].runtime = trial[t].runtime
          /\ trial'[t].phase = trial[t].phase /\ trial'[t].ordinal = trial[t].ordinal
      BY <3>1 DEF TrialStates
    <3> QED
      BY <3>2 DEF DirOf
  <2> QED
    BY <1>1, <2>3, ElsewhereKeepsBalance
<1>3. CASE ~StartDriver(d)
  <2>1. \A t \in Trials_ : trial'[t].at = trial[t].at /\ DirOf(t)' = DirOf(t)
    BY <1>3, CorrectnessGoes DEF Goes, DirOf
  <2> QED
    BY <1>1, <2>1, ElsewhereKeepsBalance
<1> QED
  BY <1>2, <1>3

LEMMA BalanceStays == TypeInv /\ AloneInv /\ BalanceInv /\ [Next]_vars => BalanceInv'
<1> SUFFICES ASSUME TypeInv, AloneInv, BalanceInv, [Next]_vars PROVE BalanceInv'
  OBVIOUS
<1>1. ASSUME NEW t \in Trials_, RunScenario(t) PROVE BalanceInv'
  BY <1>1, ScenarioKeepsBalance
<1>2. ASSUME NEW t \in Solo, StartSolo(t) PROVE BalanceInv'
  BY <1>2, SoloKeepsBalance
<1>3. ASSUME NEW m \in Matrices, RunMatrix(m) PROVE BalanceInv'
  BY <1>3, LockKeepsBalance, RunTrialKeepsBalance, TrialDoneKeepsBalance, StopKeepsBalance
     DEF RunMatrix
<1>4. ASSUME NEW d \in Drivers, RunCorrectness(d) PROVE BalanceInv'
  BY <1>4, DriverKeepsBalance
<1>5. CASE UNCHANGED vars
  <2>1. \A t \in Trials_ : trial'[t].at = trial[t].at /\ DirOf(t)' = DirOf(t)
    BY <1>5 DEF vars, DirOf
  <2> QED
    BY <1>5, <2>1, ElsewhereKeepsBalance DEF vars, outcome
<1> QED
  BY <1>1, <1>2, <1>3, <1>4, <1>5 DEF Next

\* A matrix that run_matrix.sh reports as complete measured both runtimes
\* equally often, in blocks that begin with either in turn, and cv_json judged
\* it by the files of these rounds and no others, whatever was killed before
\* it: another run's directory is one the matrix fails at before it ends.
THEOREM BalancedMatrixHolds == Spec => []BalancedMatrix
<1>1. Spec => [](TypeInv /\ PassInv /\ AloneInv /\ BalanceInv)
  BY TypeInit, TypeStays, PassInit, PassStays, AloneInit, AloneStays, BalanceInit, BalanceStays,
     PTL DEF Spec
<1>2. BalanceInv => BalancedMatrix
  BY DEF BalanceInv
<1> QED
  BY <1>1, <1>2, PTL
=============================================================================
