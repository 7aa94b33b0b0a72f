------------------------------- MODULE Quotas -------------------------------
(***************************************************************************)
(* The official quotas a host shows for its car (account_quota.rs and its   *)
(* callers in commands.rs).  A loop of the car and the refresh button each  *)
(* run the same query: read the car, ask with up to three accounts of each  *)
(* tool at once, decide by the accounts' order and not by who answers       *)
(* first, and merge the outcome into the car if it is still this car.       *)
(***************************************************************************)
EXTENDS Naturals, Sequences, FiniteSets

CONSTANTS QuotaCar,    \* the cars of this host
          ToolsOf,     \* the tools each of them shares
          Asker,       \* queries that may be under way at once
          MaxTried,    \* MAX_QUOTA_CREDENTIAL_ATTEMPTS
          MaxStarts,   \* bound: starts and resumptions
          NoCar

ASSUME QuotasAssumption ==
    /\ MaxTried \in Nat /\ MaxStarts \in Nat
    /\ NoCar \notin QuotaCar

VARIABLES car,      \* the car that is out, or NoCar
          starts,   \* how often a car was started or resumed
          quotas,   \* account_quotas: tool -> what is shown
          asker     \* each query

quotasVars == <<car, starts, quotas, asker>>

\* What is shown of a tool: its state, and the account (its place in the
\* order) the windows came from, 0 without windows.
PendingQuota == [state |-> "pending", from |-> 0]
NoAsker == [stage |-> "idle", car |-> NoCar, of |-> <<>>, decided |-> <<>>]

QuotasInit ==
    /\ car = NoCar
    /\ starts = 0
    /\ quotas = <<>>
    /\ asker = [a \in Asker |-> NoAsker]

-----------------------------------------------------------------------------
\* start_car and resume_host_car: a resumed car has the id it had before.
StartQuotas(c) ==
    /\ car = NoCar /\ starts < MaxStarts
    /\ car' = c
    /\ starts' = starts + 1
    /\ quotas' = [t \in ToolsOf[c] |-> PendingQuota]
    /\ UNCHANGED asker

StopQuotas ==
    /\ car # NoCar
    /\ car' = NoCar
    /\ quotas' = <<>>
    /\ UNCHANGED <<starts, asker>>

\* What becomes of the answers of a tool's accounts: "ok" or "err", "" until
\* one is there.  An account that could not be tried at all has no place.
Undecided == [state |-> "none", from |-> 0]

\* Fault: the first answer with windows decides.
DecisionFirstCome(answers) ==
    LET good == {i \in DOMAIN answers : answers[i] = "ok"} IN
    IF good # {} THEN [state |-> "available", from |-> CHOOSE i \in good : TRUE]
    ELSE IF \A i \in DOMAIN answers : answers[i] = "err"
         THEN [state |-> "error", from |-> 0] ELSE Undecided

\* take_decidable_result: the first answer with windows that has nothing but
\* errors before it; an error once all are errors.
Decision(answers) ==
    LET Good(i) == answers[i] = "ok" /\ \A j \in 1..(i - 1) : answers[j] = "err" IN
    IF \E i \in DOMAIN answers : Good(i)
    THEN [state |-> "available", from |-> CHOOSE i \in DOMAIN answers : Good(i)]
    ELSE IF \A i \in DOMAIN answers : answers[i] = "err"
         THEN [state |-> "error", from |-> 0] ELSE Undecided

\* Without an account to ask, the pool and the API keys decide.
Unasked == {[state |-> s, from |-> 0] : s \in {"error", "unsupported"}}

\* query_account_quotas: the tools are those of the car when it was read.
AskQuotas(a) ==
    /\ asker[a].stage = "idle" /\ car # NoCar
    /\ \E n \in [ToolsOf[car] -> 0..MaxTried] :
          \E d \in [ToolsOf[car] -> Unasked \cup {Undecided}] :
             /\ \A t \in ToolsOf[car] : (d[t] = Undecided) <=> (n[t] > 0)
             /\ asker' = [asker EXCEPT ![a] =
                    [stage |-> "asking", car |-> car, decided |-> d,
                     of |-> [t \in ToolsOf[car] |-> [i \in 1..n[t] |-> ""]]]]
    /\ UNCHANGED <<car, starts, quotas>>

\* What an account's query comes to: windows the parser accepts, or an error,
\* which a task that panics also counts as.
AccountAnswer == {"ok", "err"}

\* One account's answer arrives; a decision aborts the others.
AccountAnswers(a, t, i, answer) ==
    /\ asker[a].stage = "asking"
    /\ t \in DOMAIN asker[a].of /\ i \in DOMAIN asker[a].of[t]
    /\ asker[a].decided[t] = Undecided /\ asker[a].of[t][i] = ""
    /\ LET answers == [asker[a].of[t] EXCEPT ![i] = answer] IN
       asker' = [asker EXCEPT ![a].of[t] = answers,
                              ![a].decided[t] = Decision(answers)]
    /\ UNCHANGED <<car, starts, quotas>>

\* Fault: an error replaces what was shown.
MergedOver(old, new) == new

\* merge_account_quotas: an error keeps the windows that were there.
Merged1(old, new) ==
    IF new.state = "error" /\ old.from # 0
    THEN [state |-> "error", from |-> old.from] ELSE new

StillOut(a) == car = asker[a].car

\* Both queries have decided: the result is merged, or dropped when the car
\* went away meanwhile.  The loop then sleeps; it or the button asks anew.
MergeQuotas(a) ==
    /\ asker[a].stage = "asking"
    /\ \A t \in DOMAIN asker[a].of : asker[a].decided[t] # Undecided
    /\ quotas' = IF StillOut(a)
                 THEN [t \in DOMAIN asker[a].of |->
                         IF t \in DOMAIN quotas
                         THEN Merged1(quotas[t], asker[a].decided[t])
                         ELSE asker[a].decided[t]]
                 ELSE quotas
    /\ asker' = [asker EXCEPT ![a] = NoAsker]
    /\ UNCHANGED <<car, starts>>

QuotasNext ==
    \/ \E c \in QuotaCar : StartQuotas(c)
    \/ StopQuotas
    \/ \E a \in Asker :
          \/ AskQuotas(a)
          \/ MergeQuotas(a)
          \/ \E t \in UNION {ToolsOf[c] : c \in QuotaCar}, i \in 1..MaxTried,
                answer \in AccountAnswer : AccountAnswers(a, t, i, answer)

QuotasSpec == QuotasInit /\ [][QuotasNext]_quotasVars

-----------------------------------------------------------------------------
\* The state is typed, and the car shows its own tools, whichever car's
\* query ended last (the car_id comparisons after each await in commands.rs).
QuotasTypeOK ==
    /\ car \in QuotaCar \cup {NoCar}
    /\ starts \in 0..MaxStarts
    /\ quotas \in IF car = NoCar THEN {<<>>}
         ELSE [ToolsOf[car] ->
                 [state : {"pending", "available", "error", "unsupported"},
                  from : 0..MaxTried]]

\* The windows of a query come from the first account, in the pool's order,
\* that did not fail, in whatever order the accounts answer; and a query is
\* an error only when all of them failed (resolve_prioritized_queries).
BestAccountSpeaks ==
    \A a \in Asker : \A t \in DOMAIN asker[a].of :
        LET d == asker[a].decided[t]  answers == asker[a].of[t] IN
        /\ d.state = "available" =>
              /\ answers[d.from] = "ok"
              /\ \A i \in 1..(d.from - 1) : answers[i] = "err"
        /\ (d.state = "error" /\ answers # <<>>) =>
              \A i \in DOMAIN answers : answers[i] = "err"

\* While one car is out, windows that were shown stay until newer ones, or
\* the news that the accounts have none, replace them: a failed query or one
\* overtaken by another never blanks them (merge_account_quotas).
LastResultStays ==
    [][\A t \in DOMAIN quotas :
          (/\ starts' = starts /\ car' = car /\ quotas[t].from # 0)
             => \/ quotas'[t].from # 0
                \/ quotas'[t].state = "unsupported"]_quotasVars
=============================================================================
