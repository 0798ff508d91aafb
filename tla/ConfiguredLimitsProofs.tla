------------------------- MODULE ConfiguredLimitsProofs -------------------------
(***************************************************************************)
(* Proofs that configured rolling windows are never overrun, whatever the  *)
(* jobs, profiles, rules, requests and routes are.                         *)
(*                                                                         *)
(* No step but Admit adds to what a rule counts: a submission is recorded  *)
(* for a job that has an attempt at its provider, so it is not counted a   *)
(* second time, and a fallback only removes.  Admit adds one attempt, and  *)
(* only windows that end at this very instant contain it: those end with   *)
(* an attempt admitted before in the same instant, by a rule still in      *)
(* force, which therefore had to admit the new attempt as well.            *)
(***************************************************************************)
EXTENDS ConfiguredLimits, TLAPS, FiniteSetTheorems, WellFoundedInduction

\* Every attempt was made by now.
AttemptsPast == \A e \in attempts : e.at <= clock

\* Attempts and what is judged about them are finitely many, by rules in force.
JudgedInForce == \A er \in judged : er[1] \in attempts /\ er[2] \in rules

IInv == TypeOK /\ IsFiniteSet(attempts) /\ AttemptsPast /\ JudgedInForce /\ RollingLimit

-----------------------------------------------------------------------------
\* The type of a prompt of a request is one a rule can match.
LEMMA RequestTypes ==
    ASSUME NEW q \in Requests
    PROVE  /\ q \in Seq(Types)
           /\ \A i \in DOMAIN q : q[i] \in Types
           /\ PromptType(q) \in Types
  BY RequestsAssumption DEF PromptType, Types, PromptTypes

\* The provider of a job, and of an attempt it makes.
LEMMA ProviderType ==
    ASSUME TypeOK, NEW j \in Jobs
    PROVE  Provider(j) \in Providers
  <1>1. plan[j] \in Seq(Providers) /\ plan[j] # <<>>
    BY DEF TypeOK
  <1> QED
    BY <1>1 DEF Provider

\* What a rule counts is finite, so that it can be compared with its allowance.
LEMMA CountedFinite ==
    ASSUME IsFiniteSet(attempts), NEW r, NEW p, NEW now
    PROVE  IsFiniteSet(Counted(r, p, now))
  <1> DEFINE v == r.provider
             row(j) == [job |-> j, index |-> 0, provider |-> v, profile |-> job[j].profile,
                        type |-> PromptType(job[j].request), at |-> submitted[j]]
  <1>1. IsFiniteSet({e \in attempts : e.provider = v})
    BY FS_Subset
  <1>2. IsFiniteSet(Unattempted(v))
    <2>1. Unattempted(v) \subseteq Jobs
      BY DEF Unattempted
    <2> QED
      BY <2>1, FS_Subset, JobsAssumption
  <1>3. IsFiniteSet({row(j) : j \in Unattempted(v)})
    <2> DEFINE rows == {row(j) : j \in Unattempted(v)}
               f == [j \in Unattempted(v) |-> row(j)]
    <2>1. f \in Surjection(Unattempted(v), rows)
      BY DEF Surjection
    <2> HIDE DEF rows, f
    <2>2. IsFiniteSet(rows)
      BY <1>2, <2>1, FS_Surjection
    <2> QED
      BY <2>2 DEF rows
  <1>4. IsFiniteSet(History(v))
    BY <1>1, <1>3, FS_Union DEF History
  <1>5. Counted(r, p, now) \subseteq History(v)
    BY DEF Counted
  <1> QED
    BY <1>4, <1>5, FS_Subset

-----------------------------------------------------------------------------
\* A job counts as submitted without an attempt only if it did so before the step.
NoRecount ==
    \A j \in Jobs, v \in Providers :
        j \in Unattempted(v)' => j \in Unattempted(v) /\ submitted'[j] = submitted[j]

\* Then all that a rule newly counts is new attempts in its window.
LEMMA NewlyCounted ==
    ASSUME NEW r, r.provider \in Providers, NEW p, NEW now,
           job' = job, attempts \subseteq attempts', NoRecount
    PROVE  \A e \in Counted(r, p, now)' :
               \/ e \in Counted(r, p, now)
               \/ /\ e \in attempts' \ attempts
                  /\ e.provider = r.provider
                  /\ r.scope = "provider" \/ e.profile = p
                  /\ Matches(r, e.type)
                  /\ e.at > now - r.window
                  /\ e.at <= now
  <1>1. ASSUME NEW e \in History(r.provider)', e \notin attempts' \ attempts
        PROVE  e \in History(r.provider)
    <2>1. CASE e \in attempts'
      BY <1>1, <2>1 DEF History
    <2>2. CASE e \notin attempts'
      <3>1. PICK j \in Unattempted(r.provider)' :
                e = [job |-> j, index |-> 0, provider |-> r.provider,
                     profile |-> job'[j].profile, type |-> PromptType(job'[j].request),
                     at |-> submitted'[j]]
        BY <1>1, <2>2 DEF History
      <3>2. j \in Jobs
        BY DEF Unattempted
      <3>3. j \in Unattempted(r.provider) /\ submitted'[j] = submitted[j]
        BY <3>2 DEF NoRecount
      <3> QED
        BY <3>1, <3>3 DEF History
    <2> QED
      BY <2>1, <2>2
  <1>2. \A e \in Counted(r, p, now)' :
            /\ e \in History(r.provider)'
            /\ r.scope = "provider" \/ e.profile = p
            /\ Matches(r, e.type)
            /\ e.at > now - r.window
            /\ e.at <= now
    BY DEF Counted, Matches
  <1>3. \A e \in Counted(r, p, now)' : e \notin attempts' \ attempts => e \in Counted(r, p, now)
    BY <1>1, <1>2 DEF Counted
  <1>4. \A e \in Counted(r, p, now)' : e \in attempts' \ attempts => e.provider = r.provider
    BY <1>2 DEF History
  <1> QED
    BY <1>2, <1>3, <1>4

\* A step that records no new attempt keeps every window within its allowance.
LEMMA WindowsKept ==
    ASSUME IInv, job' = job, attempts' = attempts, judged' \subseteq judged, NoRecount
    PROVE  RollingLimit'
  <1> SUFFICES ASSUME NEW er \in judged'
               PROVE  Cardinality(Counted(er[2], er[1].profile, er[1].at)') <= er[2].max
    BY DEF RollingLimit
  <1> DEFINE old == Counted(er[2], er[1].profile, er[1].at)
             new == Counted(er[2], er[1].profile, er[1].at)'
  <1>1. er \in attempts \X Rules
    BY DEF IInv, TypeOK
  <1>2. er[2].provider \in Providers /\ er[2].max \in Nat
    BY <1>1, RulesAssumption
  <1>3. new \subseteq old
    <2>1. ASSUME NEW r, r.provider \in Providers, NEW p, NEW now
          PROVE  \A e \in Counted(r, p, now)' : e \in Counted(r, p, now)
      BY <2>1, NewlyCounted
    <2> QED
      BY <1>2, <2>1
  <1>4. IsFiniteSet(old) /\ IsFiniteSet(new)
    BY <1>3, CountedFinite, FS_Subset DEF IInv
  <1>5. Cardinality(old) <= er[2].max
    BY DEF IInv, RollingLimit
  <1> HIDE DEF old, new
  <1>6. Cardinality(new) <= Cardinality(old)
    BY <1>3, <1>4, FS_Subset
  <1>7. Cardinality(new) \in Nat /\ Cardinality(old) \in Nat
    BY <1>4, FS_CardinalityType
  <1> QED
    BY <1>2, <1>5, <1>6, <1>7 DEF new

-----------------------------------------------------------------------------
\* No step counts a submission that it did not count before.
LEMMA NothingRecounted ==
    ASSUME TypeOK, [Next]_vars
    PROVE  NoRecount
  <1> USE DEF NoRecount, Unattempted, Provider
  <1>1. CASE UNCHANGED <<plan, submitted>> /\ attempts \subseteq attempts'
    BY <1>1
  <1>2. ASSUME NEW j \in Jobs, RecordSubmission(j)
        PROVE  NoRecount
    BY <1>2 DEF RecordSubmission, TypeOK
  <1>3. ASSUME NEW j \in Jobs, Fallback(j)
        PROVE  NoRecount
    BY <1>3 DEF Fallback, TypeOK
  <1>4. ASSUME NEW j \in Jobs, NEW i \in DOMAIN job[j].request, Admit(j, i)
        PROVE  UNCHANGED <<plan, submitted>> /\ attempts \subseteq attempts'
    BY <1>4 DEF Admit
  <1> QED
    BY <1>1, <1>2, <1>3, <1>4 DEF Next, vars, Tick, EditRules, End

\* The row of an attempt, and the rules it is judged by.
LEMMA AttemptType ==
    ASSUME TypeOK, NEW j \in Jobs, NEW i \in DOMAIN job[j].request
    PROVE  Attempt(j, i) \in Rows
  <1>1. job[j] \in [profile : Profiles, request : Requests]
    BY DEF TypeOK
  <1>2. job[j].request \in Seq(Types) /\ job[j].request[i] \in Types
    BY <1>1, RequestTypes
  <1>3. i \in Nat
    BY <1>2
  <1> QED
    BY <1>1, <1>2, <1>3, ProviderType DEF Attempt, Rows, TypeOK

LEMMA TypeInitial == Init => TypeOK
  BY RoutesAssumption DEF Init, TypeOK

LEMMA TypeInductive ==
    ASSUME TypeOK, [Next]_vars
    PROVE  TypeOK'
  <1>1. ASSUME NEW j \in Jobs, NEW i \in DOMAIN job[j].request, Admit(j, i)
        PROVE  TypeOK'
    <2>1. Attempt(j, i) \in Rows
      BY AttemptType
    <2>2. attempts' \subseteq Rows /\ judged' \subseteq attempts' \X Rules
      BY <1>1, <2>1 DEF Admit, TypeOK
    <2> QED
      BY <1>1, <2>2 DEF Admit, TypeOK
  <1>2. ASSUME NEW j \in Jobs, Fallback(j)
        PROVE  TypeOK'
    <2>1. plan[j] \in Seq(Providers) /\ Len(plan[j]) > 1
      BY <1>2 DEF Fallback, TypeOK
    <2>2. Tail(plan[j]) \in Seq(Providers) /\ Len(Tail(plan[j])) > 0
      BY <2>1
    <2>3. Tail(plan[j]) # <<>>
      <3> DEFINE rest == Tail(plan[j])
      <3>1. rest \in Seq(Providers) /\ Len(rest) > 0
        BY <2>2
      <3> HIDE DEF rest
      <3>2. rest # <<>>
        BY <3>1
      <3> QED
        BY <3>2 DEF rest
    <2> QED
      BY <1>2, <2>2, <2>3 DEF Fallback, TypeOK
  <1>3. ASSUME NEW j \in Jobs, RecordSubmission(j)
        PROVE  TypeOK'
    BY <1>3 DEF RecordSubmission, TypeOK
  <1>4. ASSUME NEW j \in Jobs, End(j)
        PROVE  TypeOK'
    BY <1>4 DEF End, TypeOK
  <1>5. CASE Tick
    BY <1>5, JobsAssumption DEF Tick, TypeOK
  <1>6. CASE EditRules
    BY <1>6 DEF EditRules, TypeOK
  <1>7. CASE UNCHANGED vars
    BY <1>7 DEF vars, TypeOK
  <1> QED
    BY <1>1, <1>2, <1>3, <1>4, <1>5, <1>6, <1>7 DEF Next

(***************************************************************************)
(* TypeOK in every reachable state, for all jobs, rules and routes: plans  *)
(* never run empty, so a running job always has a provider (fallbackJob),  *)
(* and what admitProviderAction judged is an attempt it recorded.          *)
(***************************************************************************)
THEOREM LimitsTyped == Spec => []TypeOK
  <1>1. TypeOK /\ [Next]_vars => TypeOK'
    BY TypeInductive
  <1> QED
    BY <1>1, TypeInitial, PTL DEF Spec

-----------------------------------------------------------------------------
\* The step that matters: a new attempt overruns no window it falls into.
LEMMA AdmitKeepsWindows ==
    ASSUME IInv, NEW j \in Jobs, NEW i \in DOMAIN job[j].request, Admit(j, i), NoRecount
    PROVE  RollingLimit'
  <1> DEFINE a == Attempt(j, i)
  <1>1. /\ job' = job /\ clock' = clock /\ attempts' = attempts \union {a}
        /\ judged' = judged \union
              ({a} \X {r \in rules : r.provider = Provider(j) /\ Matches(r, job[j].request[i])})
    BY DEF Admit
  <1>2. /\ a.at = clock /\ a.provider = Provider(j) /\ a.profile = job[j].profile
        /\ a.type = job[j].request[i]
    BY DEF Attempt
  <1>3. a \in Rows /\ clock \in Nat
    BY AttemptType DEF IInv, TypeOK
  <1> HIDE DEF a
  \* What a rule counts up to some instant grows by a, if a is in that window.
  <1>4. ASSUME NEW r \in rules, NEW p, NEW now \in Nat, now <= clock,
               Cardinality(Counted(r, p, now)) <= r.max
        PROVE  Cardinality(Counted(r, p, now)') <= r.max
    <2> DEFINE old == Counted(r, p, now)
               new == Counted(r, p, now)'
               mine == Counted(r, job[j].profile, clock)
    <2>1. r \in Rules /\ r.provider \in Providers /\ r.max \in Nat
      BY RulesAssumption DEF IInv, TypeOK
    <2>2. \A e \in new :
              \/ e \in old
              \/ /\ e = a /\ a.provider = r.provider
                 /\ r.scope = "provider" \/ a.profile = p
                 /\ Matches(r, a.type)
                 /\ a.at <= now
      BY <1>1, <2>1, NewlyCounted
    <2>3. IsFiniteSet(old) /\ IsFiniteSet(mine)
      BY CountedFinite DEF IInv
    <2>4. Cardinality(old) \in Nat /\ Cardinality(mine) \in Nat
      BY <2>3, FS_CardinalityType
    <2>5. CASE new \subseteq old
      <3> HIDE DEF old, new
      <3>1. Cardinality(new) <= Cardinality(old) /\ Cardinality(new) \in Nat
        BY <2>3, <2>5, FS_Subset, FS_CardinalityType
      <3> QED
        BY <1>4, <2>1, <2>4, <3>1 DEF old, new
    <2>6. CASE ~(new \subseteq old)
      <3>1. /\ new \subseteq old \union {a}
            /\ a.provider = r.provider
            /\ r.scope = "provider" \/ a.profile = p
            /\ Matches(r, a.type)
            /\ clock <= now
        BY <1>2, <2>2, <2>6
      <3>2. now = clock
        BY <1>3, <1>4, <3>1
      <3>3. old = mine
        BY <1>2, <3>1, <3>2 DEF Counted
      <3>4. Overflow(r, job[j].profile, 1, clock) <= 0
        <4>1. r \notin Blocking(j, i)
          BY DEF Admit
        <4>2. ~(Overflow(r, job[j].profile, 1, clock) > 0)
          BY <1>2, <3>1, <4>1 DEF Blocking
        <4>3. Overflow(r, job[j].profile, 1, clock) \in Int
          BY <2>1, <2>4 DEF Overflow
        <4> QED
          BY <4>2, <4>3
      <3>5. Cardinality(old) + 1 <= r.max
        BY <2>1, <2>4, <3>3, <3>4 DEF Overflow
      <3> HIDE DEF old, new
      <3>6. /\ IsFiniteSet(old \union {a})
            /\ Cardinality(old \union {a}) <= Cardinality(old) + 1
            /\ Cardinality(old \union {a}) \in Nat
        <4>1. /\ IsFiniteSet(old \union {a})
              /\ Cardinality(old \union {a}) =
                    IF a \in old THEN Cardinality(old) ELSE Cardinality(old) + 1
          BY <2>3, FS_AddElement
        <4> QED
          BY <2>4, <4>1
      <3>7. Cardinality(new) <= Cardinality(old \union {a}) /\ Cardinality(new) \in Nat
        BY <3>1, <3>6, FS_Subset, FS_CardinalityType
      <3> QED
        BY <2>1, <2>4, <3>5, <3>6, <3>7 DEF new
    <2> QED
      BY <2>5, <2>6
  <1> SUFFICES ASSUME NEW er \in judged'
               PROVE  Cardinality(Counted(er[2], er[1].profile, er[1].at)') <= er[2].max
    BY DEF RollingLimit
  <1>5. CASE er \in judged
    <2>1. /\ er[1] \in attempts /\ er[2] \in rules /\ er[1].at \in Nat /\ er[1].at <= clock
          /\ Cardinality(Counted(er[2], er[1].profile, er[1].at)) <= er[2].max
      BY <1>5 DEF IInv, TypeOK, Rows, AttemptsPast, JudgedInForce, RollingLimit
    <2> QED
      BY <1>4, <2>1
  <1>6. CASE er \notin judged
    <2>1. /\ er[1] = a /\ er[2] \in rules
          /\ er[2].provider = Provider(j) /\ Matches(er[2], job[j].request[i])
      BY <1>1, <1>6
    <2> DEFINE mine == Counted(er[2], job[j].profile, clock)
    <2>2. er[2].max \in Nat
      BY <2>1, RulesAssumption DEF IInv, TypeOK
    <2>3. Cardinality(mine) \in Nat
      BY CountedFinite, FS_CardinalityType DEF IInv
    <2>4. ~(Overflow(er[2], job[j].profile, 1, clock) > 0)
      BY <2>1 DEF Admit, Blocking
    <2>5. Cardinality(mine) <= er[2].max
      BY <2>2, <2>3, <2>4 DEF Overflow
    <2> QED
      BY <1>2, <1>3, <1>4, <2>1, <2>5
  <1> QED
    BY <1>5, <1>6

LEMMA InvInitial == Init => IInv
  <1> SUFFICES ASSUME Init
               PROVE  IInv
    OBVIOUS
  <1> QED
    BY TypeInitial, FS_EmptySet DEF Init, IInv, AttemptsPast, JudgedInForce, RollingLimit

LEMMA InvInductive ==
    ASSUME IInv, [Next]_vars
    PROVE  IInv'
  <1>1. TypeOK' /\ NoRecount
    BY TypeInductive, NothingRecounted DEF IInv
  <1>2. ASSUME NEW j \in Jobs, NEW i \in DOMAIN job[j].request, Admit(j, i)
        PROVE  IInv'
    <2>1. RollingLimit'
      BY <1>1, <1>2, AdmitKeepsWindows
    <2>2. IsFiniteSet(attempts')
      BY <1>2, FS_AddElement DEF IInv, Admit
    <2>3. AttemptsPast'
      BY <1>2 DEF IInv, TypeOK, AttemptsPast, Admit, Attempt
    <2>4. JudgedInForce'
      BY <1>2 DEF IInv, JudgedInForce, Admit
    <2> QED
      BY <1>1, <2>1, <2>2, <2>3, <2>4 DEF IInv
  <1>3. ASSUME job' = job, attempts' = attempts, judged' \subseteq judged, clock' \in {clock, clock + 1},
               \A er \in judged' : er[2] \in rules'
        PROVE  IInv'
    <2>1. RollingLimit'
      BY <1>1, <1>3, WindowsKept
    <2>2. AttemptsPast'
      BY <1>3 DEF IInv, TypeOK, Rows, AttemptsPast
    <2>3. JudgedInForce'
      BY <1>3 DEF IInv, JudgedInForce
    <2> QED
      BY <1>1, <1>3, <2>1, <2>2, <2>3 DEF IInv
  <1>4. CASE EditRules
    BY <1>3, <1>4 DEF EditRules
  <1>5. CASE Tick
    BY <1>3, <1>5 DEF Tick, IInv, JudgedInForce
  <1>6. ASSUME NEW j \in Jobs, RecordSubmission(j) \/ Fallback(j) \/ End(j)
        PROVE  IInv'
    BY <1>3, <1>6 DEF RecordSubmission, Fallback, End, IInv, JudgedInForce
  <1>7. CASE UNCHANGED vars
    BY <1>3, <1>7 DEF vars, IInv, JudgedInForce
  <1> QED
    BY <1>2, <1>4, <1>5, <1>6, <1>7 DEF Next

(***************************************************************************)
(* No rolling window of a rule ever holds more attempts than it allows     *)
(* (admitProviderAction), for all jobs, profiles, rules and windows, while *)
(* jobs compete, fall back and end, submissions are recorded and the rules *)
(* are edited.                                                             *)
(***************************************************************************)
THEOREM WindowsRespected == Spec => []RollingLimit
  <1>1. IInv /\ [Next]_vars => IInv'
    BY InvInductive
  <1>2. IInv => RollingLimit
    BY DEF IInv
  <1> QED
    BY <1>1, <1>2, InvInitial, PTL DEF Spec

-----------------------------------------------------------------------------
(* What is counted, exactly.                                               *)

\* A recorded submission has its attempt, or belongs to a release that kept none: then its
\* job has ended and will make no attempt.
Recorded ==
    \A j \in Jobs : submitted[j] # 0 =>
        \/ \E e \in attempts : e.job = j /\ e.provider = Provider(j) /\ e.type \in PromptTypes
        \/ j \notin live /\ j \in Unattempted(Provider(j))

\* The primary key of the attempts, and what they say of their jobs' requests.
AttemptsKeyed ==
    \A e \in attempts :
        /\ e.index \in DOMAIN job[e.job].request
        /\ e.type = job[e.job].request[e.index]
        /\ \A f \in attempts : e.job = f.job /\ e.provider = f.provider /\ e.index = f.index => e = f

Ledger == TypeOK /\ IsFiniteSet(attempts) /\ Recorded /\ AttemptsKeyed

\* Every request limits one prompt: the one it ends with.
OnePrompt == \A q \in Requests : \A i \in DOMAIN q : q[i] \in PromptTypes => i = Len(q)

LEMMA LedgerInitial == Init => Ledger
  <1> SUFFICES ASSUME Init
               PROVE  Ledger
    OBVIOUS
  <1>1. TypeOK /\ IsFiniteSet(attempts) /\ AttemptsKeyed
    BY TypeInitial, FS_EmptySet DEF Init, AttemptsKeyed
  <1>2. Recorded
    BY DEF Init, Recorded, Unattempted
  <1> QED
    BY <1>1, <1>2 DEF Ledger

\* Of a job that runs, no submission is counted without an attempt; so no step changes which are.
LEMMA UnattemptedStays ==
    ASSUME Ledger, [Next]_vars, NEW v
    PROVE  /\ Unattempted(v)' = Unattempted(v)
           /\ \A j \in Unattempted(v) : submitted'[j] = submitted[j]
  <1> USE DEF Ledger
  <1>1. ASSUME NEW j \in live
        PROVE  j \notin Unattempted(v)
    BY DEF Recorded, Unattempted, TypeOK
  <1>2. ASSUME UNCHANGED <<plan, submitted, attempts>>
        PROVE  /\ Unattempted(v)' = Unattempted(v)
               /\ \A j \in Unattempted(v) : submitted'[j] = submitted[j]
    BY <1>2 DEF Unattempted, Provider
  <1>3. ASSUME NEW j \in Jobs, NEW i \in DOMAIN job[j].request, Admit(j, i)
        PROVE  Unattempted(v)' = Unattempted(v) /\ submitted' = submitted
    <2>1. /\ plan' = plan /\ submitted' = submitted /\ attempts' = attempts \union {Attempt(j, i)}
          /\ j \notin Unattempted(v)
      BY <1>1, <1>3 DEF Admit
    <2>2. Attempt(j, i).job = j
      BY DEF Attempt
    <2> QED
      BY <2>1, <2>2 DEF Unattempted, Provider
  <1>4. ASSUME NEW j \in Jobs, RecordSubmission(j)
        PROVE  /\ Unattempted(v)' = Unattempted(v)
               /\ \A k \in Unattempted(v) : submitted'[k] = submitted[k]
    <2>1. /\ plan' = plan /\ attempts' = attempts
          /\ \A k \in Jobs \ {j} : submitted'[k] = submitted[k]
          /\ \E e \in attempts : e.job = j /\ e.provider = Provider(j)
      BY <1>4 DEF RecordSubmission, TypeOK
    <2>2. j \notin Unattempted(v) /\ j \notin Unattempted(v)'
      BY <2>1 DEF Unattempted, Provider
    <2> QED
      BY <2>1, <2>2 DEF Unattempted, Provider
  <1>5. ASSUME NEW j \in Jobs, Fallback(j)
        PROVE  /\ Unattempted(v)' = Unattempted(v)
               /\ \A k \in Unattempted(v) : submitted'[k] = submitted[k]
    <2>1. /\ attempts' = attempts /\ submitted'[j] = 0 /\ j \notin Unattempted(v)
          /\ \A k \in Jobs \ {j} : submitted'[k] = submitted[k] /\ plan'[k] = plan[k]
      BY <1>1, <1>5 DEF Fallback, TypeOK
    <2> QED
      BY <2>1 DEF Unattempted, Provider
  <1> QED
    BY <1>2, <1>3, <1>4, <1>5 DEF Next, vars, Tick, EditRules, End

LEMMA LedgerInductive ==
    ASSUME Ledger, [Next]_vars
    PROVE  Ledger'
  <1> USE DEF Ledger
  <1>0. TypeOK' /\ \A v : Unattempted(v)' = Unattempted(v)
    BY TypeInductive, UnattemptedStays
  <1>1. ASSUME NEW j \in Jobs, NEW i \in DOMAIN job[j].request, Admit(j, i)
        PROVE  Ledger'
    <2> DEFINE a == Attempt(j, i)
    <2>1. /\ attempts' = attempts \union {a} /\ job' = job /\ plan' = plan
          /\ submitted' = submitted /\ live' = live /\ j \in live
          /\ \A e \in attempts : ~(e.job = j /\ e.provider = Provider(j) /\ e.index = i)
      BY <1>1 DEF Admit
    <2>2. a.job = j /\ a.index = i /\ a.provider = Provider(j) /\ a.type = job[j].request[i]
      BY DEF Attempt
    <2> HIDE DEF a
    <2>3. IsFiniteSet(attempts')
      BY <2>1, FS_AddElement
    <2>4. AttemptsKeyed'
      BY <2>1, <2>2 DEF AttemptsKeyed
    <2>5. Recorded'
      <3> SUFFICES ASSUME NEW k \in Jobs, submitted[k] # 0
                   PROVE  \/ \E e \in attempts' : e.job = k /\ e.provider = Provider(k) /\ e.type \in PromptTypes
                          \/ k \notin live /\ k \in Unattempted(Provider(k))
        BY <1>0, <2>1 DEF Recorded, Provider
      <3> QED
        BY <2>1 DEF Recorded
    <2> QED
      BY <1>0, <2>3, <2>4, <2>5
  <1>2. ASSUME NEW j \in Jobs, RecordSubmission(j)
        PROVE  Ledger'
    <2>1. /\ attempts' = attempts /\ job' = job /\ plan' = plan /\ live' = live
          /\ \A k \in Jobs \ {j} : submitted'[k] = submitted[k]
          /\ \E e \in attempts : e.job = j /\ e.provider = Provider(j) /\ e.type \in PromptTypes
      BY <1>2 DEF RecordSubmission, TypeOK
    <2>2. AttemptsKeyed'
      BY <2>1 DEF AttemptsKeyed
    <2>3. Recorded'
      <3> SUFFICES ASSUME NEW k \in Jobs, submitted'[k] # 0
                   PROVE  \/ \E e \in attempts : e.job = k /\ e.provider = Provider(k) /\ e.type \in PromptTypes
                          \/ k \notin live /\ k \in Unattempted(Provider(k))
        BY <1>0, <2>1 DEF Recorded, Provider
      <3> QED
        BY <2>1 DEF Recorded
    <2> QED
      BY <1>0, <2>1, <2>2, <2>3
  <1>3. ASSUME NEW j \in Jobs, Fallback(j)
        PROVE  Ledger'
    <2>1. /\ attempts' = attempts /\ job' = job /\ live' = live /\ submitted'[j] = 0
          /\ \A k \in Jobs \ {j} : submitted'[k] = submitted[k] /\ plan'[k] = plan[k]
      BY <1>3 DEF Fallback, TypeOK
    <2>2. AttemptsKeyed'
      BY <2>1 DEF AttemptsKeyed
    <2>3. Recorded'
      <3> SUFFICES ASSUME NEW k \in Jobs \ {j}, submitted[k] # 0
                   PROVE  \/ \E e \in attempts : e.job = k /\ e.provider = Provider(k) /\ e.type \in PromptTypes
                          \/ k \notin live /\ k \in Unattempted(Provider(k))
        BY <1>0, <2>1 DEF Recorded, Provider
      <3> QED
        BY DEF Recorded
    <2> QED
      BY <1>0, <2>1, <2>2, <2>3
  <1>4. ASSUME UNCHANGED <<job, plan, submitted, attempts>>, live' \subseteq live
        PROVE  Ledger'
    <2>1. AttemptsKeyed'
      BY <1>4 DEF AttemptsKeyed
    <2>2. Recorded'
      BY <1>0, <1>4 DEF Recorded, Provider
    <2> QED
      BY <1>0, <1>4, <2>1, <2>2
  <1> QED
    BY <1>1, <1>2, <1>3, <1>4 DEF Next, vars, Tick, EditRules, End

\* A step adds its new attempts to what is on record of a provider, and removes nothing.
LEMMA HistoryGrows ==
    ASSUME Ledger, [Next]_vars, NEW v
    PROVE  /\ attempts \subseteq attempts'
           /\ History(v)' = History(v) \union {e \in attempts' \ attempts : e.provider = v}
  <1>1. /\ Unattempted(v)' = Unattempted(v)
        /\ \A j \in Unattempted(v) : submitted'[j] = submitted[j]
    BY UnattemptedStays
  <1>2. job' = job /\ attempts \subseteq attempts'
    BY DEF Next, vars, Tick, EditRules, Admit, RecordSubmission, Fallback, End
  <1> QED
    BY <1>1, <1>2 DEF History

\* At most one attempt is new.
LEMMA OneAttempt ==
    ASSUME Ledger, [Next]_vars
    PROVE  \E a : attempts' \ attempts \subseteq {a}
  <1>1. ASSUME NEW j \in Jobs, NEW i \in DOMAIN job[j].request, Admit(j, i)
        PROVE  attempts' \ attempts \subseteq {Attempt(j, i)}
    BY <1>1 DEF Admit
  <1> QED
    BY <1>1 DEF Next, vars, Tick, EditRules, RecordSubmission, Fallback, End

(***************************************************************************)
(* While the clock stands still no step gives back what a rule counts, nor *)
(* charges more than a unit: neither fallbackJob, which clears the         *)
(* submission, nor the end of a job, nor a submission that is recorded     *)
(* after its attempt.                                                      *)
(***************************************************************************)
THEOREM UsageStays == Spec => UsageKept
  <1> DEFINE Kept == clock' = clock =>
                         \A r \in Rules, p \in Profiles :
                             Cardinality(Counted(r, p, clock))' - Cardinality(Counted(r, p, clock)) \in {0, 1}
  <1>1. ASSUME Ledger, [Next]_vars
        PROVE  [Kept]_vars
    <2> SUFFICES ASSUME clock' = clock, NEW r \in Rules, NEW p \in Profiles
                 PROVE  Cardinality(Counted(r, p, clock)') - Cardinality(Counted(r, p, clock)) \in {0, 1}
      OBVIOUS
    <2> DEFINE old == Counted(r, p, clock)
               new == Counted(r, p, clock)'
    <2>1. PICK a : attempts' \ attempts \subseteq {a}
      BY <1>1, OneAttempt
    <2>2. History(r.provider) \subseteq History(r.provider)' /\ History(r.provider)' \subseteq History(r.provider) \union {a}
      BY <1>1, <2>1, HistoryGrows
    <2>3. old \subseteq new /\ new \subseteq old \union {a}
      BY <2>2 DEF Counted, Matches
    <2>4. IsFiniteSet(old)
      BY <1>1, CountedFinite DEF Ledger
    <2> HIDE DEF old, new
    <2>5. new = old \/ new = old \union {a}
      BY <2>3
    <2>6. Cardinality(new) = Cardinality(old) \/ Cardinality(new) = Cardinality(old) + 1
      BY <2>4, <2>5, FS_AddElement
    <2>7. Cardinality(old) \in Nat
      BY <2>4, FS_CardinalityType
    <2>8. Cardinality(new) - Cardinality(old) \in {0, 1}
      BY <2>6, <2>7
    <2> QED
      BY <2>8 DEF old, new
  <1>2. Ledger /\ [Next]_vars => Ledger'
    BY LedgerInductive
  <1> QED
    BY <1>1, <1>2, LedgerInitial, PTL DEF Spec, UsageKept

(***************************************************************************)
(* A prompt on record as sent to the provider its job is on is counted     *)
(* once (configuredRateLimitHistory), if requests hold one prompt.         *)
(***************************************************************************)
THEOREM PromptsCountedOnce ==
    ASSUME OnePrompt
    PROVE  Spec => []CountedOnce
  <1>1. ASSUME Ledger
        PROVE  CountedOnce
    <2> SUFFICES ASSUME NEW j \in Jobs, submitted[j] # 0
                 PROVE  Cardinality({e \in History(Provider(j)) : e.job = j /\ e.type \in PromptTypes}) = 1
      BY DEF CountedOnce
    <2> DEFINE v == Provider(j)
               prompts == {e \in History(v) : e.job = j /\ e.type \in PromptTypes}
               row == [job |-> j, index |-> 0, provider |-> v, profile |-> job[j].profile,
                       type |-> PromptType(job[j].request), at |-> submitted[j]]
    <2>1. job[j].request \in Requests
      BY <1>1 DEF Ledger, TypeOK
    <2>2. PromptType(job[j].request) \in PromptTypes
      BY <2>1, RequestsAssumption DEF PromptType
    <2>3. CASE j \in Unattempted(v)
      <3>1. \A e \in attempts : ~(e.job = j /\ e.provider = v)
        BY <2>3 DEF Unattempted
      <3>2. row \in prompts
        BY <2>2, <2>3 DEF History
      <3>3. \A e \in prompts : e = row
        BY <3>1 DEF History
      <3>4. prompts = {row}
        BY <3>2, <3>3
      <3> HIDE DEF row, prompts
      <3>5. Cardinality(prompts) = 1
        BY <3>4, FS_Singleton
      <3> QED
        BY <3>5 DEF prompts
    <2>4. CASE j \notin Unattempted(v)
      <3>1. PICK a \in attempts : a.job = j /\ a.provider = v /\ a.type \in PromptTypes
        BY <1>1, <2>4 DEF Ledger, Recorded
      <3>2. ASSUME NEW e \in prompts
            PROVE  e = a
        <4>1. e \in attempts /\ e.provider = v /\ e.job = j /\ e.type \in PromptTypes
          BY <2>4 DEF History
        <4>2. e.index = a.index
          BY <1>1, <2>1, <3>1, <4>1 DEF Ledger, AttemptsKeyed, OnePrompt
        <4> QED
          BY <1>1, <3>1, <4>1, <4>2 DEF Ledger, AttemptsKeyed
      <3>3. a \in prompts
        BY <3>1 DEF History
      <3>4. prompts = {a}
        BY <3>2, <3>3
      <3> HIDE DEF prompts
      <3>5. Cardinality(prompts) = 1
        BY <3>4, FS_Singleton
      <3> QED
        BY <3>5 DEF prompts
    <2> QED
      BY <2>3, <2>4
  <1>2. Ledger /\ [Next]_vars => Ledger'
    BY LedgerInductive
  <1> QED
    BY <1>1, <1>2, LedgerInitial, PTL DEF Spec

-----------------------------------------------------------------------------
(* The eligible time.  That a k-th time exists is an argument about finite *)
(* sets of events: of the events whose predecessors are fewer than k, one  *)
(* that has the fewest successors.                                         *)

Before(S, t) == {e \in S : e.at < t}
UpTo(S, t) == {e \in S : e.at <= t}
After(S, t) == {e \in S : e.at > t}

\* Some event comes first, and some event of T is followed by the fewest events of S.
LEMMA Extremes ==
    ASSUME NEW S, IsFiniteSet(S), \A e \in S : e.at \in Nat, NEW T \in SUBSET S, T # {}
    PROVE  /\ \E e \in T : \A x \in T : e.at <= x.at
           /\ \E e \in T : \A x \in T : ~(After(S, x.at) \subseteq After(S, e.at) /\ After(S, x.at) # After(S, e.at))
  <1> DEFINE prefixes == {Before(T, e.at) : e \in T}
             suffixes == {After(S, e.at) : e \in T}
  <1>1. IsWellFoundedOn(StrictSubsetOrdering(S), FiniteSubsetsOf(S))
    BY FS_StrictSubsetOrderingWellFounded
  <1>2. prefixes \subseteq FiniteSubsetsOf(S) /\ suffixes \subseteq FiniteSubsetsOf(S)
    <2>1. \A e \in T : Before(T, e.at) \in SUBSET S /\ After(S, e.at) \in SUBSET S
      BY DEF Before, After
    <2>2. \A U \in SUBSET S : IsFiniteSet(U)
      BY FS_Subset
    <2> QED
      BY <2>1, <2>2 DEF FiniteSubsetsOf
  <1>3. prefixes # {} /\ suffixes # {}
    OBVIOUS
  <1> HIDE DEF prefixes, suffixes
  <1>4. PICK U \in prefixes : \A W \in prefixes : ~(<<W, U>> \in StrictSubsetOrdering(S))
    BY <1>1, <1>2, <1>3, WFMin
  <1>5. PICK V \in suffixes : \A W \in suffixes : ~(<<W, V>> \in StrictSubsetOrdering(S))
    BY <1>1, <1>2, <1>3, WFMin
  <1>6. PICK e \in T : U = Before(T, e.at)
    BY DEF prefixes
  <1>7. ASSUME NEW x \in T
        PROVE  e.at <= x.at
    <2> SUFFICES ASSUME ~(e.at <= x.at)
                 PROVE  FALSE
      OBVIOUS
    <2>1. x.at \in Nat /\ e.at \in Nat /\ x.at < e.at
      OBVIOUS
    <2>2. Before(T, x.at) \subseteq U /\ x \in U /\ x \notin Before(T, x.at) /\ U \subseteq S
      BY <1>6, <2>1 DEF Before
    <2>3. Before(T, x.at) \in prefixes
      BY DEF prefixes
    <2>4. <<Before(T, x.at), U>> \in StrictSubsetOrdering(S)
      BY <2>2 DEF StrictSubsetOrdering
    <2> QED
      BY <1>4, <2>3, <2>4
  <1>8. PICK f \in T : V = After(S, f.at)
    BY DEF suffixes
  <1>9. ASSUME NEW x \in T
        PROVE  ~(After(S, x.at) \subseteq V /\ After(S, x.at) # V)
    <2>1. After(S, x.at) \in suffixes /\ After(S, x.at) \subseteq S /\ V \subseteq S
      BY <1>8 DEF suffixes, After
    <2> QED
      BY <1>5, <2>1 DEF StrictSubsetOrdering
  <1> QED
    BY <1>7, <1>8, <1>9

\* The time of the k-th event: fewer than k are earlier, at least k are not later.
LEMMA KthTimeExists ==
    ASSUME NEW S, IsFiniteSet(S), \A e \in S : e.at \in Nat, NEW k \in 1 .. Cardinality(S)
    PROVE  /\ KthTime(S, k) \in {e.at : e \in S}
           /\ Cardinality(Before(S, KthTime(S, k))) < k
           /\ k <= Cardinality(UpTo(S, KthTime(S, k)))
  <1> DEFINE T == {e \in S : Cardinality(Before(S, e.at)) < k}
  <1>0. Cardinality(S) \in Nat
    BY FS_CardinalityType
  <1>1. T # {}
    <2>1. S # {}
      BY <1>0, FS_EmptySet
    <2>2. PICK e \in S : \A x \in S : e.at <= x.at
      BY <2>1, Extremes
    <2>3. Before(S, e.at) = {}
      BY <2>2 DEF Before
    <2>4. Cardinality(Before(S, e.at)) = 0
      BY <2>3, FS_EmptySet
    <2> QED
      BY <2>4
  <1>2. PICK e \in T : \A x \in T : ~(After(S, x.at) \subseteq After(S, e.at) /\ After(S, x.at) # After(S, e.at))
    <2>1. T \in SUBSET S
      OBVIOUS
    <2> HIDE DEF T
    <2> QED
      BY <1>1, <2>1, Extremes
  <1>3. IsFiniteSet(UpTo(S, e.at)) /\ Cardinality(UpTo(S, e.at)) \in Nat
    <2>1. UpTo(S, e.at) \in SUBSET S
      BY DEF UpTo
    <2> QED
      BY <2>1, FS_Subset, FS_CardinalityType
  <1>4. k <= Cardinality(UpTo(S, e.at))
    <2> SUFFICES ASSUME Cardinality(UpTo(S, e.at)) < k
                 PROVE  FALSE
      BY <1>3
    <2>1. After(S, e.at) # {}
      <3> SUFFICES ASSUME After(S, e.at) = {}
                   PROVE  FALSE
        OBVIOUS
      <3>1. UpTo(S, e.at) = S
        BY DEF UpTo, After
      <3> QED
        BY <1>0, <3>1
    <2>2. PICK y \in After(S, e.at) : \A x \in After(S, e.at) : y.at <= x.at
      <3>1. After(S, e.at) \in SUBSET S
        BY DEF After
      <3> QED
        BY <2>1, <3>1, Extremes
    <2>3. y \in S /\ e.at \in Nat /\ y.at \in Nat /\ e.at < y.at
      BY DEF After
    <2>4. Before(S, y.at) = UpTo(S, e.at)
      BY <2>2, <2>3 DEF Before, UpTo, After
    <2>5. y \in T
      BY <2>3, <2>4
    <2>6. After(S, y.at) \subseteq After(S, e.at) /\ y \notin After(S, y.at)
      BY <2>3 DEF After
    <2> QED
      BY <1>2, <2>2, <2>5, <2>6
  <1>5. \E t \in {x.at : x \in S} : Cardinality(Before(S, t)) < k /\ k <= Cardinality(UpTo(S, t))
    BY <1>4
  <1> QED
    BY <1>5 DEF KthTime, Before, UpTo

\* What is on record happened by now.
OnRecordPast == AttemptsPast /\ \A j \in Jobs : submitted[j] <= clock

LEMMA PastInductive ==
    ASSUME TypeOK, OnRecordPast, [Next]_vars
    PROVE  OnRecordPast'
  <1> USE DEF OnRecordPast, AttemptsPast
  <1>1. ASSUME NEW j \in Jobs, NEW i \in DOMAIN job[j].request, Admit(j, i)
        PROVE  OnRecordPast'
    <2>1. Attempt(j, i).at = clock /\ clock \in Nat
      BY DEF Attempt, TypeOK
    <2> QED
      BY <1>1, <2>1 DEF Admit
  <1>2. ASSUME NEW j \in Jobs, RecordSubmission(j) \/ Fallback(j)
        PROVE  OnRecordPast'
    <2>1. clock' = clock /\ attempts' = attempts /\ 0 <= clock /\ clock \in Nat
      BY <1>2 DEF RecordSubmission, Fallback, TypeOK
    <2>2. \A k \in Jobs : submitted'[k] \in {submitted[k], clock, 0}
      BY <1>2 DEF RecordSubmission, Fallback, TypeOK
    <2> QED
      BY <2>1, <2>2
  <1>3. CASE Tick
    BY <1>3 DEF Tick, TypeOK, Rows
  <1> QED
    BY <1>1, <1>2, <1>3 DEF Next, vars, EditRules, End

\* What a rule would count later, if nothing else is attempted.
LEMMA CountedLater ==
    ASSUME TypeOK, OnRecordPast, NEW r, r.window \in Nat, NEW p, NEW t \in Nat, clock <= t
    PROVE  /\ Counted(r, p, t) = After(Counted(r, p, clock), t - r.window)
           /\ \A e \in Counted(r, p, clock) : e.at \in Nat /\ e.at > clock - r.window
  <1>1. \A e \in History(r.provider) : e.at \in Nat /\ e.at <= clock
    BY DEF History, Unattempted, TypeOK, Rows, OnRecordPast, AttemptsPast
  <1>2. clock \in Nat
    BY DEF TypeOK
  <1> QED
    BY <1>1, <1>2 DEF Counted, After

(***************************************************************************)
(* The eligible time of a deferred request (projectConfiguredRateLimit) is *)
(* the first at which its rule admits it, for all rules and records.       *)
(***************************************************************************)
THEOREM EligibleExactly == Spec => []EligibleAtExact
  <1> DEFINE Inv == TypeOK /\ IsFiniteSet(attempts) /\ OnRecordPast
  <1>1. ASSUME Inv
        PROVE  EligibleAtExact
    <2> SUFFICES ASSUME NEW r \in rules, NEW p \in Profiles, NEW units \in 1 .. 2,
                        Overflow(r, p, units, clock) > 0, units <= r.max
                 PROVE  /\ EligibleAt(r, p, units, clock) > clock
                        /\ Overflow(r, p, units, EligibleAt(r, p, units, clock)) <= 0
                        /\ \A t \in clock .. EligibleAt(r, p, units, clock) - 1 : Overflow(r, p, units, t) > 0
      BY DEF EligibleAtExact
    <2> DEFINE S == Counted(r, p, clock)
               k == Overflow(r, p, units, clock)
               time == KthTime(S, k)
               at == EligibleAt(r, p, units, clock)
    <2>1. r.max \in Nat /\ r.window \in Nat /\ clock \in Nat
      BY <1>1, RulesAssumption DEF TypeOK
    <2>2. IsFiniteSet(S) /\ Cardinality(S) \in Nat
      BY <1>1, CountedFinite, FS_CardinalityType
    <2>3. k = Cardinality(S) + units - r.max /\ k \in 1 .. Cardinality(S)
      BY <2>1, <2>2 DEF Overflow
    <2>4. \A e \in S : e.at \in Nat /\ e.at > clock - r.window
      BY <1>1, <2>1, CountedLater
    <2>5. at = time + r.window
      BY DEF EligibleAt
    <2> HIDE DEF k, at
    <2>6. /\ time \in {e.at : e \in S}
          /\ Cardinality(Before(S, time)) < k
          /\ k <= Cardinality(UpTo(S, time))
      <3> HIDE DEF S
      <3> QED
        BY <2>2, <2>3, <2>4, KthTimeExists
    <2>7. time \in Nat /\ time > clock - r.window
      <3> HIDE DEF S
      <3> QED
        BY <2>4, <2>6
    <2> HIDE DEF time
    <2>8. at \in Nat /\ at > clock
      BY <2>1, <2>5, <2>7
    <2>9. \A t \in Nat : clock <= t => Counted(r, p, t) = After(S, t - r.window)
      BY <1>1, <2>1, CountedLater
    <2> HIDE DEF S
    \* What is left of a finite set when a part of it is gone.
    <2>10. ASSUME NEW U \in SUBSET S
           PROVE  /\ Cardinality(S \ U) = Cardinality(S) - Cardinality(U)
                  /\ IsFiniteSet(S \ U) /\ Cardinality(U) \in Nat /\ Cardinality(S \ U) \in Nat
      <3>1. S \cap U = U
        OBVIOUS
      <3>2. Cardinality(S \ U) = Cardinality(S) - Cardinality(S \cap U) /\ IsFiniteSet(S \ U)
        BY <2>2, FS_Difference
      <3>3. IsFiniteSet(U)
        BY <2>2, FS_Subset
      <3> QED
        BY <3>1, <3>2, <3>3, FS_CardinalityType
    <2>11. Overflow(r, p, units, at) <= 0
      <3>1. Counted(r, p, at) = After(S, time)
        <4>1. at - r.window = time
          BY <2>1, <2>5, <2>7
        <4> QED
          BY <2>1, <2>8, <2>9, <4>1
      <3>2. After(S, time) = S \ UpTo(S, time) /\ UpTo(S, time) \in SUBSET S
        BY <2>4, <2>7 DEF After, UpTo
      <3>3. Cardinality(Counted(r, p, at)) = Cardinality(S) - Cardinality(UpTo(S, time))
        BY <2>10, <3>1, <3>2
      <3>4. Cardinality(UpTo(S, time)) \in Nat
        BY <2>10, <3>2
      <3> QED
        BY <2>1, <2>2, <2>3, <2>6, <3>3, <3>4 DEF Overflow
    <2>12. ASSUME NEW t \in clock .. at - 1
           PROVE  Overflow(r, p, units, t) > 0
      <3>1. t \in Nat /\ clock <= t /\ t - r.window < time
        BY <2>1, <2>5, <2>7, <2>8
      <3>2. Counted(r, p, t) = After(S, t - r.window)
        BY <2>9, <3>1
      <3>3. S \ Before(S, time) \subseteq After(S, t - r.window) /\ Before(S, time) \in SUBSET S
        BY <2>1, <2>4, <2>7, <3>1 DEF After, Before
      <3>4. After(S, t - r.window) \in SUBSET S
        BY DEF After
      <3>5. IsFiniteSet(After(S, t - r.window)) /\ Cardinality(After(S, t - r.window)) \in Nat
        BY <2>2, <3>4, FS_Subset, FS_CardinalityType
      <3>6. Cardinality(S \ Before(S, time)) <= Cardinality(After(S, t - r.window))
        BY <3>3, <3>5, FS_Subset
      <3>7. /\ Cardinality(S \ Before(S, time)) = Cardinality(S) - Cardinality(Before(S, time))
            /\ Cardinality(Before(S, time)) \in Nat
        BY <2>10, <3>3
      <3> QED
        BY <2>1, <2>2, <2>3, <2>6, <3>2, <3>5, <3>6, <3>7 DEF Overflow
    <2> QED
      BY <2>8, <2>11, <2>12 DEF at
  <1>2. Inv /\ [Next]_vars => Inv'
    <2> SUFFICES ASSUME Inv, [Next]_vars
                 PROVE  Inv'
      OBVIOUS
    <2>1. IsFiniteSet(attempts')
      BY FS_AddElement DEF Next, vars, Tick, EditRules, Admit, RecordSubmission, Fallback, End
    <2> QED
      BY <2>1, TypeInductive, PastInductive
  <1>3. Init => Inv
    BY TypeInitial, FS_EmptySet DEF Init, OnRecordPast, AttemptsPast
  <1> QED
    BY <1>1, <1>2, <1>3, PTL DEF Spec

=============================================================================
