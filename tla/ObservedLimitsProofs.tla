-------------------------- MODULE ObservedLimitsProofs --------------------------
(***************************************************************************)
(* Proofs that observed limits hold and that deferrals are justified, for  *)
(* any jobs, providers, spans and time.                                    *)
(*                                                                         *)
(* The scan is a fold over the rows, so the proofs first establish that    *)
(* the recursive function behind a fold exists (FoldExists) and that what  *)
(* is kept when an element is taken out holds of a whole finite set        *)
(* (RemovalInduction); then what the rows have to do with what was shown   *)
(* (LInv); and last, by those, what the scan finds (ScanFinds).            *)
(***************************************************************************)
EXTENDS ObservedLimits, FiniteSetTheorems, WellFoundedInduction, TLAPS

-----------------------------------------------------------------------------
(* Folds.  Sets are taken apart element by element.                        *)

\* What holds of {}, and of a set when it holds of the set without one of its elements.
LEMMA RemovalInduction ==
    ASSUME NEW S, IsFiniteSet(S), NEW Q, {} \in Q,
           \A U \in SUBSET S : U # {} => \E x \in U : U \ {x} \in Q => U \in Q
    PROVE  \A U \in SUBSET S : U \in Q
<1> DEFINE bad == {U \in SUBSET S : U \notin Q}
<1> SUFFICES ASSUME bad # {} PROVE FALSE
  OBVIOUS
<1>1. IsWellFoundedOn(StrictSubsetOrdering(S), FiniteSubsetsOf(S))
  BY FS_StrictSubsetOrderingWellFounded
<1>2. bad \subseteq FiniteSubsetsOf(S)
  BY FS_FiniteSubsetsOfFinite
<1> HIDE DEF bad
<1>3. PICK U \in bad : \A W \in bad : ~(<<W, U>> \in StrictSubsetOrdering(S))
  BY <1>1, <1>2, WFMin
<1>4. U \in SUBSET S /\ U \notin Q /\ U # {}
  BY <1>3 DEF bad
<1>5. PICK x \in U : U \ {x} \in Q => U \in Q
  BY <1>4
<1>6. U \ {x} \in bad
  BY <1>4, <1>5 DEF bad
<1>7. <<U \ {x}, U>> \in StrictSubsetOrdering(S)
  BY <1>4, <1>5 DEF StrictSubsetOrdering
<1> QED BY <1>3, <1>6, <1>7

Picks(pick, S) == \A U \in SUBSET S : U # {} => pick[U] \in U
Steps(step, S, V) == \A x \in S, w \in V : step[x][w] \in V
FoldsBy(h, S, base, pick, step) ==
    \A U \in SUBSET S : h[U] = IF U = {} THEN base ELSE step[pick[U]][h[U \ {pick[U]}]]

\* There is a function that takes `pick` out of a set and goes on with the rest.
LEMMA FoldExists ==
    ASSUME NEW S, IsFiniteSet(S), NEW V, NEW base \in V, NEW pick, NEW step,
           Picks(pick, S), Steps(step, S, V)
    PROVE  \E h \in [SUBSET S -> V] : FoldsBy(h, S, base, pick, step)
<1> USE DEF Picks, Steps
<1> DEFINE Small(n) == {U \in SUBSET S : Cardinality(U) <= n}
           Folds(h, n) == \A U \in Small(n) :
               h[U] = IF U = {} THEN base ELSE step[pick[U]][h[U \ {pick[U]}]]
           bad == {n \in Nat : ~\E h \in [Small(n) -> V] : Folds(h, n)}
<1>1. \A U \in SUBSET S : /\ IsFiniteSet(U) /\ Cardinality(U) \in Nat /\ (Cardinality(U) = 0 <=> U = {})
                          /\ \A x \in U : Cardinality(U \ {x}) = Cardinality(U) - 1
  BY FS_Subset, FS_CardinalityType, FS_EmptySet, FS_RemoveElement
<1>2. 0 \notin bad
  <2>1. Small(0) = {{}}
    <3>1. {} \in SUBSET S
      OBVIOUS
    <3>2. Cardinality({}) = 0
      BY <1>1, <3>1
    <3>3. \A U \in Small(0) : U = {}
      BY <1>1
    <3>4. {} \in Small(0)
      BY <3>1, <3>2
    <3> HIDE DEF Small
    <3> QED BY <3>3, <3>4
  <2>2. [U \in Small(0) |-> base] \in [Small(0) -> V] /\ Folds([U \in Small(0) |-> base], 0)
    BY <2>1
  <2> QED BY <2>2
<1>3. ASSUME NEW n \in Nat, n \notin bad PROVE n + 1 \notin bad
  <2>1. PICK h \in [Small(n) -> V] : Folds(h, n)
    BY <1>3
  <2> DEFINE g == [U \in Small(n + 1) |->
                      IF U = {} THEN base ELSE step[pick[U]][h[U \ {pick[U]}]]]
  <2>2. \A U \in Small(n + 1) : U # {} => U \ {pick[U]} \in Small(n) /\ pick[U] \in S
    <3> SUFFICES ASSUME NEW U \in Small(n + 1), U # {}
                 PROVE  U \ {pick[U]} \in Small(n) /\ pick[U] \in S
      OBVIOUS
    <3>1. U \in SUBSET S /\ pick[U] \in U /\ U \ {pick[U]} \in SUBSET S
      OBVIOUS
    <3>2. Cardinality(U) \in Nat /\ Cardinality(U) <= n + 1
          /\ Cardinality(U \ {pick[U]}) = Cardinality(U) - 1
      BY <1>1, <3>1
    <3> QED BY <3>1, <3>2
  <2>3. g \in [Small(n + 1) -> V]
    BY <2>2
  <2>4. \A U \in Small(n) : U \in Small(n + 1) /\ g[U] = h[U]
    <3>1. \A U \in Small(n) : U \in Small(n + 1)
      BY <1>1
    <3> QED BY <2>1, <3>1
  <2>5. Folds(g, n + 1)
    BY <2>2, <2>4
  <2> QED BY <2>3, <2>5
<1>4. bad = {}
  <2> SUFFICES ASSUME bad # {} PROVE FALSE
    OBVIOUS
  <2> HIDE DEF bad
  <2>1. bad \subseteq Nat
    BY DEF bad
  <2>2. PICK n \in bad : \A m \in bad : ~(<<m, n>> \in OpToRel(<, Nat))
    BY <2>1, NatLessThanWellFounded, WFMin
  <2>3. n \in Nat /\ n # 0 /\ n - 1 \in Nat /\ n = (n - 1) + 1
    BY <1>2, <2>1
  <2>4. n - 1 \in bad
    BY <1>3, <2>3
  <2>5. <<n - 1, n>> \in OpToRel(<, Nat)
    BY <2>3 DEF OpToRel
  <2> QED BY <2>2, <2>4, <2>5
<1>5. Cardinality(S) \in Nat /\ Small(Cardinality(S)) = SUBSET S
  BY FS_CardinalityType, FS_Subset
<1>6. PICK h \in [Small(Cardinality(S)) -> V] : Folds(h, Cardinality(S))
  BY <1>4, <1>5
<1> QED BY <1>5, <1>6 DEF FoldsBy

-----------------------------------------------------------------------------
(* The observations of one row.                                            *)

\* A set of positions in a sequence has a last one.
LEMMA MaxExists ==
    ASSUME NEW n \in Nat
    PROVE  \A U \in SUBSET (1..n) : U # {} => /\ Max(U) \in U
                                              /\ \A x \in U : x <= Max(U)
<1> DEFINE D == 1..n
           Q == {U \in SUBSET D : U # {} => \E x \in U : \A y \in U : x >= y}
<1>1. \A U \in SUBSET D : U # {} => \E x \in U : U \ {x} \in Q => U \in Q
  <2> SUFFICES ASSUME NEW U \in SUBSET D, NEW x \in U, U \ {x} \in Q PROVE U \in Q
    OBVIOUS
  <2>1. CASE U \ {x} = {}
    <3>1. \A y \in U : y = x
      BY <2>1
    <3> QED BY <3>1
  <2>2. CASE U \ {x} # {}
    <3>1. PICK m \in U \ {x} : \A y \in U \ {x} : m >= y
      BY <2>2
    <3>2. m \in 1..n /\ x \in 1..n
      OBVIOUS
    <3>3. CASE m >= x
      BY <3>1, <3>3
    <3>4. CASE ~(m >= x)
      BY <3>1, <3>2, <3>4
    <3> QED BY <3>3, <3>4
  <2> QED BY <2>1, <2>2
<1>2. {} \in Q /\ IsFiniteSet(D)
  BY FS_Interval
<1> HIDE DEF Q, D
<1>3. \A U \in SUBSET D : U \in Q
  BY <1>1, <1>2, RemovalInduction
<1> QED
  <2> SUFFICES ASSUME NEW U \in SUBSET (1..n), U # {}
               PROVE  Max(U) \in U /\ \A x \in U : x <= Max(U)
    OBVIOUS
  <2>1. \E x \in U : \A y \in U : x >= y
    BY <1>3 DEF Q, D
  <2> QED BY <2>1 DEF Max

LatestOf(latest, C) == FoldLeft(Later, latest, C)

\* Later finds the latest of its candidates, unless what was there is as late.
LEMMA LatestFound ==
    ASSUME NEW L, \A l \in L : l.at \in Nat, NEW latest \in L, NEW C \in Seq(L)
    PROVE  /\ LatestOf(latest, C) \in L
           /\ LatestOf(latest, C).at >= latest.at
           /\ \A i \in DOMAIN C : LatestOf(latest, C).at >= C[i].at
<1> DEFINE D == DOMAIN C
           Scan(g) == [U \in SUBSET D |->
                          IF U = {} THEN latest ELSE Later(g[U \ {Max(U)}], C[Max(U)])]
           f == CHOOSE g : g = Scan(g)
<1>1. LatestOf(latest, C) = f[D]
  BY DEF LatestOf, FoldLeft, MapThenFoldSet
<1>2. D = 1..Len(C) /\ Len(C) \in Nat /\ IsFiniteSet(D) /\ \A i \in D : C[i] \in L
  BY FS_Interval
<1>3. \A U \in SUBSET D : U # {} => Max(U) \in U
  BY <1>2, MaxExists
<1>4. \A i \in D, l \in L :
        Later(l, C[i]) \in L /\ Later(l, C[i]).at >= l.at /\ Later(l, C[i]).at >= C[i].at
  BY <1>2 DEF Later
<1> HIDE DEF D
<1>5. \E g : g = Scan(g)
  <2> DEFINE pick == [U \in SUBSET D |-> Max(U)]
             step == [i \in D |-> [l \in L |-> Later(l, C[i])]]
  <2>1. /\ \A U \in SUBSET D : pick[U] = Max(U)
        /\ \A i \in D, l \in L : step[i][l] = Later(l, C[i])
    OBVIOUS
  <2> HIDE DEF pick, step
  <2>2. Picks(pick, D)
    BY <1>3, <2>1 DEF Picks
  <2>3. Steps(step, D, L)
    BY <1>4, <2>1 DEF Steps
  <2>4. PICK h \in [SUBSET D -> L] : FoldsBy(h, D, latest, pick, step)
    BY <1>2, <2>2, <2>3, FoldExists
  <2>5. \A U \in SUBSET D : h[U] = IF U = {} THEN latest ELSE Later(h[U \ {Max(U)}], C[Max(U)])
    BY <1>3, <2>1, <2>4, <2>2 DEF Picks, FoldsBy
  <2>6. h = Scan(h)
    BY <2>4, <2>5
  <2> QED BY <2>6
<1>6. f = Scan(f)
  BY <1>5
<1> HIDE DEF f
<1> DEFINE Q == {U \in SUBSET D : /\ f[U] \in L /\ f[U].at >= latest.at
                                  /\ \A i \in U : f[U].at >= C[i].at}
<1>7. {} \in Q
  <2>1. f[{}] = latest
    BY <1>6
  <2> QED BY <2>1
<1>8. \A U \in SUBSET D : U # {} => \E x \in U : U \ {x} \in Q => U \in Q
  <2> SUFFICES ASSUME NEW U \in SUBSET D, U # {}, U \ {Max(U)} \in Q PROVE U \in Q
    BY <1>3
  <2>1. f[U] = Later(f[U \ {Max(U)}], C[Max(U)]) /\ Max(U) \in D /\ Max(U) \in U
    BY <1>3, <1>6
  <2>2. /\ f[U] \in L /\ f[U].at >= f[U \ {Max(U)}].at /\ f[U].at >= C[Max(U)].at
        /\ f[U \ {Max(U)}] \in L
    BY <1>4, <2>1
  <2>3. f[U].at >= latest.at
    BY <2>2
  <2>4. ASSUME NEW i \in U PROVE f[U].at >= C[i].at
    <3>1. CASE i = Max(U)
      BY <2>2, <3>1
    <3>2. CASE i # Max(U)
      <4>1. f[U \ {Max(U)}].at >= C[i].at /\ C[i] \in L
        BY <1>2, <3>2
      <4> QED BY <2>2, <4>1
    <3> QED BY <3>1, <3>2
  <2> QED BY <2>2, <2>3, <2>4
<1> HIDE DEF Q
<1>9. D \in Q
  <2>1. \A U \in SUBSET D : U \in Q
    BY <1>2, <1>7, <1>8, RemovalInduction
  <2> QED BY <2>1
<1> QED BY <1>1, <1>9 DEF Q, D

-----------------------------------------------------------------------------
(* What the rows have to do with what was shown and answered.              *)

Served == Providers \union {CHOOSE v \in Providers : TRUE}
Attempts == [provider : Served, at : Nat, span : Nat]
Rows == [status : {"absent", "queued", "running", "succeeded", "failed", "canceled"},
         provider : Served, attempts : Seq(Attempts), error : [at : Nat, span : Nat],
         submitted : BOOLEAN, updated : Nat]

TypeOK ==
    /\ clock \in Nat \ {0}
    /\ row \in [Jobs -> Rows]
    /\ acting \subseteq {j \in Jobs : row[j].status = "running"}
    /\ seen \subseteq [provider : Served, at : Nat \ {0}, span : Nat \ {0}]
    /\ answered \subseteq [provider : Served, at : Nat]

\* What a row says was shown.
Carries(r, o) ==
    \/ \E i \in DOMAIN r.attempts : r.attempts[i] = o
    \/ /\ r.status = "failed" /\ r.error # None
       /\ o = [provider |-> r.provider, at |-> r.updated, span |-> r.error.span]

RowSound(j) ==
    /\ \A i \in DOMAIN row[j].attempts : row[j].attempts[i].span > 0 => row[j].attempts[i] \in seen
    /\ row[j].error # None =>
          /\ row[j].status = "failed"
          /\ [provider |-> row[j].provider, at |-> row[j].updated, span |-> row[j].error.span] \in seen
    /\ row[j].status = "succeeded" => [provider |-> row[j].provider, at |-> row[j].updated] \in answered

LInv ==
    /\ TypeOK
    /\ \A j \in Jobs : RowSound(j)
    /\ \A o \in seen : \E j \in Stored : Carries(row[j], o)

\* A step writes one row, and forgets nothing that it says.
LEMMA RowWritten ==
    ASSUME LInv, NEW j \in Jobs, NEW r \in Rows, row' = [row EXCEPT ![j] = r],
           TypeOK', RowSound(j)', r.status # "absent",
           seen \subseteq seen', answered \subseteq answered',
           \A o \in seen' \ seen : Carries(r, o),
           \A o \in seen : row[j].status # "absent" /\ Carries(row[j], o) => Carries(r, o)
    PROVE  LInv'
<1>1. /\ row'[j] = r /\ \A k \in Jobs \ {j} : row'[k] = row[k]
      /\ Stored' = Stored \union {j}
  BY DEF LInv, TypeOK, Stored
<1>2. \A k \in Jobs : RowSound(k)'
  BY <1>1 DEF LInv, RowSound
<1>3. ASSUME NEW o \in seen' PROVE \E k \in Stored' : Carries(row'[k], o)
  <2>1. CASE o \in seen
    <3>1. PICK k \in Stored : Carries(row[k], o)
      BY <2>1 DEF LInv
    <3>2. Carries(row'[k], o)
      BY <1>1, <2>1, <3>1 DEF Stored
    <3> QED BY <1>1, <3>1, <3>2
  <2>2. CASE o \notin seen
    BY <1>1, <2>2
  <2> QED BY <2>1, <2>2
<1> QED BY <1>2, <1>3 DEF LInv

-----------------------------------------------------------------------------
\* LInv is inductive.
LEMMA LimitsInit == Init => LInv
<1> SUFFICES ASSUME Init PROVE LInv
  OBVIOUS
<1>1. TypeOK
  BY DEF Init, TypeOK, Rows, Served, None, Attempts
<1> QED BY <1>1 DEF Init, LInv, RowSound, None

LEMMA LimitsNext == LInv /\ [Next]_vars => LInv'
<1> SUFFICES ASSUME LInv, [Next]_vars PROVE LInv'
  OBVIOUS
<1> USE DEF LInv
<1>0. \A j \in Jobs : /\ row[j] \in Rows /\ row[j].attempts \in Seq(Attempts) /\ row[j].provider \in Served
                      /\ RowSound(j)
  BY DEF TypeOK, Rows
<1>1. CASE UNCHANGED vars
  BY <1>1 DEF vars, TypeOK, RowSound, Stored, Carries
<1>2. CASE Tick
  BY <1>2 DEF Tick, TypeOK, RowSound, Stored, Carries
<1>3. ASSUME NEW j \in Jobs, NEW v \in Providers, Create(j, v) PROVE LInv'
  <2>1. Fresh(v) \in Rows
    BY DEF TypeOK, Fresh, Rows, None, Served
  <2>2. TypeOK'
    BY <1>3, <2>1 DEF Create, TypeOK
  <2>3. RowSound(j)'
    BY <1>3 DEF Create, TypeOK, RowSound, Fresh
  <2> QED BY <1>3, <2>1, <2>2, <2>3, RowWritten DEF Create, Fresh
<1>4. ASSUME NEW j \in Jobs, row[j].status \in Active, NEW s \in {"running", "failed", "canceled"},
             NEW b \in BOOLEAN,
             row' = [row EXCEPT ![j] = [@ EXCEPT !.status = s, !.submitted = b, !.updated = clock]],
             acting' \subseteq {k \in acting : k # j \/ s = "running"} \union {k \in {j} : s = "running"},
             UNCHANGED <<clock, seen, answered>>
      PROVE  LInv'
  <2> DEFINE q == [row[j] EXCEPT !.status = s, !.submitted = b, !.updated = clock]
  <2>1. q \in Rows /\ row' = [row EXCEPT ![j] = q]
    BY <1>4, <1>0 DEF TypeOK, Rows
  <2>2. row[j].error = None /\ row[j].status \notin {"failed", "succeeded", "absent"}
    BY <1>0, <1>4 DEF RowSound, Active
  <2>3. q.error = None /\ q.attempts = row[j].attempts /\ q.status = s
    BY <1>0, <2>2 DEF Rows
  <2> HIDE DEF q
  <2>4. row'[j] = q /\ \A k \in Jobs \ {j} : row'[k] = row[k]
    BY <2>1 DEF TypeOK
  <2>5. TypeOK'
    <3>1. \A k \in acting' : k \in Jobs /\ row'[k].status = "running"
      BY <1>4, <2>3, <2>4 DEF TypeOK
    <3> QED BY <1>4, <2>1, <3>1 DEF TypeOK
  <2>6. RowSound(j)'
    <3>1. /\ \A i \in DOMAIN q.attempts : q.attempts[i].span > 0 => q.attempts[i] \in seen'
          /\ q.error = None /\ q.status # "succeeded"
      BY <1>0, <1>4, <2>3 DEF RowSound
    <3> QED BY <2>4, <3>1 DEF RowSound
  <2>7. \A o \in seen : Carries(row[j], o) => Carries(q, o)
    BY <2>2, <2>3 DEF Carries
  <2> QED BY <1>4, <2>1, <2>2, <2>3, <2>5, <2>6, <2>7, RowWritten
<1>5. ASSUME NEW j \in Jobs, Take(j) \/ HandOff(j) \/ RecordSubmission(j) \/ Stop(j) PROVE LInv'
  <2>1. /\ row[j] \in Rows /\ row[j].submitted \in BOOLEAN
        /\ j \in acting => row[j].status = "running"
    BY <1>0 DEF TypeOK, Rows
  <2>2. CASE Take(j)
    <3>1. row' = [row EXCEPT ![j] = [@ EXCEPT !.status = "running", !.submitted = row[j].submitted,
                                              !.updated = clock]]
      BY <2>1, <2>2 DEF Take, TypeOK, Rows
    <3> QED BY <1>4, <2>1, <2>2, <3>1 DEF Take, Active
  <2>3. CASE HandOff(j)
    <3>1. row' = [row EXCEPT ![j] = [@ EXCEPT !.status = "running", !.submitted = row[j].submitted,
                                              !.updated = clock]]
      BY <2>1, <2>3 DEF HandOff, TypeOK, Rows
    <3> QED BY <1>4, <2>1, <2>3, <3>1 DEF HandOff, Active
  <2>4. CASE RecordSubmission(j)
    <3>1. row' = [row EXCEPT ![j] = [@ EXCEPT !.status = "running", !.submitted = TRUE,
                                              !.updated = clock]]
      BY <2>1, <2>4 DEF RecordSubmission, TypeOK, Rows
    <3> QED BY <1>4, <2>1, <2>4, <3>1 DEF RecordSubmission, Active
  <2>5. CASE Stop(j)
    <3>1. PICK s \in {"failed", "canceled"} : row' = [row EXCEPT ![j].status = s, ![j].updated = clock]
      BY <2>5 DEF Stop
    <3>2. row' = [row EXCEPT ![j] = [@ EXCEPT !.status = s, !.submitted = row[j].submitted,
                                              !.updated = clock]]
      BY <2>1, <3>1 DEF TypeOK, Rows
    <3> QED BY <1>4, <2>1, <2>5, <3>2 DEF Stop, Active
  <2> QED BY <1>5, <2>2, <2>3, <2>4, <2>5
<1>6. ASSUME NEW j \in Jobs, Admit(j) PROVE LInv'
  <2>1. TypeOK'
    BY <1>6 DEF Admit, TypeOK
  <2> QED BY <1>6, <2>1 DEF Admit, RowSound, Stored, Carries
<1>7. ASSUME NEW j \in Jobs, NEW v \in Providers, NEW span \in Spans \union {0}, Fallback(j, v, span)
      PROVE  LInv'
  <2> DEFINE t == [provider |-> row[j].provider, at |-> clock, span |-> span]
             q == [row[j] EXCEPT !.provider = v, !.submitted = FALSE, !.updated = clock,
                                 !.attempts = Append(@, t)]
  <2>1. t \in Attempts /\ span \in Nat /\ (span > 0 => t \in [provider : Served, at : Nat \ {0}, span : Nat \ {0}])
    BY <1>0, SpansAssumption DEF TypeOK, Attempts
  <2>2. seen' = seen \union (IF span > 0 THEN {t} ELSE {})
    BY <1>7 DEF Fallback, Shown
  <2>3. row' = [row EXCEPT ![j] = q] /\ row[j].status = "running" /\ row[j].error = None
    <3>1. row' = [row EXCEPT ![j] = q]
      BY <1>7 DEF Fallback
    <3>2. row[j].status = "running"
      BY <1>7 DEF Fallback
    <3> QED BY <1>0, <3>1, <3>2 DEF RowSound
  <2> HIDE DEF t
  <2>4. q \in Rows
    <3>1. Append(row[j].attempts, t) \in Seq(Attempts) /\ v \in Served /\ clock \in Nat
      BY <1>0, <2>1 DEF TypeOK, Served
    <3> QED BY <1>0, <3>1 DEF Rows
  <2>5. q.error = None /\ q.attempts = Append(row[j].attempts, t) /\ q.status = "running"
    BY <1>0, <2>3 DEF Rows
  <2> HIDE DEF q
  <2>6. row'[j] = q /\ \A k \in Jobs \ {j} : row'[k] = row[k]
    BY <2>3 DEF TypeOK
  <2>7. TypeOK'
    <3>1. \A k \in acting' : k \in Jobs /\ row'[k].status = "running"
      BY <1>7, <2>5, <2>6 DEF Fallback, TypeOK
    <3> QED BY <1>7, <2>1, <2>2, <2>3, <2>4, <3>1 DEF Fallback, TypeOK
  <2>8. /\ \A i \in DOMAIN row[j].attempts : i \in DOMAIN q.attempts /\ q.attempts[i] = row[j].attempts[i]
        /\ Len(row[j].attempts) + 1 \in DOMAIN q.attempts /\ q.attempts[Len(row[j].attempts) + 1] = t
        /\ \A i \in DOMAIN q.attempts : i \in DOMAIN row[j].attempts \/ q.attempts[i] = t
    BY <1>0, <2>1, <2>5
  <2>9. RowSound(j)'
    <3>1. \A i \in DOMAIN q.attempts : q.attempts[i].span > 0 => q.attempts[i] \in seen'
      <4>1. t.span = span
        BY DEF t
      <4> QED BY <1>0, <2>2, <2>8, <4>1 DEF RowSound
    <3> QED BY <2>5, <2>6, <3>1 DEF RowSound
  <2>10. /\ \A o \in seen : Carries(row[j], o) => Carries(q, o)
         /\ \A o \in seen' \ seen : Carries(q, o)
    BY <2>2, <2>3, <2>8 DEF Carries
  <2> QED BY <1>7, <2>2, <2>3, <2>4, <2>5, <2>7, <2>9, <2>10, RowWritten DEF Fallback
<1>8. ASSUME NEW j \in Jobs, NEW span \in Spans, FailLimited(j, span) PROVE LInv'
  <2> DEFINE o == [provider |-> row[j].provider, at |-> clock, span |-> span]
             q == [row[j] EXCEPT !.status = "failed", !.error = [at |-> clock, span |-> span],
                                 !.updated = clock]
  <2>1. o \in [provider : Served, at : Nat \ {0}, span : Nat \ {0}] /\ seen' = seen \union {o}
    BY <1>0, <1>8, SpansAssumption DEF FailLimited, TypeOK
  <2>2. row' = [row EXCEPT ![j] = q] /\ row[j].status = "running"
    BY <1>8 DEF FailLimited
  <2>3. q \in Rows
    BY <1>0, SpansAssumption DEF TypeOK, Rows
  <2>4. /\ q.error = [at |-> clock, span |-> span] /\ q.error.span = span /\ q.error # None
        /\ q.attempts = row[j].attempts /\ q.status = "failed"
        /\ q.provider = row[j].provider /\ q.updated = clock
    BY <1>0, SpansAssumption DEF TypeOK, Rows, None
  <2> HIDE DEF q
  <2>5. row'[j] = q /\ \A k \in Jobs \ {j} : row'[k] = row[k]
    BY <2>2 DEF TypeOK
  <2>6. TypeOK'
    <3>1. \A k \in acting' : k \in Jobs /\ row'[k].status = "running"
      BY <1>8, <2>5 DEF FailLimited, TypeOK
    <3> QED BY <1>8, <2>1, <2>2, <2>3, <3>1 DEF FailLimited, TypeOK
  <2>7. RowSound(j)'
    BY <1>0, <2>1, <2>4, <2>5 DEF RowSound
  <2>8. (\A x \in seen : Carries(row[j], x) => Carries(q, x)) /\ Carries(q, o)
    BY <2>2, <2>4 DEF Carries
  <2> QED BY <1>8, <2>1, <2>2, <2>3, <2>4, <2>6, <2>7, <2>8, RowWritten DEF FailLimited
<1>9. ASSUME NEW j \in Jobs, Succeed(j) PROVE LInv'
  <2> DEFINE q == [row[j] EXCEPT !.status = "succeeded", !.updated = clock]
  <2>1. row[j].status = "running" /\ row[j].error = None
    BY <1>0, <1>9 DEF Succeed, TypeOK, RowSound
  <2>2. q \in Rows /\ row' = [row EXCEPT ![j] = q]
    BY <1>0, <1>9 DEF Succeed, TypeOK, Rows
  <2>3. /\ q.error = None /\ q.attempts = row[j].attempts /\ q.status = "succeeded"
        /\ q.provider = row[j].provider /\ q.updated = clock
    BY <1>0, <2>1 DEF Rows
  <2> HIDE DEF q
  <2>4. row'[j] = q /\ \A k \in Jobs \ {j} : row'[k] = row[k]
    BY <2>2 DEF TypeOK
  <2>5. TypeOK'
    <3>1. \A k \in acting' : k \in Jobs /\ row'[k].status = "running"
      BY <1>9, <2>4 DEF Succeed, TypeOK
    <3>2. row' \in [Jobs -> Rows]
      BY <2>2 DEF TypeOK
    <3>3. answered' \subseteq [provider : Served, at : Nat]
      BY <1>0, <1>9 DEF Succeed, TypeOK
    <3> QED BY <1>9, <3>1, <3>2, <3>3 DEF Succeed, TypeOK
  <2>6. RowSound(j)'
    <3>1. /\ \A i \in DOMAIN q.attempts : q.attempts[i].span > 0 => q.attempts[i] \in seen'
          /\ q.error = None
          /\ [provider |-> q.provider, at |-> q.updated] \in answered'
      BY <1>0, <1>9, <2>3 DEF RowSound, Succeed
    <3> QED BY <2>3, <2>4, <3>1 DEF RowSound
  <2>7. \A o \in seen : Carries(row[j], o) => Carries(q, o)
    BY <2>1, <2>3 DEF Carries
  <2> QED BY <1>9, <2>2, <2>3, <2>5, <2>6, <2>7, RowWritten DEF Succeed
<1> QED BY <1>1, <1>2, <1>3, <1>5, <1>6, <1>7, <1>8, <1>9 DEF Next

-----------------------------------------------------------------------------
(* What the scan finds.                                                    *)

\* What can be found of provider v: nothing, or a limit that it showed.
Findings(v) == {None} \union {[at |-> o.at, span |-> o.span] : o \in {x \in seen : x.provider = v}}

LEMMA FindingsTyped ==
    ASSUME LInv, NEW v
    PROVE  \A l \in Findings(v) : l \in [at : Nat, span : Nat] /\ l.at \in Nat
BY DEF LInv, TypeOK, Findings, None

\* The candidates of a row were shown, and all that it carries is among them.
LEMMA CandidatesFound ==
    ASSUME LInv, NEW j \in Jobs, NEW v
    PROVE  /\ Candidates(row[j], v) \in Seq(Findings(v))
           /\ \A o \in seen : o.provider = v /\ Carries(row[j], o) =>
                  \E i \in DOMAIN Candidates(row[j], v) : Candidates(row[j], v)[i].at = o.at
<1> DEFINE told == [i \in DOMAIN row[j].attempts |-> Told(row[j].attempts[i], v)]
           own == IF row[j].provider = v /\ row[j].error # None
                  THEN [row[j].error EXCEPT !.at = row[j].updated] ELSE None
<1>0. /\ row[j] \in Rows /\ RowSound(j) /\ row[j].attempts \in Seq(Attempts)
      /\ row[j].error \in [at : Nat, span : Nat]
  BY DEF LInv, TypeOK, Rows
<1>1. \A i \in DOMAIN row[j].attempts : told[i] \in Findings(v)
  <2> SUFFICES ASSUME NEW i \in DOMAIN row[j].attempts PROVE told[i] \in Findings(v)
    OBVIOUS
  <2>1. CASE row[j].attempts[i].provider = v /\ row[j].attempts[i].span > 0
    BY <1>0, <2>1 DEF RowSound, Findings, Told
  <2>2. CASE ~(row[j].attempts[i].provider = v /\ row[j].attempts[i].span > 0)
    BY <2>2 DEF Findings, Told
  <2> QED BY <2>1, <2>2
<1>2. own \in Findings(v)
  <2>1. CASE row[j].provider = v /\ row[j].error # None
    <3> DEFINE o == [provider |-> row[j].provider, at |-> row[j].updated, span |-> row[j].error.span]
    <3>1. o \in seen /\ o.provider = v
      BY <1>0, <2>1 DEF RowSound
    <3>2. own = [at |-> o.at, span |-> o.span]
      BY <1>0, <2>1
    <3> HIDE DEF o, own
    <3> QED BY <3>1, <3>2 DEF Findings
  <2>2. CASE ~(row[j].provider = v /\ row[j].error # None)
    BY <2>2 DEF Findings
  <2> QED BY <2>1, <2>2
<1>3. Candidates(row[j], v) = told \o <<own>>
  BY DEF Candidates
<1>4. told \in Seq(Findings(v)) /\ Len(told) = Len(row[j].attempts) /\ DOMAIN told = DOMAIN row[j].attempts
  <2>1. DOMAIN row[j].attempts = 1..Len(row[j].attempts) /\ Len(row[j].attempts) \in Nat
    BY <1>0
  <2>2. told \in [1..Len(row[j].attempts) -> Findings(v)]
    BY <1>1, <2>1
  <2> HIDE DEF told
  <2> QED BY <2>1, <2>2
<1>5. ASSUME NEW o \in seen, o.provider = v, Carries(row[j], o)
      PROVE  (\E i \in DOMAIN told : told[i].at = o.at) \/ own.at = o.at
  <2>1. CASE \E i \in DOMAIN row[j].attempts : row[j].attempts[i] = o
    <3>1. o.span > 0
      BY DEF LInv, TypeOK
    <3> QED BY <1>5, <2>1, <3>1 DEF Told
  <2>2. CASE /\ row[j].error # None
             /\ o = [provider |-> row[j].provider, at |-> row[j].updated, span |-> row[j].error.span]
    BY <1>0, <1>5, <2>2
  <2> QED BY <1>5, <2>1, <2>2 DEF Carries
<1> HIDE DEF told, own
<1>6. /\ told \o <<own>> \in Seq(Findings(v))
      /\ \A i \in DOMAIN told : i \in DOMAIN (told \o <<own>>) /\ (told \o <<own>>)[i] = told[i]
      /\ Len(told) + 1 \in DOMAIN (told \o <<own>>) /\ (told \o <<own>>)[Len(told) + 1] = own
  BY <1>2, <1>4
<1> QED BY <1>3, <1>5, <1>6

\* Nothing that v showed, and no answer of v, is later.
Latest(T, v) ==
    /\ T \in Nat
    /\ \A o \in seen : o.provider = v => o.at <= T
    /\ \A s \in answered : s.provider = v => s.at <= T
Telling(j, v, T) == \E o \in seen : o.provider = v /\ o.at = T /\ Carries(row[j], o)

\* A visit keeps to what was shown, and neither passes over nor clears the latest.
LEMMA VisitFinds ==
    ASSUME LInv, NEW j \in Jobs, NEW v, NEW l \in Findings(v)
    PROVE  /\ Visit(l, row[j], v) \in Findings(v)
           /\ \A T : Latest(T, v) /\ (l.at = T \/ Telling(j, v, T)) => Visit(l, row[j], v).at = T
<1> DEFINE C == Candidates(row[j], v)
           found == LatestOf(l, C)
<1>1. found \in Findings(v) /\ found.at >= l.at /\ \A i \in DOMAIN C : found.at >= C[i].at
  <2>1. C \in Seq(Findings(v)) /\ \A x \in Findings(v) : x.at \in Nat
    BY CandidatesFound, FindingsTyped
  <2> HIDE DEF C
  <2> QED BY <2>1, LatestFound
<1>2. Visit(l, row[j], v) = IF Clears(row[j], v, found) THEN None ELSE found
  BY DEF Visit, LatestOf
<1>3. None \in Findings(v)
  BY DEF Findings
<1>4. ASSUME NEW T, Latest(T, v), l.at = T \/ Telling(j, v, T)
      PROVE  found.at = T /\ ~Clears(row[j], v, found)
  <2>1. found.at >= T
    <3>1. CASE Telling(j, v, T)
      <4>1. PICK i \in DOMAIN C : C[i].at = T
        BY <3>1, CandidatesFound DEF Telling
      <4> QED BY <1>1, <4>1
    <3> QED BY <1>1, <1>4, <3>1
  <2>2. found.at <= T /\ found.at \in Nat /\ T \in Nat
    <3>1. found.at \in Nat /\ T \in Nat
      BY <1>1, <1>4, FindingsTyped DEF Latest
    <3>2. CASE found = None
      BY <3>1, <3>2 DEF None
    <3>3. CASE found # None
      <4>1. PICK o \in seen : o.provider = v /\ found = [at |-> o.at, span |-> o.span]
        BY <1>1, <3>3 DEF Findings
      <4> HIDE DEF found
      <4> QED BY <1>4, <3>1, <4>1 DEF Latest
    <3> QED BY <3>1, <3>2, <3>3
  <2>3. row[j].status = "succeeded" /\ row[j].provider = v => row[j].updated <= T
    BY <1>4 DEF LInv, RowSound, Latest
  <2>4. row[j].updated \in Nat
    BY DEF LInv, TypeOK, Rows
  <2> HIDE DEF found
  <2> QED BY <2>1, <2>2, <2>3, <2>4 DEF Clears
<1> QED BY <1>1, <1>2, <1>3, <1>4

\* The rows are ordered: of some, one comes last.
LEMMA NewestExists ==
    ASSUME TypeOK
    PROVE  \A U \in SUBSET Jobs : U # {} => Newest(U) \in U
<1> DEFINE Q == {U \in SUBSET Jobs : U # {} => \E j \in U : \A i \in U \ {j} : Precedes(i, j)}
<1>0. \A j \in Jobs : j \in Nat /\ row[j].updated \in Nat
  BY JobsAssumption DEF TypeOK, Rows
<1>1. \A U \in SUBSET Jobs : U # {} => \E x \in U : U \ {x} \in Q => U \in Q
  <2> SUFFICES ASSUME NEW U \in SUBSET Jobs, NEW x \in U, U \ {x} \in Q PROVE U \in Q
    OBVIOUS
  <2>1. CASE U \ {x} = {}
    <3>1. \A i \in U \ {x} : Precedes(i, x)
      BY <2>1
    <3>2. \E j \in U : \A i \in U \ {j} : Precedes(i, j)
      BY <3>1
    <3> QED BY <3>2
  <2>2. CASE U \ {x} # {}
    <3>1. PICK m \in U \ {x} : \A i \in (U \ {x}) \ {m} : Precedes(i, m)
      BY <2>2
    <3>2. m \in Jobs /\ x \in Jobs /\ m # x
      OBVIOUS
    <3>3. CASE Precedes(m, x)
      <4>1. \A i \in U \ {x} : Precedes(i, x)
        BY <1>0, <3>1, <3>2, <3>3 DEF Precedes
      <4> QED BY <4>1
    <3>4. CASE ~Precedes(m, x)
      <4>1. Precedes(x, m)
        BY <1>0, <3>2, <3>4 DEF Precedes
      <4>2. \A i \in U \ {m} : Precedes(i, m)
        BY <3>1, <4>1
      <4> QED BY <3>2, <4>2
    <3> QED BY <3>3, <3>4
  <2> QED BY <2>1, <2>2
<1>2. {} \in Q
  OBVIOUS
<1> HIDE DEF Q
<1>3. \A U \in SUBSET Jobs : U \in Q
  BY <1>1, <1>2, JobsAssumption, RemovalInduction
<1> QED BY <1>3 DEF Q, Newest

(***************************************************************************)
(* The scan finds nothing that was not shown, and it finds the latest that *)
(* was shown and not disproved.                                            *)
(***************************************************************************)
LEMMA ScanFinds ==
    ASSUME LInv, NEW v
    PROVE  /\ Observed(v) \in Findings(v)
           /\ \A T : Latest(T, v) /\ (\E j \in Stored : Telling(j, v, T)) => Observed(v).at = T
<1> DEFINE Scan(g) == [U \in SUBSET Stored |-> IF U = {} THEN None
                          ELSE Visit(g[U \ {Newest(U)}], row[Newest(U)], v)]
           f == CHOOSE g : g = Scan(g)
<1>1. Observed(v) = f[Stored]
  BY DEF Observed, MapThenFoldSet
<1>2. Stored \subseteq Jobs /\ IsFiniteSet(Stored) /\ None \in Findings(v)
  BY JobsAssumption, FS_Subset DEF Stored, Findings
<1>3. \A U \in SUBSET Stored : U # {} => Newest(U) \in U
  BY <1>2, NewestExists DEF LInv
<1>4. \A j \in Stored, l \in Findings(v) : Visit(l, row[j], v) \in Findings(v)
  BY <1>2, VisitFinds
<1>5. \E g : g = Scan(g)
  <2> DEFINE pick == [U \in SUBSET Stored |-> Newest(U)]
             step == [j \in Stored |-> [l \in Findings(v) |-> Visit(l, row[j], v)]]
  <2>1. /\ \A U \in SUBSET Stored : pick[U] = Newest(U)
        /\ \A j \in Stored, l \in Findings(v) : step[j][l] = Visit(l, row[j], v)
    OBVIOUS
  <2> HIDE DEF pick, step
  <2>2. Picks(pick, Stored)
    BY <1>3, <2>1 DEF Picks
  <2>3. Steps(step, Stored, Findings(v))
    BY <1>4, <2>1 DEF Steps
  <2>4. PICK h \in [SUBSET Stored -> Findings(v)] : FoldsBy(h, Stored, None, pick, step)
    BY <1>2, <2>2, <2>3, FoldExists
  <2>5. \A U \in SUBSET Stored :
            h[U] = IF U = {} THEN None ELSE Visit(h[U \ {Newest(U)}], row[Newest(U)], v)
    BY <1>3, <2>1, <2>4 DEF FoldsBy
  <2>6. h = Scan(h)
    BY <2>4, <2>5
  <2> QED BY <2>6
<1>6. f = Scan(f)
  BY <1>5
<1> HIDE DEF f
<1> DEFINE Q == {U \in SUBSET Stored :
                    /\ f[U] \in Findings(v)
                    /\ \A T : Latest(T, v) /\ (\E j \in U : Telling(j, v, T)) => f[U].at = T}
<1>7. {} \in Q
  <2>1. f[{}] = None
    BY <1>6
  <2> QED BY <1>2, <2>1
<1>8. \A U \in SUBSET Stored : U # {} => \E x \in U : U \ {x} \in Q => U \in Q
  <2> SUFFICES ASSUME NEW U \in SUBSET Stored, U # {}, U \ {Newest(U)} \in Q PROVE U \in Q
    BY <1>3
  <2>1. f[U] = Visit(f[U \ {Newest(U)}], row[Newest(U)], v) /\ Newest(U) \in Jobs
    BY <1>2, <1>3, <1>6
  <2>2. f[U \ {Newest(U)}] \in Findings(v)
    OBVIOUS
  <2>3. ASSUME NEW T, Latest(T, v), NEW j \in U, Telling(j, v, T) PROVE f[U].at = T
    <3>1. CASE j = Newest(U)
      BY <2>1, <2>2, <2>3, <3>1, VisitFinds
    <3>2. CASE j # Newest(U)
      <4>1. f[U \ {Newest(U)}].at = T
        BY <2>3, <3>2
      <4> QED BY <2>1, <2>2, <2>3, <4>1, VisitFinds
    <3> QED BY <3>1, <3>2
  <2>4. f[U] \in Findings(v)
    BY <2>1, <2>2, VisitFinds
  <2> QED BY <2>3, <2>4
<1> HIDE DEF Q
<1>9. Stored \in Q
  <2>1. \A U \in SUBSET Stored : U \in Q
    BY <1>2, <1>7, <1>8, RemovalInduction
  <2> QED BY <2>1
<1> QED BY <1>1, <1>9 DEF Q

-----------------------------------------------------------------------------
LEMMA Justified == LInv => DeferralJustified
<1> SUFFICES ASSUME LInv, NEW v \in Providers, Deferred(v)
             PROVE  \E o \in seen : o.provider = v /\ o.at + o.span > clock
  BY DEF DeferralJustified
<1>1. Observed(v) \in Findings(v) /\ Observed(v).at + Observed(v).span > clock /\ clock \in Nat
  BY ScanFinds DEF Deferred, LInv, TypeOK
<1>2. Observed(v) # None
  BY <1>1 DEF None
<1> QED BY <1>1, <1>2 DEF Findings

LEMMA Holds == LInv => LimitHolds
<1> SUFFICES ASSUME LInv, NEW v \in Providers, NEW o \in Standing(v),
                    \A x \in Standing(v) : x.at + x.span > clock
             PROVE  Deferred(v)
  BY DEF LimitHolds
<1>1. o \in seen /\ o.provider = v /\ o.at \in Nat /\ Latest(o.at, v)
  BY DEF Standing, LInv, TypeOK, Latest
<1>2. PICK j \in Stored : Carries(row[j], o)
  BY <1>1 DEF LInv
<1>3. Observed(v) \in Findings(v) /\ Observed(v).at = o.at
  BY <1>1, <1>2, ScanFinds DEF Telling
<1>4. PICK x \in seen : /\ x.provider = v
                        /\ Observed(v).at = x.at /\ Observed(v).span = x.span
  <2>1. Observed(v).at # 0
    BY <1>1, <1>3 DEF LInv, TypeOK
  <2>2. Observed(v) # None
    BY <2>1 DEF None
  <2> QED BY <1>3, <2>2 DEF Findings
<1>5. x \in Standing(v)
  BY <1>1, <1>3, <1>4 DEF Latest, Standing
<1> QED BY <1>4, <1>5 DEF Deferred

LEMMA LimitsInvariant == Spec => []LInv
BY LimitsInit, LimitsNext, PTL DEF Spec

(***************************************************************************)
(* A limit a page showed keeps every job from that provider until it is    *)
(* over, however many jobs saw it, moved on with it or were written since. *)
(***************************************************************************)
THEOREM LimitsHold == Spec => []LimitHolds
BY LimitsInvariant, Holds, PTL

(***************************************************************************)
(* No job is kept from a provider without a limit that it showed and that  *)
(* is not over.                                                            *)
(***************************************************************************)
THEOREM DeferralsJustified == Spec => []DeferralJustified
BY LimitsInvariant, Justified, PTL
=============================================================================
