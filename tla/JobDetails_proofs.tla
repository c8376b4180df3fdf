-------------------------- MODULE JobDetails_proofs --------------------------
(***************************************************************************)
(* Proofs about JobDetails, for every set of exit codes and of names and   *)
(* any number of declared outcomes.  What states() declares is a recursive *)
(* function over the outcomes: that it exists, and what it holds, follow   *)
(* from the least outcome that would break them.                           *)
(***************************************************************************)
EXTENDS JobDetails, SequenceTheorems, WellFoundedInduction, TLAPS

-----------------------------------------------------------------------------
(* Induction over a set of naturals *)

\* A set of naturals that is not empty has a least member.
LEMMA LeastNatural ==
    ASSUME NEW T \in SUBSET Nat, T # {}
    PROVE  \E x \in T : \A y \in T : x <= y
<1> DEFINE Less == {ss \in Nat \X Nat : ss[1] < ss[2]}
<1>1. OpToRel(<, Nat) = Less
  BY Zenon DEF OpToRel
<1>2. IsWellFoundedOn(Less, Nat)
  BY <1>1, NatLessThanWellFounded, Zenon
<1>3. \A a, b \in Nat : a < b => <<a, b>> \in Less
  OBVIOUS
<1> HIDE DEF Less
<1>4. PICK x \in T : \A y \in T : ~(<<y, x>> \in Less)
  BY <1>2, WFMin, Zenon
<1>5. ASSUME NEW y \in T PROVE x <= y
  <2>1. ~(<<y, x>> \in Less)
    BY <1>4
  <2>2. ~(y < x)
    BY <1>3, <2>1, Zenon
  <2> QED
    BY <2>2
<1> QED
  BY <1>5

\* What holds of 0 and of the successor of each number it holds of, holds of all.
LEMMA SetInduction ==
    ASSUME NEW S, 0 \in S, \A n \in Nat : n \in S => n + 1 \in S
    PROVE  Nat \subseteq S
<1> SUFFICES ASSUME Nat \ S # {} PROVE FALSE
  OBVIOUS
<1>1. PICK n \in Nat \ S : \A y \in Nat \ S : n <= y
  BY LeastNatural
<1>2. n # 0 /\ n - 1 \in Nat /\ n - 1 + 1 = n
  BY <1>1
<1>3. n - 1 \in S
  BY <1>1, <1>2
<1> QED
  BY <1>1, <1>2, <1>3

-----------------------------------------------------------------------------
(* A dict *)

\* A dict maps keys to values, one each.
IsDict(d, K, V) ==
    /\ d \in Seq([key : K, value : V])
    /\ \A i, j \in DOMAIN d : d[i].key = d[j].key => i = j

\* dict[key] = value leaves a dict, whose entries are the one assigned and those
\* of the other keys.
LEMMA AssignEntries ==
    ASSUME NEW K, NEW V, NEW d, IsDict(d, K, V), NEW k \in K, NEW x \in V
    PROVE  /\ IsDict(Assign(d, k, x), K, V)
           /\ \E j \in DOMAIN Assign(d, k, x) : Assign(d, k, x)[j] = [key |-> k, value |-> x]
           /\ \A j \in DOMAIN Assign(d, k, x) :
                 \/ Assign(d, k, x)[j] = [key |-> k, value |-> x]
                 \/ j \in DOMAIN d /\ Assign(d, k, x)[j] = d[j]
           /\ \A i \in DOMAIN d : \E j \in DOMAIN Assign(d, k, x) : Assign(d, k, x)[j].key = d[i].key
<1> DEFINE Entry == [key : K, value : V]
           fresh == [key |-> k, value |-> x]
           a == Assign(d, k, x)
<1>1. d \in Seq(Entry) /\ Len(d) \in Nat /\ DOMAIN d = 1..Len(d) /\ fresh \in Entry
  BY DEF IsDict
<1>2. \A i \in DOMAIN d : d[i] \in Entry
  <2> HIDE DEF Entry, fresh, a
  <2> QED
    BY <1>1
<1>3. CASE \E i \in DOMAIN d : d[i].key = k
  <2>1. a = [i \in DOMAIN d |-> IF d[i].key = k THEN fresh ELSE d[i]]
    BY <1>3 DEF Assign
  <2>2. DOMAIN a = DOMAIN d /\ DOMAIN a = 1..Len(d)
    BY <1>1, <2>1
  <2>3. \A i \in DOMAIN d : d[i].key = k => a[i] = fresh
    BY <2>1
  <2>4. \A i \in DOMAIN d : d[i].key # k => a[i] = d[i]
    BY <2>1
  <2> HIDE DEF a
  <2>5. \A i \in DOMAIN a : a[i] \in Entry /\ a[i].key = d[i].key
    BY <1>1, <1>2, <2>2, <2>3, <2>4
  <2>6. a \in [1..Len(d) -> Entry]
    <3>1. a = [i \in DOMAIN a |-> a[i]]
      BY <2>1
    <3> QED
      BY <2>2, <2>5, <3>1
  <2>7. a \in Seq(Entry)
    BY <1>1, <2>6
  <2>8. IsDict(a, K, V)
    BY <2>2, <2>5, <2>7 DEF IsDict
  <2>9. \E j \in DOMAIN a : a[j] = fresh
    BY <1>3, <2>2, <2>3
  <2> QED
    BY <2>2, <2>3, <2>4, <2>5, <2>8, <2>9 DEF a
<1>4. CASE ~ \E i \in DOMAIN d : d[i].key = k
  <2>1. a = Append(d, fresh)
    BY <1>4 DEF Assign
  <2> HIDE DEF a
  <2>2. /\ a \in Seq(Entry) /\ Len(a) = Len(d) + 1 /\ DOMAIN a = 1..(Len(d) + 1)
        /\ a[Len(d) + 1] = fresh
        /\ \A i \in DOMAIN d : i \in DOMAIN a /\ i # Len(d) + 1 /\ a[i] = d[i]
    BY <1>1, <2>1
  <2>3. \A j \in DOMAIN a : j \in DOMAIN d \/ j = Len(d) + 1
    BY <1>1, <2>2
  <2>4. IsDict(a, K, V)
    BY <1>4, <2>2, <2>3 DEF IsDict
  <2>5. Len(d) + 1 \in DOMAIN a
    BY <1>1, <2>2
  <2> QED
    BY <2>2, <2>3, <2>4, <2>5 DEF a
<1> QED
  BY <1>3, <1>4

-----------------------------------------------------------------------------
(* The declared states *)

\* The states declared by an outcome and those before it.
DeclaredNext(f, outcomes, n) ==
    Assign(f[n - 1], outcomes[n].value.name, to_processing_state(outcomes[n].value))

\* The function that declared defines recursively, up to outcome m.
DeclaredUpTo(f, outcomes, m) ==
    f = [n \in 0..m |-> IF n = 0 THEN <<>> ELSE DeclaredNext(f, outcomes, n)]

LEMMA DeclaredExists ==
    ASSUME NEW outcomes
    PROVE  \A m \in Nat : \E f : DeclaredUpTo(f, outcomes, m)
<1> DEFINE S == {m \in Nat : \E f : DeclaredUpTo(f, outcomes, m)}
<1>1. 0 \in S
  <2> DEFINE f == [n \in 0..0 |-> <<>>]
  <2>1. \A n \in 0..0 : n = 0
    OBVIOUS
  <2>2. f = [n \in 0..0 |-> IF n = 0 THEN <<>> ELSE DeclaredNext(f, outcomes, n)]
    BY <2>1
  <2> HIDE DEF f
  <2> QED
    BY <2>2 DEF DeclaredUpTo
<1>2. ASSUME NEW m \in Nat, m \in S PROVE m + 1 \in S
  <2>1. PICK f : DeclaredUpTo(f, outcomes, m)
    BY <1>2
  <2> DEFINE g == [n \in 0..(m + 1) |-> IF n <= m THEN f[n] ELSE DeclaredNext(f, outcomes, n)]
  <2>2. \A n \in 0..m : n \in 0..(m + 1) /\ g[n] = f[n]
    OBVIOUS
  <2>3. g[m + 1] = DeclaredNext(f, outcomes, m + 1)
    OBVIOUS
  <2>4. f = [n \in 0..m |-> IF n = 0 THEN <<>> ELSE DeclaredNext(f, outcomes, n)]
    BY <2>1 DEF DeclaredUpTo
  <2>5. DOMAIN g = 0..(m + 1) /\ g = [n \in 0..(m + 1) |-> g[n]]
    OBVIOUS
  <2> HIDE DEF g
  <2>6. \A n \in 0..(m + 1) : n # 0 => DeclaredNext(g, outcomes, n) = DeclaredNext(f, outcomes, n)
    <3> SUFFICES ASSUME NEW n \in 0..(m + 1), n # 0
                 PROVE  DeclaredNext(g, outcomes, n) = DeclaredNext(f, outcomes, n)
      OBVIOUS
    <3>1. n - 1 \in 0..m
      OBVIOUS
    <3>2. g[n - 1] = f[n - 1]
      BY <2>2, <3>1
    <3> QED
      BY <3>2 DEF DeclaredNext
  <2>7. \A n \in 0..(m + 1) : g[n] = IF n = 0 THEN <<>> ELSE DeclaredNext(g, outcomes, n)
    <3> SUFFICES ASSUME NEW n \in 0..(m + 1)
                 PROVE  g[n] = IF n = 0 THEN <<>> ELSE DeclaredNext(g, outcomes, n)
      OBVIOUS
    <3>1. CASE n \in 0..m
      BY <2>2, <2>4, <2>6, <3>1
    <3>2. CASE n = m + 1
      BY <2>3, <2>6, <3>2
    <3> QED
      BY <3>1, <3>2
  <2>8. g = [n \in 0..(m + 1) |-> IF n = 0 THEN <<>> ELSE DeclaredNext(g, outcomes, n)]
    BY <2>5, <2>7
  <2> QED
    BY <2>8 DEF DeclaredUpTo
<1> HIDE DEF S
<1>3. Nat \subseteq S
  BY <1>1, <1>2, SetInduction
<1> QED
  BY <1>3 DEF S

\* What is declared by the outcomes is the last of a chain that starts with
\* nothing and assigns one outcome's state at a time.
LEMMA DeclaredChain ==
    ASSUME NEW outcomes, Len(outcomes) \in Nat
    PROVE  \E f : /\ f[0] = <<>>
                  /\ \A n \in 1..Len(outcomes) : f[n] = DeclaredNext(f, outcomes, n)
                  /\ declared(outcomes) = f[Len(outcomes)]
<1> DEFINE m == Len(outcomes)
           f == CHOOSE g : DeclaredUpTo(g, outcomes, m)
<1>1. DeclaredUpTo(f, outcomes, m)
  BY DeclaredExists
<1>2. declared(outcomes) = f[m]
  BY DEF declared, DeclaredUpTo, DeclaredNext
<1> HIDE DEF f
<1>3. /\ f[0] = <<>>
      /\ \A n \in 1..m : f[n] = DeclaredNext(f, outcomes, n)
  <2>1. f = [n \in 0..m |-> IF n = 0 THEN <<>> ELSE DeclaredNext(f, outcomes, n)]
    BY <1>1 DEF DeclaredUpTo
  <2>2. 0 \in 0..m /\ \A n \in 1..m : n \in 0..m /\ n # 0
    OBVIOUS
  <2> QED
    BY <2>1, <2>2
<1> QED
  BY <1>2, <1>3

\* What an outcome declares: a failure state of its name.
DeclaredState == [name : Names, dlq : BOOLEAN, kind : Kinds]
Taxonomy(outcomes) == IsDict(outcomes, Codes, ExitCodeOutcome)

LEMMA OutcomeState ==
    ASSUME NEW outcome \in ExitCodeOutcome
    PROVE  /\ to_processing_state(outcome) \in DeclaredState
           /\ to_processing_state(outcome).name = outcome.name
           /\ outcome.name \in Names
           /\ to_processing_state(outcome).kind \in {"RETRYABLE_FAILURE", "NONRETRYABLE_FAILURE"}
BY DEF ExitCodeOutcome, to_processing_state, DeclaredState, Kinds

LEMMA TaxonomyFacts ==
    ASSUME NEW outcomes, Taxonomy(outcomes)
    PROVE  /\ Len(outcomes) \in Nat /\ DOMAIN outcomes = 1..Len(outcomes)
           /\ \A i \in DOMAIN outcomes : outcomes[i].key \in Codes
                                         /\ outcomes[i].value \in ExitCodeOutcome
           /\ \A i, j \in DOMAIN outcomes : outcomes[i].key = outcomes[j].key => i = j
<1> DEFINE Entry == [key : Codes, value : ExitCodeOutcome]
<1>1. outcomes \in Seq(Entry)
  BY DEF Taxonomy, IsDict
<1>2. \A i \in DOMAIN outcomes : outcomes[i] \in Entry
  <2> HIDE DEF Entry
  <2> QED
    BY <1>1
<1> QED
  BY <1>1, <1>2 DEF Taxonomy, IsDict

\* The declared states are a dict by name: each entry is the state of an outcome
\* and the name of each outcome has one.
DeclaredBy(d, outcomes, n) ==
    /\ IsDict(d, Names, DeclaredState)
    /\ \A j \in DOMAIN d : \E i \in 1..n :
          d[j] = [key |-> outcomes[i].value.name,
                  value |-> to_processing_state(outcomes[i].value)]
    /\ \A i \in 1..n : \E j \in DOMAIN d : d[j].key = outcomes[i].value.name

LEMMA DeclaredStep ==
    ASSUME NEW outcomes, Taxonomy(outcomes), NEW d, NEW n \in Nat, n + 1 <= Len(outcomes),
           DeclaredBy(d, outcomes, n)
    PROVE  DeclaredBy(Assign(d, outcomes[n + 1].value.name,
                             to_processing_state(outcomes[n + 1].value)), outcomes, n + 1)
<1> DEFINE k == outcomes[n + 1].value.name
           x == to_processing_state(outcomes[n + 1].value)
           a == Assign(d, k, x)
<1>1. n + 1 \in DOMAIN outcomes
  BY TaxonomyFacts
<1>2. k \in Names /\ x \in DeclaredState
  BY <1>1, TaxonomyFacts, OutcomeState
<1>3. /\ IsDict(d, Names, DeclaredState)
      /\ \A j \in DOMAIN d : \E i \in 1..n :
            d[j] = [key |-> outcomes[i].value.name,
                    value |-> to_processing_state(outcomes[i].value)]
      /\ \A i \in 1..n : \E j \in DOMAIN d : d[j].key = outcomes[i].value.name
  BY DEF DeclaredBy
<1> HIDE DEF k, x
<1>4. /\ IsDict(a, Names, DeclaredState)
      /\ \E j \in DOMAIN a : a[j] = [key |-> k, value |-> x]
      /\ \A j \in DOMAIN a : 
            \/ a[j] = [key |-> k, value |-> x]
            \/ j \in DOMAIN d /\ a[j] = d[j]
      /\ \A i \in DOMAIN d : \E j \in DOMAIN a : a[j].key = d[i].key
  BY <1>2, <1>3, AssignEntries
<1> HIDE DEF a
<1>5. n + 1 \in 1..(n + 1) /\ \A i \in 1..n : i \in 1..(n + 1)
  OBVIOUS
<1>6. \A j \in DOMAIN a : \E i \in 1..(n + 1) :
         a[j] = [key |-> outcomes[i].value.name,
                 value |-> to_processing_state(outcomes[i].value)]
  <2> SUFFICES ASSUME NEW j \in DOMAIN a
               PROVE  \E i \in 1..(n + 1) :
                         a[j] = [key |-> outcomes[i].value.name,
                                 value |-> to_processing_state(outcomes[i].value)]
    OBVIOUS
  <2>1. CASE a[j] = [key |-> k, value |-> x]
    BY <1>5, <2>1 DEF k, x
  <2>2. CASE j \in DOMAIN d /\ a[j] = d[j]
    <3>1. PICK i \in 1..n : d[j] = [key |-> outcomes[i].value.name,
                                   value |-> to_processing_state(outcomes[i].value)]
      BY <1>3, <2>2
    <3> QED
      BY <1>5, <2>2, <3>1
  <2> QED
    BY <1>4, <2>1, <2>2
<1>7. \A i \in 1..(n + 1) : \E j \in DOMAIN a : a[j].key = outcomes[i].value.name
  <2> SUFFICES ASSUME NEW i \in 1..(n + 1)
               PROVE  \E j \in DOMAIN a : a[j].key = outcomes[i].value.name
    OBVIOUS
  <2>1. CASE i \in 1..n
    <3>1. PICK j \in DOMAIN d : d[j].key = outcomes[i].value.name
      BY <1>3, <2>1
    <3> QED
      BY <1>4, <3>1
  <2>2. CASE i = n + 1
    BY <1>4, <2>2 DEF k
  <2> QED
    BY <2>1, <2>2
<1> QED
  BY <1>4, <1>6, <1>7 DEF DeclaredBy, a, k, x

\* What declared returns for a taxonomy.
LEMMA DeclaredFacts ==
    ASSUME NEW outcomes, Taxonomy(outcomes)
    PROVE  DeclaredBy(declared(outcomes), outcomes, Len(outcomes))
<1> DEFINE m == Len(outcomes)
<1>1. m \in Nat
  BY TaxonomyFacts
<1>2. PICK f : /\ f[0] = <<>>
               /\ \A n \in 1..m : f[n] = DeclaredNext(f, outcomes, n)
               /\ declared(outcomes) = f[m]
  BY <1>1, DeclaredChain
<1> DEFINE S == {n \in Nat : n <= m => DeclaredBy(f[n], outcomes, n)}
<1> HIDE DEF m
<1>3. 0 \in S
  <2> DEFINE Entry == [key : Names, value : DeclaredState]
  <2>1. <<>> \in Seq(Entry) /\ DOMAIN <<>> = {} /\ 1..0 = {}
    <3> HIDE DEF Entry
    <3> QED
      OBVIOUS
  <2>2. DeclaredBy(<<>>, outcomes, 0)
    BY <2>1 DEF DeclaredBy, IsDict
  <2> QED
    BY <1>2, <2>2
<1>4. ASSUME NEW n \in Nat, n \in S PROVE n + 1 \in S
  <2> SUFFICES ASSUME n + 1 <= m PROVE DeclaredBy(f[n + 1], outcomes, n + 1)
    OBVIOUS
  <2>1. DeclaredBy(f[n], outcomes, n)
    BY <1>1, <1>4
  <2>2. n + 1 \in 1..m /\ n + 1 - 1 = n
    BY <1>1
  <2>3. f[n + 1] = Assign(f[n], outcomes[n + 1].value.name,
                          to_processing_state(outcomes[n + 1].value))
    BY <1>2, <2>2 DEF DeclaredNext
  <2> QED
    BY <2>1, <2>3, DeclaredStep DEF m
<1> HIDE DEF S
<1>5. m \in S
  BY <1>1, <1>3, <1>4, SetInduction
<1> QED
  BY <1>1, <1>2, <1>5 DEF S, m

\* What states() returns: the baseline states, then the declared ones.
LEMMA StatesFacts ==
    ASSUME NEW outcomes, Taxonomy(outcomes)
    PROVE  LET d == declared(outcomes)
               scanned == states(outcomes)
           IN  /\ Len(d) \in Nat /\ DOMAIN d = 1..Len(d)
               /\ DOMAIN scanned = 1..(4 + Len(d))
               /\ \A i \in 1..4 : scanned[i] = BASELINE_PROCESSING_STATES[i]
               /\ \A i \in 1..Len(d) : scanned[4 + i] = d[i].value
<1> DEFINE d == declared(outcomes)
           baseline == BASELINE_PROCESSING_STATES
           values == [i \in DOMAIN d |-> d[i].value]
<1>1. d \in Seq([key : Names, value : DeclaredState])
  BY DeclaredFacts DEF DeclaredBy, IsDict
<1>2. states(outcomes) = baseline \o values
  BY DEF states
<1> DEFINE U == {AWAITING, SUCCESS, FAILURE_RETRYABLE, FAILURE_NONRETRYABLE}
               \cup {d[i].value : i \in DOMAIN d}
<1>3. baseline \in Seq(U) /\ Len(baseline) = 4
  <2>1. {AWAITING, SUCCESS, FAILURE_RETRYABLE, FAILURE_NONRETRYABLE} \subseteq U
    OBVIOUS
  <2> HIDE DEF U
  <2> QED
    BY <2>1 DEF BASELINE_PROCESSING_STATES
<1> HIDE DEF d, baseline
<1>4. Len(d) \in Nat /\ DOMAIN d = 1..Len(d)
  BY <1>1
<1>5. values \in Seq(U) /\ Len(values) = Len(d)
  <2>1. values \in [1..Len(d) -> U]
    BY <1>4
  <2> HIDE DEF U, values
  <2> QED
    BY <1>4, <2>1
<1>6. \A i \in 1..Len(d) : values[i] = d[i].value
  BY <1>4
<1> HIDE DEF values, U
<1> DEFINE c == baseline \o values
<1>7. /\ c \in Seq(U)
      /\ Len(c) = Len(baseline) + Len(values)
      /\ \A i \in 1..(Len(baseline) + Len(values)) :
            c[i] = IF i <= Len(baseline) THEN baseline[i] ELSE values[i - Len(baseline)]
  <2>1. baseline \in Seq(U) /\ values \in Seq(U)
    BY <1>3, <1>5
  <2> HIDE DEF U, values
  <2> QED
    BY <2>1, ConcatProperties
<1> HIDE DEF c
<1>8. DOMAIN c = 1..(4 + Len(d))
  BY <1>3, <1>5, <1>7
<1>9. \A i \in 1..4 : c[i] = baseline[i]
  BY <1>3, <1>4, <1>5, <1>7
<1>10. \A i \in 1..Len(d) : c[4 + i] = values[i]
  BY <1>3, <1>4, <1>5, <1>7
<1> QED
  BY <1>2, <1>4, <1>6, <1>8, <1>9, <1>10 DEF c, d, baseline

-----------------------------------------------------------------------------
(* A classification *)

\* The outcomes of a code are those of the entries that have it.
LEMMA GetFacts ==
    ASSUME NEW outcomes, NEW code, NEW outcome \in get(outcomes, code)
    PROVE  \E i \in DOMAIN outcomes : outcomes[i].key = code /\ outcomes[i].value = outcome
BY DEF get

\* What classify returns for each status.
LEMMA ClassifyCases ==
    ASSUME NEW outcomes, NEW d \in Detail
    PROVE  LET matching == get(outcomes, Fallback(d.exitCode))
           IN  /\ d.status \in AWAITING_STATUSES => classify(d, outcomes) = AWAITING
               /\ d.status = "SUCCEEDED" => classify(d, outcomes) = SUCCESS
               /\ d.status = "FAILED" /\ matching # {} =>
                     classify(d, outcomes)
                        = to_processing_state(CHOOSE outcome \in matching : TRUE)
               /\ d.status = "FAILED" /\ matching = {} =>
                     classify(d, outcomes)
                        = IF Fallback(d.statusReason) = "spot"
                          THEN FAILURE_RETRYABLE ELSE FAILURE_NONRETRYABLE
               /\ \/ d.status \in AWAITING_STATUSES
                  \/ d.status \in {"SUCCEEDED", "FAILED"}
<1> DEFINE matching == get(outcomes, Fallback(d.exitCode))
           chosen == to_processing_state(CHOOSE outcome \in matching : TRUE)
           undeclared == IF Fallback(d.statusReason) = "spot"
                         THEN FAILURE_RETRYABLE ELSE FAILURE_NONRETRYABLE
<1>1. classify(d, outcomes)
        = CASE d.status \in AWAITING_STATUSES -> AWAITING
            [] d.status = "SUCCEEDED" -> SUCCESS
            [] d.status = "FAILED" /\ matching # {} -> chosen
            [] d.status = "FAILED" /\ matching = {} -> undeclared
  BY DEF classify
<1>2. d.status \in AWAITING_STATUSES \/ d.status \in {"SUCCEEDED", "FAILED"}
  BY DEF Detail, BATCH_EVENT_STATUSES, AWAITING_STATUSES
<1>3. "SUCCEEDED" \notin AWAITING_STATUSES /\ "FAILED" \notin AWAITING_STATUSES
  BY DEF AWAITING_STATUSES
<1> HIDE DEF matching, chosen, undeclared
<1>4. /\ d.status \in AWAITING_STATUSES => classify(d, outcomes) = AWAITING
      /\ d.status = "SUCCEEDED" => classify(d, outcomes) = SUCCESS
      /\ d.status = "FAILED" /\ matching # {} => classify(d, outcomes) = chosen
      /\ d.status = "FAILED" /\ matching = {} => classify(d, outcomes) = undeclared
  BY <1>1, <1>3
<1> QED
  BY <1>2, <1>4 DEF matching, chosen, undeclared

\* A classification is a baseline state or the state of a declared outcome.
LEMMA ClassifiedStates ==
    ASSUME NEW outcomes, Taxonomy(outcomes), NEW d \in Detail
    PROVE  \/ \E i \in 1..4 : classify(d, outcomes) = BASELINE_PROCESSING_STATES[i]
           \/ \E i \in DOMAIN outcomes :
                 classify(d, outcomes) = to_processing_state(outcomes[i].value)
<1> DEFINE matching == get(outcomes, Fallback(d.exitCode))
<1>1. /\ BASELINE_PROCESSING_STATES[1] = AWAITING
      /\ BASELINE_PROCESSING_STATES[2] = SUCCESS
      /\ BASELINE_PROCESSING_STATES[3] = FAILURE_RETRYABLE
      /\ BASELINE_PROCESSING_STATES[4] = FAILURE_NONRETRYABLE
      /\ 1 \in 1..4 /\ 2 \in 1..4 /\ 3 \in 1..4 /\ 4 \in 1..4
  BY DEF BASELINE_PROCESSING_STATES
<1>2. CASE d.status \in AWAITING_STATUSES \/ d.status = "SUCCEEDED"
  BY <1>1, <1>2, ClassifyCases
<1>3. CASE d.status = "FAILED" /\ matching = {}
  BY <1>1, <1>3, ClassifyCases
<1>4. CASE d.status = "FAILED" /\ matching # {}
  <2> DEFINE outcome == CHOOSE o \in matching : TRUE
  <2>1. classify(d, outcomes) = to_processing_state(outcome)
    BY <1>4, ClassifyCases
  <2>2. outcome \in matching
    BY <1>4
  <2> HIDE DEF outcome
  <2>3. \E i \in DOMAIN outcomes : outcomes[i].value = outcome
    BY <2>2, GetFacts
  <2> QED
    BY <2>1, <2>3
<1> QED
  BY <1>2, <1>3, <1>4, ClassifyCases

\* It is a processing state, by the name of a baseline state or of an outcome.
LEMMA ClassifiedType ==
    ASSUME NEW outcomes, Taxonomy(outcomes), NEW d \in Detail
    PROVE  /\ IsProcessingState(classify(d, outcomes))
           /\ classify(d, outcomes).name \in StateNames
<1>1. \A i \in 1..4 : /\ IsProcessingState(BASELINE_PROCESSING_STATES[i])
                      /\ BASELINE_PROCESSING_STATES[i].name \in StateNames
  <2> SUFFICES ASSUME NEW i \in 1..4
               PROVE  /\ IsProcessingState(BASELINE_PROCESSING_STATES[i])
                      /\ BASELINE_PROCESSING_STATES[i].name \in StateNames
    OBVIOUS
  <2>1. i = 1 \/ i = 2 \/ i = 3 \/ i = 4
    OBVIOUS
  <2>2. DOMAIN BASELINE_PROCESSING_STATES = 1..4
    BY DEF BASELINE_PROCESSING_STATES
  <2>3. /\ IsProcessingState(AWAITING) /\ IsProcessingState(SUCCESS)
        /\ IsProcessingState(FAILURE_RETRYABLE) /\ IsProcessingState(FAILURE_NONRETRYABLE)
    BY DEF IsProcessingState, Kinds, AWAITING, SUCCESS, FAILURE_RETRYABLE, FAILURE_NONRETRYABLE
  <2>5. IsProcessingState(BASELINE_PROCESSING_STATES[i])
    BY <2>1, <2>3 DEF BASELINE_PROCESSING_STATES
  <2>4. BASELINE_PROCESSING_STATES[i] \in ToSet(BASELINE_PROCESSING_STATES)
    BY <2>2 DEF ToSet
  <2> QED
    BY <2>4, <2>5 DEF StateNames
<1>2. ASSUME NEW i \in DOMAIN outcomes
      PROVE  /\ IsProcessingState(to_processing_state(outcomes[i].value))
             /\ to_processing_state(outcomes[i].value).name \in StateNames
  <2>1. outcomes[i].value \in ExitCodeOutcome
    BY TaxonomyFacts
  <2>2. to_processing_state(outcomes[i].value) \in DeclaredState
    BY <2>1, OutcomeState
  <2> QED
    BY <2>2 DEF DeclaredState, IsProcessingState, StateNames
<1> QED
  BY <1>1, <1>2, ClassifiedStates

-----------------------------------------------------------------------------
(* The inductive invariant *)

\* Between events nothing is classified; of the event at hand, the state is what
\* classify returns under the taxonomy as it is deployed.
IInv ==
    /\ TypeOK
    /\ detail = NoDetail => state = NoState
    /\ detail # NoDetail => detail \in Detail /\ state = classify(detail, by_exit_code)

LEMMA TypeGivesTaxonomy == TypeOK => Taxonomy(by_exit_code)
BY DEF TypeOK, Taxonomy, IsDict

LEMMA InvInit == Init => IInv
<1> SUFFICES ASSUME Init PROVE IInv
  OBVIOUS
<1> DEFINE Entry == [key : Codes, value : ExitCodeOutcome]
<1>1. <<>> \in Seq(Entry) /\ DOMAIN <<>> = {}
  <2> HIDE DEF Entry
  <2> QED
    OBVIOUS
<1>2. 0 \in 0..MaxAdds
  BY AddsAssumption
<1> QED
  BY <1>1, <1>2 DEF Init, IInv, TypeOK

LEMMA InvStep == IInv /\ [Next]_vars => IInv'
<1> SUFFICES ASSUME IInv, [Next]_vars PROVE IInv'
  OBVIOUS
<1>1. Taxonomy(by_exit_code) /\ TypeOK
  BY TypeGivesTaxonomy DEF IInv
<1>2. CASE EndInvocation
  BY <1>2 DEF EndInvocation, IInv, TypeOK
<1>3. ASSUME NEW code \in Codes, NEW outcome \in ExitCodeOutcome, Add(code, outcome) PROVE IInv'
  <2>1. IsDict(Assign(by_exit_code, code, outcome), Codes, ExitCodeOutcome)
    BY <1>1, AssignEntries DEF Taxonomy
  <2>2. by_exit_code' = Assign(by_exit_code, code, outcome)
    BY <1>3 DEF Add
  <2>3. /\ by_exit_code' \in Seq([key : Codes, value : ExitCodeOutcome])
        /\ \A i, j \in DOMAIN by_exit_code' : by_exit_code'[i].key = by_exit_code'[j].key => i = j
    BY <2>1, <2>2, Zenon DEF IsDict
  <2>4. adds' \in 0..MaxAdds
    BY <1>1, <1>3, AddsAssumption DEF Add, TypeOK
  <2>5. detail = NoDetail /\ state = NoState /\ detail' = detail /\ state' = state
    BY <1>3 DEF Add, IInv
  <2> QED
    BY <2>3, <2>4, <2>5 DEF IInv, TypeOK
<1>4. ASSUME NEW d \in Detail, Classify(d) PROVE IInv'
  <2>1. /\ detail' = d /\ state' = classify(d, by_exit_code)
        /\ by_exit_code' = by_exit_code /\ adds' = adds
    BY <1>4 DEF Classify
  <2>2. d # NoDetail
    BY DEF Detail, NoDetail, BATCH_EVENT_STATUSES, None
  <2>3. IsProcessingState(state') /\ state'.name \in StateNames
    BY <1>1, <2>1, ClassifiedType
  <2>4. TypeOK'
    BY <1>1, <2>1, <2>3 DEF TypeOK
  <2> QED
    BY <2>1, <2>2, <2>4 DEF IInv
<1>5. CASE UNCHANGED vars
  BY <1>5 DEF vars, IInv, TypeOK
<1> QED
  BY <1>2, <1>3, <1>4, <1>5 DEF Next

\* A taxonomy maps each of its exit codes to one outcome, and a classification is
\* a processing state.
THEOREM TypeCorrect == Spec => []TypeOK
<1>1. IInv => TypeOK
  BY DEF IInv
<1> QED
  BY <1>1, InvInit, InvStep, PTL DEF Spec

\* The state an invocation goes on with is what classify returns for its event.
LEMMA InvariantHolds == Spec => []IInv
BY InvInit, InvStep, PTL DEF Spec

-----------------------------------------------------------------------------
(* What a later event scans *)

\* The states scanned are the baseline states and, for each outcome, one of its
\* name that is the state of some outcome.
LEMMA ScannedStates ==
    ASSUME NEW outcomes, Taxonomy(outcomes)
    PROVE  /\ \A i \in 1..4 : BASELINE_PROCESSING_STATES[i] \in ToSet(states(outcomes))
           /\ \A i \in DOMAIN outcomes : \E k \in DOMAIN outcomes :
                 /\ outcomes[k].value.name = outcomes[i].value.name
                 /\ to_processing_state(outcomes[k].value) \in ToSet(states(outcomes))
<1> DEFINE d == declared(outcomes)
           scanned == states(outcomes)
<1>1. /\ Len(d) \in Nat /\ DOMAIN d = 1..Len(d)
      /\ DOMAIN scanned = 1..(4 + Len(d))
      /\ \A i \in 1..4 : scanned[i] = BASELINE_PROCESSING_STATES[i]
      /\ \A i \in 1..Len(d) : scanned[4 + i] = d[i].value
  BY StatesFacts
<1>2. /\ \A j \in DOMAIN d : \E i \in 1..Len(outcomes) :
            d[j] = [key |-> outcomes[i].value.name,
                    value |-> to_processing_state(outcomes[i].value)]
      /\ \A i \in 1..Len(outcomes) : \E j \in DOMAIN d : d[j].key = outcomes[i].value.name
  BY DeclaredFacts DEF DeclaredBy
<1>3. DOMAIN outcomes = 1..Len(outcomes)
  BY TaxonomyFacts
<1>4. \A i \in DOMAIN scanned : scanned[i] \in ToSet(scanned)
  BY DEF ToSet
<1> HIDE DEF d, scanned
<1>5. \A i \in 1..4 : BASELINE_PROCESSING_STATES[i] \in ToSet(scanned)
  <2>1. \A i \in 1..4 : i \in DOMAIN scanned
    BY <1>1
  <2> QED
    BY <1>1, <1>4, <2>1
<1>6. ASSUME NEW i \in DOMAIN outcomes
      PROVE  \E k \in DOMAIN outcomes :
                 /\ outcomes[k].value.name = outcomes[i].value.name
                 /\ to_processing_state(outcomes[k].value) \in ToSet(scanned)
  <2>1. PICK j \in DOMAIN d : d[j].key = outcomes[i].value.name
    BY <1>2, <1>3
  <2>2. PICK k \in DOMAIN outcomes :
           d[j] = [key |-> outcomes[k].value.name,
                   value |-> to_processing_state(outcomes[k].value)]
    BY <1>2, <1>3
  <2>3. 4 + j \in DOMAIN scanned /\ scanned[4 + j] = d[j].value
    BY <1>1
  <2>4. /\ outcomes[k].value.name = outcomes[i].value.name
        /\ to_processing_state(outcomes[k].value) = scanned[4 + j]
    BY <2>1, <2>2, <2>3
  <2> QED
    BY <1>4, <2>3, <2>4
<1> QED
  BY <1>5, <1>6 DEF scanned

\* The state at hand is classified under a taxonomy.
LEMMA AtHand ==
    ASSUME IInv, state # NoState
    PROVE  /\ Taxonomy(by_exit_code) /\ detail \in Detail
           /\ state = classify(detail, by_exit_code)
BY TypeGivesTaxonomy DEF IInv

\* The pointer an event leaves is in the name of a state that later events scan.
THEOREM NameScanned == Spec => []ClassifiedNameIsScanned
<1>1. IInv => ClassifiedNameIsScanned
  <2> SUFFICES ASSUME IInv, state # NoState
               PROVE  \E s \in ToSet(states(by_exit_code)) : s.name = state.name
    BY DEF ClassifiedNameIsScanned
  <2>1. Taxonomy(by_exit_code) /\ detail \in Detail /\ state = classify(detail, by_exit_code)
    BY AtHand
  <2>2. CASE \E i \in 1..4 : state = BASELINE_PROCESSING_STATES[i]
    BY <2>1, <2>2, ScannedStates
  <2>3. CASE \E i \in DOMAIN by_exit_code : state = to_processing_state(by_exit_code[i].value)
    <3>1. PICK i \in DOMAIN by_exit_code : state = to_processing_state(by_exit_code[i].value)
      BY <2>3
    <3>2. PICK k \in DOMAIN by_exit_code :
             /\ by_exit_code[k].value.name = by_exit_code[i].value.name
             /\ to_processing_state(by_exit_code[k].value) \in ToSet(states(by_exit_code))
      BY <2>1, ScannedStates
    <3>3. to_processing_state(by_exit_code[k].value).name = state.name
      BY <3>1, <3>2 DEF to_processing_state
    <3> QED
      BY <3>2, <3>3
  <2> QED
    BY <2>1, <2>2, <2>3, ClassifiedStates
<1> QED
  BY <1>1, InvariantHolds, PTL

\* Where the exit codes that share a name agree, it is one of the states scanned.
THEOREM Scanned == Spec => []ConsistentIsScanned
<1>1. IInv => ConsistentIsScanned
  <2> SUFFICES ASSUME IInv, Consistent, state # NoState
               PROVE  state \in ToSet(states(by_exit_code))
    BY DEF ConsistentIsScanned, ClassifiedIsScanned
  <2>1. Taxonomy(by_exit_code) /\ detail \in Detail /\ state = classify(detail, by_exit_code)
    BY AtHand
  <2>2. CASE \E i \in 1..4 : state = BASELINE_PROCESSING_STATES[i]
    BY <2>1, <2>2, ScannedStates
  <2>3. CASE \E i \in DOMAIN by_exit_code : state = to_processing_state(by_exit_code[i].value)
    <3>1. PICK i \in DOMAIN by_exit_code : state = to_processing_state(by_exit_code[i].value)
      BY <2>3
    <3>2. PICK k \in DOMAIN by_exit_code :
             /\ by_exit_code[k].value.name = by_exit_code[i].value.name
             /\ to_processing_state(by_exit_code[k].value) \in ToSet(states(by_exit_code))
      BY <2>1, ScannedStates
    <3>3. by_exit_code[k].value = by_exit_code[i].value
      BY <3>2 DEF Consistent
    <3> QED
      BY <3>1, <3>2, <3>3
  <2> QED
    BY <2>1, <2>2, <2>3, ClassifiedStates
<1> QED
  BY <1>1, InvariantHolds, PTL

\* Where no outcome takes a baseline state's name, the states scanned have a name
\* each: by which the monitor tells its pointers apart.
THEOREM UniqueNames == Spec => []NamesAreUnique
<1> DEFINE Baseline == BASELINE_PROCESSING_STATES
<1>1. ASSUME Taxonomy(by_exit_code), Names \cap {s.name : s \in ToSet(Baseline)} = {},
             NEW i \in DOMAIN states(by_exit_code), NEW j \in DOMAIN states(by_exit_code),
             states(by_exit_code)[i].name = states(by_exit_code)[j].name
      PROVE  i = j
  <2> DEFINE d == declared(by_exit_code)
             scanned == states(by_exit_code)
  <2>1. /\ Len(d) \in Nat /\ DOMAIN d = 1..Len(d)
        /\ DOMAIN scanned = 1..(4 + Len(d))
        /\ \A k \in 1..4 : scanned[k] = Baseline[k]
        /\ \A k \in 1..Len(d) : scanned[4 + k] = d[k].value
    BY <1>1, StatesFacts
  <2>2. /\ \A k, l \in DOMAIN d : d[k].key = d[l].key => k = l
        /\ \A k \in DOMAIN d : \E m \in 1..Len(by_exit_code) :
              d[k] = [key |-> by_exit_code[m].value.name,
                      value |-> to_processing_state(by_exit_code[m].value)]
    BY <1>1, DeclaredFacts DEF DeclaredBy, IsDict
  <2>3. \A k \in DOMAIN d : d[k].value.name = d[k].key /\ d[k].value.name \in Names
    <3> SUFFICES ASSUME NEW k \in DOMAIN d
                 PROVE  d[k].value.name = d[k].key /\ d[k].value.name \in Names
      OBVIOUS
    <3>1. PICK m \in DOMAIN by_exit_code :
             d[k] = [key |-> by_exit_code[m].value.name,
                     value |-> to_processing_state(by_exit_code[m].value)]
      BY <1>1, <2>2, TaxonomyFacts
    <3>2. by_exit_code[m].value \in ExitCodeOutcome
      BY <1>1, TaxonomyFacts
    <3> HIDE DEF d
    <3> QED
      BY <3>1, <3>2, OutcomeState
  <2>4. /\ \A k \in 1..4 : Baseline[k] \in ToSet(Baseline)
        /\ \A k, l \in 1..4 : Baseline[k].name = Baseline[l].name => k = l
    <3>1. DOMAIN Baseline = 1..4
      BY DEF BASELINE_PROCESSING_STATES
    <3>2. /\ Baseline[1].name = "AWAITING" /\ Baseline[2].name = "SUCCESS"
          /\ Baseline[3].name = "FAILURE_RETRYABLE" /\ Baseline[4].name = "FAILURE_NONRETRYABLE"
      BY DEF BASELINE_PROCESSING_STATES, AWAITING, SUCCESS, FAILURE_RETRYABLE,
             FAILURE_NONRETRYABLE
    <3>3. \A k \in 1..4 : k = 1 \/ k = 2 \/ k = 3 \/ k = 4
      OBVIOUS
    <3> HIDE DEF Baseline
    <3>4. \A k \in 1..4 : Baseline[k] \in ToSet(Baseline)
      BY <3>1 DEF ToSet
    <3> QED
      BY <3>2, <3>3, <3>4
  <2>5. Names \cap {s.name : s \in ToSet(Baseline)} = {}
    BY <1>1
  <2>6. i \in DOMAIN scanned /\ j \in DOMAIN scanned /\ scanned[i].name = scanned[j].name
    BY <1>1
  <2> HIDE DEF d, scanned, Baseline
  <2>7. \A k \in 1..4, n \in Names : Baseline[k].name # n
    BY <2>4, <2>5
  <2>8. \A k \in DOMAIN scanned :
           \/ k \in 1..4
           \/ \E m \in DOMAIN d : k = 4 + m
    <3> SUFFICES ASSUME NEW k \in DOMAIN scanned, k \notin 1..4
                 PROVE  \E m \in DOMAIN d : k = 4 + m
      OBVIOUS
    <3>1. k - 4 \in DOMAIN d /\ k = 4 + (k - 4)
      BY <2>1
    <3> QED
      BY <3>1
  <2>9. CASE i \in 1..4 /\ j \in 1..4
    BY <2>1, <2>4, <2>6, <2>9
  <2>10. CASE i \in 1..4 /\ j \notin 1..4
    BY <2>1, <2>3, <2>6, <2>7, <2>8, <2>10
  <2>11. CASE i \notin 1..4 /\ j \in 1..4
    BY <2>1, <2>3, <2>6, <2>7, <2>8, <2>11
  <2>12. CASE i \notin 1..4 /\ j \notin 1..4
    BY <2>1, <2>2, <2>3, <2>6, <2>8, <2>12
  <2> QED
    BY <2>9, <2>10, <2>11, <2>12
<1>2. IInv => NamesAreUnique
  BY <1>1, TypeGivesTaxonomy DEF IInv, NamesAreUnique
<1> QED
  BY <1>2, InvariantHolds, PTL

\* A declared outcome decides a failure, whatever its status reason and whichever
\* level of the detail has the exit code.
THEOREM Stable == Spec => []ClassificationIsStable
<1>1. ASSUME IInv, detail.status = "FAILED", NEW reason \in Field({"spot", "other"}),
             detail.exitCode.top # None, get(by_exit_code, detail.exitCode.top) # {}
      PROVE  classify([detail EXCEPT !.exitCode = [top |-> None, last |-> detail.exitCode.top],
                                     !.statusReason = reason], by_exit_code) = state
  <2> DEFINE top == detail.exitCode.top
             moved == [detail EXCEPT !.exitCode = [top |-> None, last |-> top],
                                     !.statusReason = reason]
             outcome == CHOOSE o \in get(by_exit_code, top) : TRUE
  <2>1. detail \in Detail /\ state = classify(detail, by_exit_code)
    BY <1>1 DEF IInv, NoDetail, None
  <2>2. /\ moved \in Detail /\ moved.status = "FAILED"
        /\ moved.exitCode = [top |-> None, last |-> top]
    BY <1>1, <2>1 DEF Detail, Field
  <2>3. Fallback(detail.exitCode) = top /\ Fallback(moved.exitCode) = top
    BY <1>1, <2>2 DEF Fallback
  <2> HIDE DEF moved, outcome
  <2>4. classify(detail, by_exit_code) = to_processing_state(outcome)
    BY <1>1, <2>1, <2>3, ClassifyCases DEF outcome
  <2>5. classify(moved, by_exit_code) = to_processing_state(outcome)
    BY <1>1, <2>2, <2>3, ClassifyCases DEF outcome
  <2> QED
    BY <2>1, <2>4, <2>5 DEF moved
<1>2. IInv => ClassificationIsStable
  BY <1>1, Zenon DEF ClassificationIsStable
<1> QED
  BY <1>2, InvariantHolds, PTL
===============================================================================
