------------------------ MODULE AttemptInference_proofs ------------------------
(***************************************************************************)
(* Proofs about AttemptInference for one invocation at a time, of any jobs *)
(* and groups, failing between any two calls and repeated.  Two at once    *)
(* break OneAttemptPerJob, as the run inference_race shows.                *)
(***************************************************************************)
EXTENDS AttemptInference, FiniteSetTheorems, TLAPS

\* Events are handled one at a time.
OneInvocation == \A v, w \in Invocations : v = w

-----------------------------------------------------------------------------
(* The inductive invariant *)

Recorded(j, e, a) == j.id \in records[<<e, a>>].jobs

\* A record names the job that created it, and events of its entity's jobs only.
\* A job's events are in records of one attempt, one of which the job created:
\* what the inference finds it by.
RecordsOK ==
    /\ \A e \in Entities, a \in Attempts :
          records[<<e, a>>] = NoRecord \/ records[<<e, a>>].batch_job_id \in records[<<e, a>>].jobs
    /\ \A j \in Jobs, e \in Entities, a \in Attempts : Recorded(j, e, a) =>
          /\ e \in Range(j.group)
          /\ \A f \in Entities, b \in Attempts : Recorded(j, f, b) => a = b
          /\ \E f \in Entities : Recorded(j, f, a) /\ records[<<f, a>>].batch_job_id = j.id

\* The job has no record among the attempts of e but those in S, and its attempt
\* is above them.
Searched(v, e, S) ==
    \A a \in Attempts \ S : records[<<e, a>>] # NoRecord =>
        records[<<e, a>>].batch_job_id # job[v].id /\ a < attempt[v]

\* Nothing is recorded of the job yet, nor of its entities under its attempt.
Unrecorded(v) ==
    /\ \A e \in Entities, a \in Attempts : ~Recorded(job[v], e, a)
    /\ \A e \in Range(job[v].group) : records[<<e, attempt[v]>>] = NoRecord

Resolved(v) ==
    \/ \E e \in Range(job[v].group) : Recorded(job[v], e, attempt[v])
    \/ ctx[v] = 1 /\ Unrecorded(v)

LocalOK(v) ==
    /\ job[v] \in Jobs /\ ctx[v] \in 1..Len(job[v].group) /\ attempt[v] \in Nat
    /\ pc[v] \in {"list", "compare"} =>
          \A k \in 1..Len(job[v].group) : k < ctx[v] => Searched(v, job[v].group[k], {})
    /\ pc[v] = "compare" =>
          /\ \A a \in recorded[v] : a \in Attempts /\ records[<<entity(v), a>>] # NoRecord
          /\ Searched(v, entity(v), recorded[v])
    /\ pc[v] \in {"read", "write"} /\ attempt[v] \in Attempts =>
          /\ Resolved(v)
          /\ \A k \in 1..Len(job[v].group) :
                k < ctx[v] => Recorded(job[v], job[v].group[k], attempt[v])
    /\ pc[v] = "write" => record[v] = records[<<entity(v), attempt[v]>>]

\* A job that is recorded at all has the records of its whole group, or had an
\* invocation fail between them, or has one that is writing them.
Writing(v, j, a) == HalfWritten(v) /\ job[v] = j /\ attempt[v] = a
WholeOK ==
    \A j \in Jobs, e \in Entities, a \in Attempts : Recorded(j, e, a) =>
        \/ j.id \in interrupted
        \/ \A f \in Range(j.group) : Recorded(j, f, a)
        \/ \E v \in Invocations : Writing(v, j, a)

DomainsOK ==
    /\ DOMAIN records = Entities \X Attempts
    /\ DOMAIN pc = Invocations /\ DOMAIN job = Invocations /\ DOMAIN ctx = Invocations
    /\ DOMAIN recorded = Invocations /\ DOMAIN attempt = Invocations
    /\ DOMAIN record = Invocations

InferenceInv ==
    /\ DomainsOK /\ RecordsOK /\ WholeOK /\ SharedEntitiesApart
    /\ \A v \in Invocations : LocalOK(v)

-----------------------------------------------------------------------------
(* Groups and calls *)

LEMMA JobFacts ==
    ASSUME NEW j \in Jobs
    PROVE  /\ Len(j.group) \in Nat /\ Len(j.group) >= 1
           /\ Range(j.group) = {j.group[k] : k \in 1..Len(j.group)}
           /\ \A k \in 1..Len(j.group) : j.group[k] \in Entities /\ j.group[k] \in Range(j.group)
           /\ Range(j.group) \subseteq Entities
           /\ \A k \in Jobs : j.id = k.id => j = k
<1>1. j.group \in Seq(Entities) /\ Len(j.group) >= 1
  BY JobsAssumption
<1>2. Range(j.group) = {j.group[k] : k \in 1..Len(j.group)}
  BY <1>1 DEF Range
<1>3. \A k \in Jobs : j.id = k.id => j = k
  BY JobsAssumption
<1> QED
  BY <1>1, <1>2, <1>3

LEMMA AnyJobFact == AnyJob \in Jobs
BY JobsAssumption DEF AnyJob

LEMMA AttemptsFact == Attempts \subseteq Nat
BY DEF Attempts

\* An invocation's variables after it has entered a call.
LEMMA EnterFacts ==
    ASSUME DomainsOK, NEW v \in Invocations, NEW call, NEW j, NEW k, NEW a, Enter(v, call, j, k, a)
    PROVE  /\ pc'[v] = call /\ job'[v] = j /\ ctx'[v] = k /\ attempt'[v] = a /\ recorded'[v] = {}
           /\ DOMAIN records' = Entities \X Attempts => DomainsOK'
BY DEF DomainsOK, Enter

\* Records that stay as they are.
LEMMA SameRecords ==
    ASSUME RecordsOK, SharedEntitiesApart, interrupted \subseteq interrupted',
           \A e \in Entities, a \in Attempts : records'[<<e, a>>] = records[<<e, a>>]
    PROVE  RecordsOK' /\ SharedEntitiesApart'
<1>1. \A j \in Jobs, e \in Entities, a \in Attempts : Recorded(j, e, a)' <=> Recorded(j, e, a)
  BY DEF Recorded
<1>2. ASSUME NEW j \in Jobs, NEW e \in Entities, NEW a \in Attempts, Recorded(j, e, a)'
      PROVE  /\ e \in Range(j.group)
             /\ \A f \in Entities, b \in Attempts : Recorded(j, f, b)' => a = b
             /\ \E f \in Entities : Recorded(j, f, a)' /\ records'[<<f, a>>].batch_job_id = j.id
  <2>1. Recorded(j, e, a)
    BY <1>1, <1>2
  <2>2. PICK f \in Entities : Recorded(j, f, a) /\ records[<<f, a>>].batch_job_id = j.id
    BY <2>1 DEF RecordsOK
  <2>3. Recorded(j, f, a)' /\ records'[<<f, a>>].batch_job_id = j.id
    BY <1>1, <2>2
  <2>4. e \in Range(j.group) /\ \A g \in Entities, b \in Attempts : Recorded(j, g, b) => a = b
    BY <2>1 DEF RecordsOK
  <2> QED
    BY <1>1, <2>3, <2>4
<1>3. \A e \in Entities, a \in Attempts :
         records'[<<e, a>>] = NoRecord \/ records'[<<e, a>>].batch_job_id \in records'[<<e, a>>].jobs
  BY DEF RecordsOK
<1>4. RecordsOK'
  BY <1>2, <1>3 DEF RecordsOK
<1>5. \A id : AttemptsOf(id)' = AttemptsOf(id)
  BY DEF AttemptsOf
<1>6. ASSUME NEW j \in Jobs, NEW k \in Jobs, NEW a \in Attempts, HalfWay(j, k, a)
      PROVE  HalfWay(j, k, a)'
  <2>1. Range(j.group) \subseteq Entities
    BY JobFacts
  <2> QED
    BY <1>6, <2>1 DEF HalfWay
<1>7. \A id : AttemptsOf(id) \subseteq Attempts
  BY DEF AttemptsOf
<1> QED
  BY <1>4, <1>5, <1>6, <1>7 DEF SharedEntitiesApart

\* Records that stay as they are, while the invocation goes on or fails.
LEMMA SameWhole ==
    ASSUME WholeOK, records' = records, interrupted \subseteq interrupted',
           \A v \in Invocations, j \in Jobs, a \in Attempts :
               Writing(v, j, a) => Writing(v, j, a)' \/ j.id \in interrupted'
    PROVE  WholeOK'
<1>1. \A j, e, a : Recorded(j, e, a)' <=> Recorded(j, e, a)
  BY DEF Recorded
<1> SUFFICES ASSUME NEW j \in Jobs, NEW e \in Entities, NEW a \in Attempts, Recorded(j, e, a)
             PROVE  \/ j.id \in interrupted'
                    \/ \A f \in Range(j.group) : Recorded(j, f, a)'
                    \/ \E v \in Invocations : Writing(v, j, a)'
  BY <1>1 DEF WholeOK
<1>2. \/ j.id \in interrupted
      \/ \A f \in Range(j.group) : Recorded(j, f, a)
      \/ \E v \in Invocations : Writing(v, j, a)
  BY DEF WholeOK
<1>3. CASE \A f \in Range(j.group) : Recorded(j, f, a)
  BY <1>1, <1>3
<1>4. CASE \E v \in Invocations : Writing(v, j, a)
  BY <1>4
<1> QED
  BY <1>2, <1>3, <1>4

\* With one invocation, only what it did needs looking at.
LEMMA LocalStep ==
    ASSUME OneInvocation, InferenceInv, NEW v \in Invocations, records' = records,
           interrupted \subseteq interrupted',
           \A j \in Jobs, a \in Attempts :
               Writing(v, j, a) => Writing(v, j, a)' \/ j.id \in interrupted',
           DomainsOK', LocalOK(v)'
    PROVE  InferenceInv'
<1>1. RecordsOK' /\ SharedEntitiesApart'
  BY SameRecords DEF InferenceInv
<1>2. \A w \in Invocations : LocalOK(w)'
  BY DEF OneInvocation
<1>3. WholeOK'
  <2>1. \A w \in Invocations : w = v
    BY DEF OneInvocation
  <2>2. \A w \in Invocations, j \in Jobs, a \in Attempts :
           Writing(w, j, a) => Writing(w, j, a)' \/ j.id \in interrupted'
    BY <2>1
  <2> QED
    BY <2>2, SameWhole DEF InferenceInv
<1> QED
  BY <1>1, <1>2, <1>3 DEF InferenceInv

-----------------------------------------------------------------------------
(* attempt_for_batch_job *)

LEMMA IdleStep ==
    ASSUME OneInvocation, InferenceInv, NEW v \in Invocations, NEW call \in {"idle", "list"},
           NEW j \in Jobs, NEW a \in Nat, Enter(v, call, j, 1, a), records' = records,
           interrupted' = IF HalfWritten(v) THEN interrupted \cup {job[v].id} ELSE interrupted
    PROVE  InferenceInv'
<1>1. /\ pc'[v] = call /\ job'[v] = j /\ ctx'[v] = 1 /\ attempt'[v] = a /\ DomainsOK'
  BY EnterFacts DEF InferenceInv, DomainsOK
<1>2. LocalOK(v)'
  BY <1>1, JobFacts DEF LocalOK
<1>3. \A k \in Jobs, n \in Attempts : Writing(v, k, n) => k.id \in interrupted'
  BY DEF Writing
<1> QED
  BY <1>1, <1>2, <1>3, LocalStep

LEMMA ListStep ==
    ASSUME OneInvocation, InferenceInv, NEW v \in Invocations, ListRecords(v)
    PROVE  InferenceInv'
<1>1. /\ pc[v] = "list" /\ pc'[v] = "compare"
      /\ recorded'[v] = {a \in Attempts : records[<<entity(v), a>>] # NoRecord}
      /\ interrupted' = interrupted
      /\ records' = records /\ job' = job /\ ctx' = ctx /\ attempt' = attempt /\ DomainsOK'
  BY DEF ListRecords, InferenceInv, DomainsOK, task
<1>2. Searched(v, entity(v), recorded[v])'
  BY <1>1 DEF Searched, entity
<1>3. LocalOK(v)'
  BY <1>1, <1>2 DEF InferenceInv, LocalOK, Searched, entity
<1>4. ~HalfWritten(v)
  BY <1>1 DEF HalfWritten
<1> QED
  BY <1>1, <1>3, <1>4, LocalStep DEF Writing

\* A record of the job is found: its attempt is the job's.
LEMMA FoundStep ==
    ASSUME OneInvocation, InferenceInv, NEW v \in Invocations, pc[v] = "compare",
           NEW a \in recorded[v], Found(v, a), records' = records,
           interrupted' = interrupted
    PROVE  InferenceInv'
<1>1. /\ job[v] \in Jobs /\ ctx[v] \in 1..Len(job[v].group)
      /\ a \in Attempts /\ records[<<entity(v), a>>] # NoRecord
  BY DEF InferenceInv, LocalOK
<1>2. records[<<entity(v), a>>].batch_job_id = job[v].id
  BY DEF Found, IsOfJob
<1>3. entity(v) \in Range(job[v].group) /\ entity(v) \in Entities
  BY <1>1, JobFacts DEF entity
<1>4. Recorded(job[v], entity(v), a)
  BY <1>1, <1>2, <1>3 DEF InferenceInv, RecordsOK, Recorded
<1>5. /\ pc'[v] = "read" /\ job'[v] = job[v] /\ ctx'[v] = 1 /\ attempt'[v] = a /\ DomainsOK'
  BY EnterFacts DEF Found, InferenceInv, DomainsOK
<1>6. Resolved(v)'
  BY <1>3, <1>4, <1>5 DEF Resolved, Recorded
<1>7. LocalOK(v)'
  BY <1>1, <1>5, <1>6, JobFacts, AttemptsFact DEF LocalOK
<1>8. ~HalfWritten(v)
  BY DEF HalfWritten
<1> QED
  BY <1>5, <1>7, <1>8, LocalStep DEF Writing

\* It is not there: the job's attempt is above it.
LEMMA NotFoundStep ==
    ASSUME OneInvocation, InferenceInv, NEW v \in Invocations, pc[v] = "compare",
           NEW a \in recorded[v], NotFound(v, a), records' = records, interrupted' = interrupted,
           recorded' = [recorded EXCEPT ![v] = @ \ {a}]
    PROVE  InferenceInv'
<1>1. /\ job[v] \in Jobs /\ ctx[v] \in 1..Len(job[v].group) /\ attempt[v] \in Nat
      /\ a \in Nat /\ \A b \in recorded[v] : b \in Attempts /\ records[<<entity(v), b>>] # NoRecord
      /\ Searched(v, entity(v), recorded[v])
      /\ \A k \in 1..Len(job[v].group) : k < ctx[v] => Searched(v, job[v].group[k], {})
  BY AttemptsFact DEF InferenceInv, LocalOK
<1>2. /\ pc' = pc /\ job' = job /\ ctx' = ctx /\ recorded'[v] = recorded[v] \ {a}
      /\ attempt'[v] \in Nat /\ attempt'[v] >= attempt[v] /\ a < attempt'[v] /\ DomainsOK'
  BY <1>1 DEF NotFound, InferenceInv, DomainsOK, task
<1>3. ASSUME NEW e, NEW S, Searched(v, e, S) PROVE Searched(v, e, S)'
  <2> SUFFICES ASSUME NEW b \in Attempts \ S, records[<<e, b>>] # NoRecord
               PROVE  records[<<e, b>>].batch_job_id # job[v].id /\ b < attempt'[v]
    BY <1>2 DEF Searched
  <2>1. records[<<e, b>>].batch_job_id # job[v].id /\ b < attempt[v]
    BY <1>3 DEF Searched
  <2>2. b \in Nat
    BY AttemptsFact
  <2> QED
    BY <1>1, <1>2, <2>1, <2>2
<1>4. Searched(v, entity(v), recorded[v])'
  <2> SUFFICES ASSUME NEW b \in Attempts, b \notin recorded[v] \/ b = a,
                      records[<<entity(v), b>>] # NoRecord
               PROVE  records[<<entity(v), b>>].batch_job_id # job[v].id /\ b < attempt'[v]
    BY <1>2 DEF Searched, entity
  <2>1. CASE b = a
    BY <1>2, <2>1 DEF NotFound, IsOfJob
  <2>2. CASE b \notin recorded[v]
    BY <1>1, <1>2, <2>2, AttemptsFact DEF Searched
  <2> QED
    BY <2>1, <2>2
<1>5. \A k \in 1..Len(job[v].group) : k < ctx[v] => Searched(v, job[v].group[k], {})'
  BY <1>1, <1>2, <1>3
<1>6. LocalOK(v)'
  BY <1>1, <1>2, <1>4, <1>5 DEF LocalOK, entity, Searched
<1>7. ~HalfWritten(v)
  BY DEF HalfWritten
<1> QED
  BY <1>2, <1>6, <1>7, LocalStep DEF Writing

\* After the last entity of the group the job's attempt is new to all of them.
LEMMA NextEntityStep ==
    ASSUME OneInvocation, InferenceInv, NEW v \in Invocations, NextEntity(v)
    PROVE  InferenceInv'
<1> DEFINE j == job[v]
<1>1. /\ j \in Jobs /\ ctx[v] \in 1..Len(j.group) /\ attempt[v] \in Nat /\ records' = records
      /\ Len(j.group) \in Nat /\ recorded[v] = {} /\ pc[v] = "compare"
      /\ interrupted' = interrupted
  BY JobFacts DEF InferenceInv, LocalOK, NextEntity
<1>0. ~HalfWritten(v)
  BY <1>1 DEF HalfWritten
<1>2. \A k \in 1..Len(j.group) : k <= ctx[v] => Searched(v, j.group[k], {})
  <2>1. \A k \in 1..Len(j.group) : k < ctx[v] => Searched(v, j.group[k], {})
    BY <1>1 DEF InferenceInv, LocalOK
  <2>2. Searched(v, j.group[ctx[v]], {})
    BY <1>1 DEF InferenceInv, LocalOK, entity
  <2> QED
    BY <1>1, <2>1, <2>2
<1>3. CASE ctx[v] < Len(j.group)
  <2>1. Enter(v, "list", j, ctx[v] + 1, attempt[v])
    BY <1>3 DEF NextEntity
  <2>2. /\ pc'[v] = "list" /\ job'[v] = j /\ ctx'[v] = ctx[v] + 1 /\ attempt'[v] = attempt[v]
        /\ DomainsOK'
    BY <1>1, <2>1, EnterFacts DEF InferenceInv, DomainsOK
  <2>3. \A k \in 1..Len(j.group) : k < ctx'[v] => Searched(v, j.group[k], {})'
    BY <1>1, <1>2, <2>2 DEF Searched
  <2>4. LocalOK(v)'
    BY <1>1, <1>3, <2>2, <2>3 DEF LocalOK, Searched
  <2> QED
    BY <1>0, <1>1, <2>2, <2>4, LocalStep DEF Writing
<1>4. CASE ~(ctx[v] < Len(j.group))
  <2>1. Enter(v, "read", j, 1, attempt[v])
    BY <1>4 DEF NextEntity
  <2>2. /\ pc'[v] = "read" /\ job'[v] = j /\ ctx'[v] = 1 /\ attempt'[v] = attempt[v] /\ DomainsOK'
    BY <1>1, <2>1, EnterFacts DEF InferenceInv, DomainsOK
  <2>3. \A e \in Range(j.group) : Searched(v, e, {})
    <3>1. \A k \in 1..Len(j.group) : Searched(v, j.group[k], {})
      BY <1>1, <1>2, <1>4
    <3>2. Range(j.group) = {j.group[k] : k \in 1..Len(j.group)}
      BY <1>1, JobFacts
    <3> QED
      BY <3>1, <3>2
  <2>4. \A e \in Entities, a \in Attempts : ~Recorded(j, e, a)
    <3> SUFFICES ASSUME NEW e \in Entities, NEW a \in Attempts, Recorded(j, e, a) PROVE FALSE
      OBVIOUS
    <3>1. PICK f \in Entities : Recorded(j, f, a) /\ records[<<f, a>>].batch_job_id = j.id
      BY <1>1 DEF InferenceInv, RecordsOK
    <3>2. f \in Range(j.group)
      BY <1>1, <3>1 DEF InferenceInv, RecordsOK
    <3>3. records[<<f, a>>] # NoRecord
      BY <3>1 DEF Recorded, NoRecord
    <3> QED
      BY <2>3, <3>1, <3>2, <3>3 DEF Searched
  <2>5. attempt[v] \in Attempts => \A e \in Range(j.group) : records[<<e, attempt[v]>>] = NoRecord
    BY <1>1, <2>3 DEF Searched
  <2>6. attempt'[v] \in Attempts => Resolved(v)'
    BY <1>1, <2>2, <2>4, <2>5 DEF Resolved, Unrecorded, Recorded
  <2>7. LocalOK(v)'
    BY <1>1, <2>2, <2>6, JobFacts DEF LocalOK
  <2> QED
    BY <1>0, <1>1, <2>2, <2>7, LocalStep DEF Writing
<1> QED
  BY <1>3, <1>4

-----------------------------------------------------------------------------
(* append_canonical_event *)

LEMMA ReadStep ==
    ASSUME OneInvocation, InferenceInv, NEW v \in Invocations, ReadRecord(v)
    PROVE  InferenceInv'
<1>1. /\ pc[v] = "read" /\ pc'[v] = "write" /\ record'[v] = records[<<entity(v), attempt[v]>>]
      /\ interrupted' = interrupted
      /\ records' = records /\ job' = job /\ ctx' = ctx /\ attempt' = attempt /\ DomainsOK'
  BY DEF ReadRecord, InferenceInv, DomainsOK, task
<1>2. LocalOK(v)'
  BY <1>1 DEF InferenceInv, LocalOK, Resolved, Unrecorded, Recorded, entity
<1>3. \A j \in Jobs, a \in Attempts : Writing(v, j, a) => Writing(v, j, a)'
  BY <1>1 DEF Writing, HalfWritten
<1> QED
  BY <1>1, <1>2, <1>3, LocalStep

\* What a write changes: the record of one entity under the job's attempt.
LEMMA WriteFacts ==
    ASSUME InferenceInv, NEW v \in Invocations, WriteRecord(v)
    PROVE  /\ DOMAIN records' = Entities \X Attempts
           /\ \A e \in Entities, a \in Attempts :
                 records'[<<e, a>>] = IF e = entity(v) /\ a = attempt[v]
                                  THEN Appended(records[<<e, a>>], job[v]) ELSE records[<<e, a>>]
<1>1. pc[v] = "write" /\ record[v] = records[<<entity(v), attempt[v]>>]
  BY DEF WriteRecord, InferenceInv, LocalOK
<1>2. records' = [records EXCEPT ![<<entity(v), attempt[v]>>] = Appended(record[v], job[v])]
  BY DEF WriteRecord
<1>3. DOMAIN records = Entities \X Attempts
  BY DEF InferenceInv, DomainsOK
<1> QED
  BY <1>1, <1>2, <1>3

\* An append adds the job to a record, and creates it in the job's name.
LEMMA AppendFacts ==
    ASSUME NEW rec, NEW j
    PROVE  /\ Appended(rec, j).jobs = rec.jobs \cup {j.id}
           /\ Appended(rec, j).batch_job_id = IF rec = NoRecord THEN j.id ELSE rec.batch_job_id
BY DEF Appended

LEMMA WriteRecordsStep ==
    ASSUME OneInvocation, InferenceInv, NEW v \in Invocations, WriteRecord(v)
    PROVE  RecordsOK' /\ SharedEntitiesApart'
           /\ (attempt[v] \in Attempts => \E e \in Range(job[v].group) :
                 job[v].id \in records'[<<e, attempt[v]>>].jobs)
<1> DEFINE j == job[v]
           c == entity(v)
           n == attempt[v]
<1>0. /\ j \in Jobs /\ c \in Range(j.group) /\ c \in Entities /\ Range(j.group) \subseteq Entities
      /\ pc[v] = "write" /\ (n \in Attempts => Resolved(v)) /\ interrupted' = interrupted
      /\ \A o \in Jobs, a \in Attempts : o # j => ~\E w \in Invocations : Writing(w, o, a)
  BY JobFacts DEF InferenceInv, LocalOK, entity, WriteRecord, OneInvocation, Writing
<1>1. \A e \in Entities, a \in Attempts :
         records'[<<e, a>>] = IF e = c /\ a = n THEN Appended(records[<<e, a>>], j) ELSE records[<<e, a>>]
  BY WriteFacts
<1>2. RecordsOK /\ SharedEntitiesApart /\ WholeOK
  BY DEF InferenceInv
<1> HIDE DEF j, c, n
<1>3. CASE n \notin Attempts
  <2>1. \A e \in Entities, a \in Attempts : records'[<<e, a>>] = records[<<e, a>>]
    BY <1>1, <1>3
  <2> QED
    BY <1>0, <1>2, <1>3, <2>1, SameRecords DEF n
<1>4. CASE n \in Attempts
  <2>1. \A k \in Jobs, e \in Entities, a \in Attempts :
           Recorded(k, e, a)' <=> Recorded(k, e, a) \/ (k = j /\ e = c /\ a = n)
    <3> TAKE k \in Jobs, e \in Entities, a \in Attempts
    <3>1. CASE e = c /\ a = n
      <4>1. records'[<<e, a>>].jobs = records[<<e, a>>].jobs \cup {j.id}
        BY <1>1, <3>1, AppendFacts
      <4>2. k.id = j.id <=> k = j
        BY <1>0, JobFacts
      <4> QED
        BY <3>1, <4>1, <4>2 DEF Recorded
    <3>2. CASE ~(e = c /\ a = n)
      BY <1>1, <3>2 DEF Recorded
    <3> QED
      BY <3>1, <3>2
  <2>2. \A e \in Entities, a \in Attempts :
           records[<<e, a>>] # NoRecord => records'[<<e, a>>].batch_job_id = records[<<e, a>>].batch_job_id
    BY <1>1, AppendFacts
  <2>3. \/ \E e \in Range(j.group) : Recorded(j, e, n)
        \/ /\ \A e \in Entities, a \in Attempts : ~Recorded(j, e, a)
           /\ \A e \in Range(j.group) : records[<<e, n>>] = NoRecord
    BY <1>0, <1>4 DEF Resolved, Unrecorded, j, n
  <2>4. \A e \in Entities, a \in Attempts :
           records'[<<e, a>>] = NoRecord \/ records'[<<e, a>>].batch_job_id \in records'[<<e, a>>].jobs
    <3> TAKE e \in Entities, a \in Attempts
    <3>1. CASE e = c /\ a = n
      BY <1>1, <1>2, <3>1, AppendFacts DEF RecordsOK, NoRecord
    <3>2. CASE ~(e = c /\ a = n)
      BY <1>1, <1>2, <3>2 DEF RecordsOK
    <3> QED
      BY <3>1, <3>2
  <2>5. ASSUME NEW k \in Jobs, NEW e \in Entities, NEW a \in Attempts, Recorded(k, e, a)'
        PROVE  /\ e \in Range(k.group)
               /\ \A f \in Entities, b \in Attempts : Recorded(k, f, b)' => a = b
               /\ \E f \in Entities :
                     Recorded(k, f, a)' /\ records'[<<f, a>>].batch_job_id = k.id
    <3>1. e \in Range(k.group)
      BY <1>0, <1>2, <2>1, <2>5 DEF RecordsOK
    <3>2. ASSUME NEW f \in Entities, NEW b \in Attempts, Recorded(k, f, b)' PROVE a = b
      BY <1>0, <1>2, <2>1, <2>3, <2>5, <3>2 DEF RecordsOK
    <3>3. \E f \in Entities : Recorded(k, f, a)' /\ records'[<<f, a>>].batch_job_id = k.id
      <4>1. CASE \E g \in Entities : Recorded(k, g, a)
        <5>1. PICK f \in Entities : Recorded(k, f, a) /\ records[<<f, a>>].batch_job_id = k.id
          BY <1>2, <4>1 DEF RecordsOK
        <5>2. records[<<f, a>>] # NoRecord
          BY <5>1 DEF Recorded, NoRecord
        <5> QED
          BY <2>1, <2>2, <5>1, <5>2
      <4>2. CASE ~\E g \in Entities : Recorded(k, g, a)
        <5>1. k = j /\ e = c /\ a = n
          BY <2>1, <2>5, <4>2
        <5>2. records[<<c, n>>] = NoRecord
          BY <1>0, <2>3, <4>2, <5>1
        <5>3. records'[<<c, n>>].batch_job_id = j.id
          BY <1>0, <1>1, <1>4, <5>2, AppendFacts
        <5> QED
          BY <1>0, <2>5, <5>1, <5>3
      <4> QED
        BY <4>1, <4>2
    <3> QED
      BY <3>1, <3>2, <3>3
  <2>6. RecordsOK'
    BY <2>4, <2>5 DEF RecordsOK
  <2>7. SharedEntitiesApart'
    <3> SUFFICES ASSUME NEW k \in Jobs, NEW m \in Jobs, k # m,
                        NEW a \in Attempts,
                        NEW e \in Entities, Recorded(k, e, a)', NEW f \in Entities, Recorded(m, f, a)',
                        Range(k.group) \cap Range(m.group) # {}
                 PROVE  HalfWay(k, m, a)' \/ HalfWay(m, k, a)'
      BY DEF SharedEntitiesApart, AttemptsOf, Recorded
    <3>1. CASE (\E g \in Entities : Recorded(k, g, a)) /\ (\E g \in Entities : Recorded(m, g, a))
      <4>1. HalfWay(k, m, a) \/ HalfWay(m, k, a)
        BY <1>2, <3>1 DEF SharedEntitiesApart, AttemptsOf, Recorded
      <4>2. \A o, p \in Jobs : HalfWay(o, p, a) => HalfWay(o, p, a)'
        BY <1>0, <2>1, JobFacts DEF HalfWay, Recorded
      <4> QED
        BY <4>1, <4>2
    <3>2. ASSUME NEW p \in Jobs, p = j, ~\E g \in Entities : Recorded(j, g, a), a = n,
                 NEW o \in Jobs, o # j, Range(o.group) \cap Range(j.group) # {},
                 NEW g \in Entities, Recorded(o, g, a)'
          PROVE  HalfWay(o, p, a)'
      <4>1. Recorded(o, g, a)
        BY <2>1, <3>2
      <4>2. g \in Range(o.group)
        BY <1>2, <4>1 DEF RecordsOK
      <4>3. \A x \in Range(j.group) : records[<<x, n>>] = NoRecord
        BY <1>0, <2>3, <3>2
      <4>4. g \in Range(o.group) \ Range(j.group)
        BY <3>2, <4>1, <4>2, <4>3 DEF Recorded, NoRecord
      <4>5. PICK x : x \in Range(o.group) /\ x \in Range(j.group)
        BY <3>2
      <4>6. ~Recorded(o, x, a)
        BY <3>2, <4>3, <4>5 DEF Recorded, NoRecord
      <4>7. o.id \in interrupted
        BY <1>0, <1>2, <3>2, <4>1, <4>5, <4>6 DEF WholeOK
      <4> QED
        BY <1>0, <3>2, <4>4, <4>7 DEF HalfWay, Recorded
    <3>3. CASE ~\E g \in Entities : Recorded(k, g, a)
      <4>1. k = j /\ a = n
        BY <2>1, <3>3
      <4> QED
        BY <3>2, <3>3, <4>1
    <3>4. CASE ~\E g \in Entities : Recorded(m, g, a)
      <4>1. m = j /\ a = n
        BY <2>1, <3>4
      <4> QED
        BY <3>2, <3>4, <4>1
    <3> QED
      BY <3>1, <3>3, <3>4
  <2>8. j.id \in records'[<<c, n>>].jobs
    BY <1>0, <1>1, <1>4, AppendFacts
  <2> QED
    BY <1>0, <2>6, <2>7, <2>8 DEF j, n
<1> QED
  BY <1>3, <1>4

\* Once the last record of the group is written, the job has them all.
LEMMA WriteWholeStep ==
    ASSUME OneInvocation, InferenceInv, NEW v \in Invocations, WriteRecord(v)
    PROVE  /\ WholeOK'
           /\ attempt[v] \in Attempts => \A i \in 1..Len(job[v].group) : i <= ctx[v] =>
                 job[v].id \in records'[<<job[v].group[i], attempt[v]>>].jobs
<1> PICK j \in Jobs, n \in Nat, c \in Entities : j = job[v] /\ n = attempt[v] /\ c = entity(v)
  BY JobFacts DEF InferenceInv, LocalOK, entity
<1>0. /\ ctx[v] \in 1..Len(j.group) /\ Len(j.group) \in Nat
      /\ Range(j.group) = {j.group[i] : i \in 1..Len(j.group)}
      /\ \A i \in 1..Len(j.group) : j.group[i] \in Entities
      /\ c = j.group[ctx[v]] /\ interrupted' = interrupted
      /\ n \in Attempts => \A i \in 1..Len(j.group) : i < ctx[v] => Recorded(j, j.group[i], n)
  BY JobFacts DEF InferenceInv, LocalOK, entity, WriteRecord
<1>1. \A e \in Entities, a \in Attempts :
         records'[<<e, a>>] = IF e = c /\ a = n THEN Appended(records[<<e, a>>], j)
                              ELSE records[<<e, a>>]
  BY WriteFacts
<1>3. ASSUME NEW k \in Jobs, NEW e \in Entities, NEW a \in Attempts
      PROVE  /\ Recorded(k, e, a) => Recorded(k, e, a)'
             /\ Recorded(k, e, a)' => Recorded(k, e, a) \/ (k = j /\ a = n)
  <2>1. CASE e = c /\ a = n
    <3>1. records'[<<e, a>>].jobs = records[<<e, a>>].jobs \cup {j.id}
      BY <1>1, <2>1, AppendFacts
    <3>2. k.id = j.id => k = j
      BY JobFacts
    <3> QED
      BY <2>1, <3>1, <3>2 DEF Recorded
  <2>2. CASE ~(e = c /\ a = n)
    BY <1>1, <2>2 DEF Recorded
  <2> QED
    BY <2>1, <2>2
<1>4. n \in Attempts => Recorded(j, c, n)'
  <2>1. n \in Attempts => records'[<<c, n>>].jobs = records[<<c, n>>].jobs \cup {j.id}
    BY <1>1, AppendFacts
  <2> QED
    BY <2>1 DEF Recorded
<1>5. ASSUME n \in Attempts, NEW i \in 1..Len(j.group), i <= ctx[v]
      PROVE  Recorded(j, j.group[i], n)'
  <2>1. CASE i < ctx[v]
    BY <1>0, <1>3, <1>5, <2>1
  <2>2. CASE i = ctx[v]
    BY <1>0, <1>4, <1>5, <2>2
  <2> QED
    BY <1>0, <1>5, <2>1, <2>2
<1>6. ASSUME NEW k \in Jobs, NEW e \in Entities, NEW a \in Attempts, Recorded(k, e, a)'
      PROVE  \/ k.id \in interrupted'
             \/ \A f \in Range(k.group) : Recorded(k, f, a)'
             \/ \E w \in Invocations : Writing(w, k, a)'
  <2>1. CASE k = j /\ a = n /\ ctx[v] < Len(j.group)
    <3>1. /\ pc'[v] = "read" /\ job'[v] = j /\ ctx'[v] = ctx[v] + 1 /\ attempt'[v] = n
      <4>1. Enter(v, "read", job[v], ctx[v] + 1, attempt[v])
        BY <2>1 DEF WriteRecord
      <4> QED
        BY <4>1, EnterFacts DEF InferenceInv
    <3>2. ctx[v] + 1 > 1
      BY <1>0
    <3>3. Writing(v, k, a)'
      BY <2>1, <3>1, <3>2 DEF Writing, HalfWritten
    <3> QED
      BY <3>3
  <2>2. CASE k = j /\ a = n /\ ~(ctx[v] < Len(j.group))
    <3>1. \A i \in 1..Len(j.group) : Recorded(j, j.group[i], n)'
      BY <1>0, <1>5, <1>6, <2>2
    <3>2. \A f \in Range(j.group) : Recorded(j, f, n)'
      BY <1>0, <3>1
    <3> QED
      BY <2>2, <3>2
  <2>3. CASE ~(k = j /\ a = n)
    <3>1. Recorded(k, e, a)
      BY <1>3, <1>6, <2>3
    <3>2. ~\E w \in Invocations : Writing(w, k, a)
      BY <2>3 DEF Writing, OneInvocation
    <3>3. k.id \in interrupted \/ \A f \in Range(k.group) : Recorded(k, f, a)
      BY <3>1, <3>2 DEF InferenceInv, WholeOK
    <3>4. Range(k.group) \subseteq Entities
      BY JobFacts
    <3> QED
      BY <1>0, <1>3, <3>3, <3>4
  <2> QED
    BY <2>1, <2>2, <2>3
<1>7. WholeOK'
  BY <1>6 DEF WholeOK
<1> QED
  BY <1>5, <1>7 DEF Recorded

LEMMA WriteStep ==
    ASSUME OneInvocation, InferenceInv, NEW v \in Invocations, WriteRecord(v)
    PROVE  InferenceInv'
<1>1. /\ RecordsOK' /\ SharedEntitiesApart' /\ WholeOK'
      /\ attempt[v] \in Attempts => \E e \in Range(job[v].group) :
            job[v].id \in records'[<<e, attempt[v]>>].jobs
      /\ attempt[v] \in Attempts => \A i \in 1..Len(job[v].group) :
            i <= ctx[v] => job[v].id \in records'[<<job[v].group[i], attempt[v]>>].jobs
  BY WriteRecordsStep, WriteWholeStep
<1>2. /\ job[v] \in Jobs /\ ctx[v] \in 1..Len(job[v].group) /\ attempt[v] \in Nat
      /\ Len(job[v].group) \in Nat /\ DomainsOK /\ DOMAIN records' = Entities \X Attempts
  BY WriteFacts, JobFacts DEF InferenceInv, LocalOK
<1>3. CASE ctx[v] < Len(job[v].group)
  <2>1. Enter(v, "read", job[v], ctx[v] + 1, attempt[v])
    BY <1>3 DEF WriteRecord
  <2>2. /\ pc'[v] = "read" /\ job'[v] = job[v] /\ ctx'[v] = ctx[v] + 1
        /\ attempt'[v] = attempt[v] /\ DomainsOK'
    BY <1>2, <2>1, EnterFacts
  <2>3. attempt'[v] \in Attempts =>
           /\ Resolved(v)'
           /\ \A i \in 1..Len(job'[v].group) :
                 i < ctx'[v] => Recorded(job[v], job[v].group[i], attempt[v])'
    <3>1. ASSUME attempt[v] \in Attempts, NEW i \in 1..Len(job[v].group), i < ctx[v] + 1
          PROVE  job[v].id \in records'[<<job[v].group[i], attempt[v]>>].jobs
      BY <1>1, <1>2, <3>1
    <3> QED
      BY <1>1, <1>2, <2>2, <3>1 DEF Resolved, Recorded
  <2>4. LocalOK(v)'
    BY <1>2, <1>3, <2>2, <2>3 DEF LocalOK, Recorded
  <2> QED
    BY <1>1, <2>2, <2>4 DEF InferenceInv, OneInvocation
<1>4. CASE ~(ctx[v] < Len(job[v].group))
  <2>1. Enter(v, "idle", AnyJob, 1, 1)
    BY <1>4 DEF WriteRecord
  <2>2. /\ pc'[v] = "idle" /\ job'[v] = AnyJob /\ ctx'[v] = 1 /\ attempt'[v] = 1 /\ DomainsOK'
    BY <1>2, <2>1, EnterFacts
  <2>3. LocalOK(v)'
    BY <2>2, AnyJobFact, JobFacts DEF LocalOK
  <2> QED
    BY <1>1, <2>2, <2>3 DEF InferenceInv, OneInvocation
<1> QED
  BY <1>3, <1>4

-----------------------------------------------------------------------------
(* The theorems *)

LEMMA InferenceInitInv == Init => InferenceInv
<1> SUFFICES ASSUME Init PROVE InferenceInv
  OBVIOUS
<1>1. \A e \in Entities, a \in Attempts : records[<<e, a>>] = NoRecord
  BY DEF Init
<1>2. NoRecord.jobs = {}
  BY DEF NoRecord
<1>3. RecordsOK /\ WholeOK /\ SharedEntitiesApart
  BY <1>1, <1>2 DEF RecordsOK, WholeOK, Recorded, SharedEntitiesApart, AttemptsOf
<1>4. DomainsOK
  BY DEF Init, DomainsOK
<1>5. \A v \in Invocations : LocalOK(v)
  BY AnyJobFact, JobFacts DEF Init, LocalOK
<1> QED
  BY <1>3, <1>4, <1>5 DEF InferenceInv

LEMMA InferenceInvStep ==
    ASSUME OneInvocation, InferenceInv, [Next]_vars
    PROVE  InferenceInv'
<1>1. ASSUME NEW v \in Invocations, NEW j \in Jobs, Deliver(v, j) PROVE InferenceInv'
  BY <1>1, IdleStep DEF Deliver, HalfWritten
<1>2. ASSUME NEW v \in Invocations, Crash(v) PROVE InferenceInv'
  BY <1>2, IdleStep, AnyJobFact DEF Crash
<1>3. ASSUME NEW v \in Invocations, CompareRecord(v) PROVE InferenceInv'
  <2>1. PICK a \in recorded[v] :
           Found(v, a) \/ (NotFound(v, a) /\ recorded' = [recorded EXCEPT ![v] = @ \ {a}])
    BY <1>3 DEF CompareRecord, Newest
  <2>2. pc[v] = "compare" /\ records' = records /\ interrupted' = interrupted
    BY <1>3 DEF CompareRecord
  <2> QED
    BY <2>1, <2>2, FoundStep, NotFoundStep
<1>4. ASSUME NEW v \in Invocations, Step(v) PROVE InferenceInv'
  BY <1>3, <1>4, ListStep, NextEntityStep, ReadStep, WriteStep DEF Step
<1>5. CASE UNCHANGED vars
  <2>1. /\ records' = records /\ pc' = pc /\ job' = job /\ ctx' = ctx
        /\ recorded' = recorded /\ attempt' = attempt /\ record' = record
        /\ interrupted' = interrupted
    BY <1>5 DEF vars, task
  <2>2. RecordsOK' /\ SharedEntitiesApart'
    BY <2>1, SameRecords DEF InferenceInv
  <2>3. ASSUME NEW v \in Invocations PROVE LocalOK(v)'
    <3>1. LocalOK(v)
      BY DEF InferenceInv
    <3> QED
      BY <2>1, <3>1 DEF LocalOK, Searched, Resolved, Unrecorded, Recorded, entity
  <2>4. WholeOK'
    BY <2>1, SameWhole DEF InferenceInv, Writing, HalfWritten
  <2> QED
    BY <2>1, <2>2, <2>3, <2>4 DEF InferenceInv, DomainsOK
<1> QED
  BY <1>1, <1>2, <1>4, <1>5 DEF Next

\* With one invocation at a time, whichever fail half way, the search finds a
\* job's own record, or an attempt none of its entities has.
THEOREM InferenceInvariantHolds ==
    ASSUME OneInvocation
    PROVE  Spec => []InferenceInv
<1>1. InferenceInv /\ [Next]_vars => InferenceInv'
  BY InferenceInvStep
<1> QED
  BY <1>1, InferenceInitInv, PTL DEF Spec

\* Every event of a Batch job is recorded under one attempt.
THEOREM OneAttemptEach ==
    ASSUME OneInvocation
    PROVE  Spec => []OneAttemptPerJob
<1>1. InferenceInv => OneAttemptPerJob
  <2> SUFFICES ASSUME InferenceInv, NEW j \in Jobs PROVE Cardinality(AttemptsOf(j.id)) <= 1
    BY DEF OneAttemptPerJob, JobIds
  <2>1. \A a, b \in AttemptsOf(j.id) : a = b
    <3> SUFFICES ASSUME NEW a \in AttemptsOf(j.id), NEW b \in AttemptsOf(j.id) PROVE a = b
      OBVIOUS
    <3>1. PICK e \in Entities : Recorded(j, e, a)
      BY DEF AttemptsOf, Recorded
    <3>2. PICK f \in Entities : Recorded(j, f, b)
      BY DEF AttemptsOf, Recorded
    <3>3. a \in Attempts /\ b \in Attempts
      BY DEF AttemptsOf
    <3> QED
      BY <3>1, <3>2, <3>3 DEF InferenceInv, RecordsOK
  <2>2. CASE AttemptsOf(j.id) = {}
    BY <2>2, FS_EmptySet
  <2>3. CASE AttemptsOf(j.id) # {}
    <3>1. PICK a : a \in AttemptsOf(j.id)
      BY <2>3
    <3>2. AttemptsOf(j.id) = {a}
      BY <2>1, <3>1
    <3> QED
      BY <3>2, FS_Singleton
  <2> QED
    BY <2>2, <2>3
<1> QED
  BY <1>1, InferenceInvariantHolds, PTL

\* Jobs that share an entity are under one attempt only if an invocation for one of
\* them failed between the writes of its group, having written the record of an
\* entity that the other job does not have.  Jobs of the same entities, and jobs
\* whose invocations never fail half way, keep attempts of their own.
THEOREM SharedApart ==
    ASSUME OneInvocation
    PROVE  Spec => []SharedEntitiesApart
<1>1. InferenceInv => SharedEntitiesApart
  BY DEF InferenceInv
<1> QED
  BY <1>1, InferenceInvariantHolds, PTL
===============================================================================
