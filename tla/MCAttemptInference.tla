-------------------------- MODULE MCAttemptInference --------------------------
(***************************************************************************)
(* Small instances of AttemptInference for TLC.                            *)
(***************************************************************************)
EXTENDS AttemptInference

\* Two jobs of one composite of two entities, listed in either order, a job of one
\* of the two alone, and a job of that one and of another.
CompositeJobs ==
    {[id |-> "job1", group |-> <<"g1", "g2">>],
     [id |-> "job2", group |-> <<"g2", "g1">>],
     [id |-> "job3", group |-> <<"g2">>],
     [id |-> "job4", group |-> <<"g3", "g2">>]}

\* One entity, resubmitted as a new Batch job.
ResubmittedJobs ==
    {[id |-> "job1", group |-> <<"g1">>], [id |-> "job2", group |-> <<"g1">>]}
===============================================================================
