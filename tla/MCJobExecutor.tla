--------------------------- MODULE MCJobExecutor ---------------------------
(***************************************************************************)
(* Values for the constants of JobExecutor: small sets of job frames, and  *)
(* the job_id each one carries.                                            *)
(***************************************************************************)
EXTENDS JobExecutor, TLC

CONSTANTS r1, r2, r3, r4, j1, j2

(* Every frame has a job_id of its own, as the coordinator's UUIDs promise:*)
(* the frame then stands for the id too, and frames are interchangeable.   *)
UniqueIds == [r \in Reqs |-> r]
AnyOrder  == Permutations(Reqs)

(* The coordinator repeats a job_id: r2 is a second frame of r1's job.     *)
RepeatedId == r1 :> j1 @@ r2 :> j1 @@ r3 :> j2
=============================================================================
