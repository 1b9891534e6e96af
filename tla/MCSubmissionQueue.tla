-------------------------- MODULE MCSubmissionQueue --------------------------
(* The queue on two workers: constants are given in the configurations.    *)
EXTENDS SubmissionQueue
=============================================================================
