------------------------ MODULE MCPublicationPipeline ------------------------
(* Small instances of PublicationPipeline: one bundle that normalises to a  *)
(* complete candidate and one that normalises to a partial candidate.       *)
EXTENDS PublicationPipeline, TLC

CONSTANTS full, short

MCQualityOf == full :> "complete" @@ short :> "partial"
OperatorSymmetry == Permutations(Operator)
=============================================================================
