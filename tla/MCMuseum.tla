------------------------------ MODULE MCMuseum ------------------------------
(* Instances of Museum for TLC. *)
EXTENDS Museum, TLC

CONSTANTS june, midJune, july

MCCapacity == [z \in ZoneId |-> 1]

\* june and midJune overlap; july starts when june ends.
MCStartAt == [p \in Period |-> CASE p = june -> 0 [] p = midJune -> 1 [] p = july -> 2]
MCEndAt   == [p \in Period |-> CASE p = june -> 2 [] p = midJune -> 3 [] p = july -> 4]

CallerSymmetry == Permutations(Caller)

IdSymmetry == Permutations(Caller) \cup Permutations(ArtifactId)
              \cup Permutations(QuarantineId)
              \cup Permutations(PlanId) \cup Permutations(LoanId)
              \cup Permutations(CaseId) \cup Permutations(IncidentId)
=============================================================================
