------------------------------ MODULE MCNgImport ------------------------------
(* The importer with three modules and as many sources: all graphs they make.  *)
(* Which source is which makes no difference, nor which module is which; of    *)
(* the inputs that differ only in that some are left out, where `to' and the   *)
(* number of fields tell.  The same symmetry declared to TLC would not be      *)
(* sound for Ends.                                                             *)
EXTENDS NgImport, FiniteSets

CONSTANTS m1, m2, m3, s1, s2, s3

NumberOfFields(m) == Cardinality({r \in refs : r[1] = m})

OneOfEach ==
  \/ /\ to[s1] = m1 /\ to[s2] = m2 /\ to[s3] = m3
     /\ NumberOfFields(m1) >= NumberOfFields(m2)
     /\ NumberOfFields(m2) >= NumberOfFields(m3)
  \/ to[s1] = m1 /\ to[s2] = m1 /\ to[s3] = m2
  \/ to[s1] = m1 /\ to[s2] = m1 /\ to[s3] = m1

MCInit == Init /\ OneOfEach
MCSpec == MCInit /\ [][Next]_vars /\ WF_vars(Steps)
=============================================================================
