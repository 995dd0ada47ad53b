----------------------------- MODULE MCBenchmark -----------------------------
(* The benchmark's pipeline on rows in which two attack families start from *)
(* the same base instruction, as the rows of CPDonline do.                  *)
EXTENDS AblationBenchmark, TLC

Row(base, family, domain) == [base |-> base, family |-> family, domain |-> domain]

(* One family in three groups, as the manifest asks for, and one of its base*)
(* instructions attacked by another family, in three groups as well.        *)
Rows == <<Row("b1", "gcg", "optimized_suffix"), Row("b2", "gcg", "optimized_suffix"),
          Row("b3", "gcg", "optimized_suffix"), Row("b1", "autodan", "optimized_suffix"),
          Row("b2", "autodan", "optimized_suffix"), Row("b3", "autodan", "optimized_suffix"),
          Row("b4", "benign", "benign_plain"), Row("b5", "benign", "benign_plain"),
          Row("t1", "none", "benign_shift"), Row("u1", "none", "semantic_unsafe")>>

(* An order of the groups; each row here is a group of its own.             *)
Orders ==
  [a |-> [i \in 1..10 |->
            LET row == Rows[<<9, 10, 1, 7, 4, 2, 3, 5, 6, 8>>[i]] IN
            IF row.domain \in {"optimized_suffix", "benign_plain"}
              THEN <<"grp", row.base, row.family>> ELSE <<row.domain, row.base>>]]

=============================================================================
