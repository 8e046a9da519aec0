------------------------------ MODULE Queries ------------------------------
(***************************************************************************)
(* What the database may answer to SELECT ... ORDER BY ... LIMIT: rows of  *)
(* equal rank come in any order, so there are several answers, and what is *)
(* said of a reader is said of each of them.                               *)
(***************************************************************************)
EXTENDS Integers, FiniteSets

(* The rows S without repetition, limit of them or all when there are      *)
(* fewer, by ascending rank; a row is left out only for rows before it.    *)
Ordered(S, rank, limit) ==
  LET n == IF Cardinality(S) < limit THEN Cardinality(S) ELSE limit
  IN {p \in [1..n -> S] :
        /\ \A i, j \in 1..n : i < j => p[i] # p[j] /\ rank[p[i]] <= rank[p[j]]
        /\ \A i \in 1..n, s \in S :
             (\A j \in 1..n : p[j] # s) => rank[p[i]] <= rank[s]}
=============================================================================
