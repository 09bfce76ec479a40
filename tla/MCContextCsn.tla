---------------------------- MODULE MCContextCsn ----------------------------
(***************************************************************************)
(* Small instances of ContextCsn for TLC.                                  *)
(***************************************************************************)
EXTENDS ContextCsn

CONSTANTS w1, w2, w3, e1, e2, main, sub

\* Every entry in the one database, or one entry in each of two.
OneDb == [e \in {e1, e2} |-> main]
TwoDbs == [e \in {e1, e2} |-> IF e = e1 THEN main ELSE sub]

\* What the suffix entry holds when the database is first opened.
NothingStored == [s \in Sids |-> 0]
LocalStored   == [s \in Sids |-> IF s = LocalSid THEN 1 ELSE 0]
=============================================================================
