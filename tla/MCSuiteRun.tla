----------------------------- MODULE MCSuiteRun -----------------------------
(* Two tests, up to two threads, two attempts.  With capture the number of  *)
(* threads and the Shared dependencies matter, without it neither the       *)
(* latter nor the formatter; JUnit is run with one thread.                  *)
EXTENDS SuiteRun

CONSTANTS t1, t2
MCTests == {t1, t2}

Started(nocapture, threads, shared, format, logfile) ==
    [nocapture |-> nocapture, threads |-> threads, shared |-> shared,
     format |-> format, logfile |-> logfile, spawn |-> FALSE]

MCArguments ==
    {Started(FALSE, w, shared, "ctrf", TRUE) : w \in {1, 2}, shared \in BOOLEAN}
    \cup {Started(FALSE, 2, FALSE, "pretty", FALSE), Started(TRUE, 2, FALSE, "pretty", TRUE)}
    \cup {Started(FALSE, 1, FALSE, "junit", logfile) : logfile \in BOOLEAN}
    \cup {Started(TRUE, 2, FALSE, "json", FALSE)}
=============================================================================
