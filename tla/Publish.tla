------------------------------- MODULE Publish -------------------------------
(***************************************************************************)
(* What a user who looks at the output path while format/pe.rs rewrites an *)
(* image may count on: the old file is there until an input has been       *)
(* accepted, then a draft, then the result; only a failure turns a result  *)
(* back into a draft; success is reported only of a result.  A failure     *)
(* leaves whatever is there: nothing is renamed into place or undone.      *)
(***************************************************************************)

VARIABLES
    accepted,   \* the input has been parsed
    file,       \* what is at the path: "old", "draft" or "result"
    outcome     \* "running", "done", "failed"

vars == << accepted, file, outcome >>

Init ==
    /\ accepted = FALSE
    /\ file = "old"
    /\ outcome = "running"

Accept ==
    /\ outcome = "running" /\ ~accepted
    /\ accepted' = TRUE
    /\ UNCHANGED << file, outcome >>

\* The writer may find only then that there is nothing to do.
Begin ==
    /\ outcome = "running" /\ accepted
    /\ file = "old"
    /\ file' = "draft"
    /\ outcome' \in {"running", "failed"}
    /\ UNCHANGED accepted

\* The write that makes the file the result may be cut short and still do so.
Complete ==
    /\ outcome = "running"
    /\ file = "draft"
    /\ file' = "result"
    /\ outcome' \in {"running", "failed"}
    /\ UNCHANGED accepted

Succeed ==
    /\ outcome = "running"
    /\ file = "result"
    /\ outcome' = "done"
    /\ UNCHANGED << accepted, file >>

\* A write that is cut short may also spoil what could be read before.
Fail ==
    /\ outcome = "running"
    /\ outcome' = "failed"
    /\ file' \in {file} \cup IF file = "result" THEN {"draft"} ELSE {}
    /\ UNCHANGED accepted

Next == Accept \/ Begin \/ Complete \/ Succeed \/ Fail

Spec == Init /\ [][Next]_vars

=============================================================================
