-------------------------------- MODULE Blob --------------------------------
(***************************************************************************)
(* What the envelope fix-up of crypto/signing.rs promises about a PKCS#7   *)
(* blob that is normalized, wrapped for the generic CMS parser, embedded   *)
(* in an image and extracted again, in any order: its content and all it   *)
(* holds besides stay what they are, and each rewrite gives exactly the    *)
(* form and the version it is for.                                         *)
(***************************************************************************)
EXTENDS Naturals

\* What cannot be read as a SignedData with content.
Unreadable == [form |-> "unreadable"]

VARIABLE view   \* Unreadable, or [parts, form, version, long, pad]: what the
                \* blob holds, the form of its content, its version, whether
                \* its lengths are longer than needed, trailing bytes

Init ==
    \/ view = Unreadable
    \/ /\ view.form \in {"native", "wrapped"}
       /\ view.version \in {1, 3}
       /\ view.long \in BOOLEAN
       /\ view.pad = 0

\* "Already-normalized signatures are returned unchanged" (signing.rs:524-525);
\* every other one is written anew, with nothing after its end.
Rewrite(form, version) ==
    /\ view # Unreadable
    /\ IF view.form = form /\ view.version = version
       THEN view' = view
       ELSE view' = [parts |-> view.parts, form |-> form, version |-> version,
                     long |-> FALSE, pad |-> 0]

\* Version 1 is the only one Windows accepts, 3 the one the CMS parser wants.
Normalize == Rewrite("native", 1)
Wrap      == Rewrite("wrapped", 3)

\* The certificate table pads the blob, which comes back with its padding.
Embed ==
    /\ view # Unreadable
    /\ \E n \in 0 .. 7 : view' = [view EXCEPT !.pad = @ + n]

Next == Normalize \/ Wrap \/ Embed

Spec == Init /\ [][Next]_view

=============================================================================
