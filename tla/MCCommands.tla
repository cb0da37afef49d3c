----------------------------- MODULE MCCommands -----------------------------
(***************************************************************************)
(* Two images, one of them signed by another tool with a wrapped envelope, *)
(* an output path, a path for PKCS#7 files, and the command lines of the   *)
(* documented flows over them.                                             *)
(***************************************************************************)
EXTENDS Commands, TLC

MCPaths == {"a", "b", "o", "s"}

Foreign == [covers |-> "B", signed |-> TRUE, form |-> "wrapped", stamps |-> 0]

MCContents == [p \in MCPaths |->
    CASE p = "a" -> Pe("A", NoBlob)
      [] p = "b" -> Pe("B", Foreign)
      [] OTHER   -> Nothing]

\* A signature over the beginning of an image, which bytes appended later hide.
MCStrays == {[covers |-> Torn, signed |-> TRUE, form |-> "wrapped", stamps |-> 0]}

Line(c, in, sigin, out, lists) ==
    [cmd |-> c, in |-> in, sigin |-> sigin, out |-> out, lists |-> lists]

MCInvocations == {
    Line("sign", "b", "s", "o", 1),
    Line("add", "b", "s", "o", 2), Line("add", "o", "s", "b", 1),
    Line("add", "o", "s", "b", 0),
    Line("remove", "o", "s", "a", 0),
    Line("extract-signature", "o", "s", "s", 0),
    Line("extract-data", "a", "s", "s", 0),
    Line("remote", "a", "s", "s", 0),
    Line("attach", "a", "s", "o", 0) }

Symmetry == Permutations(Workers)

=============================================================================
