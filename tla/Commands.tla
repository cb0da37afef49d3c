------------------------------ MODULE Commands ------------------------------
(***************************************************************************)
(* The commands of rsigncode-cli (main.rs) on a shared file system: every  *)
(* process reads its input, works in memory, truncates its output, reads   *)
(* the input again while it writes.  No command locks a file, so whatever  *)
(* two processes do to the same paths interleaves, and each may read what  *)
(* the other has written so far.                                           *)
(*                                                                         *)
(* Files are seen at the level PeImage and PeWriter establish: an image is *)
(* its body (what authenticode_digest hashes) and its certificate table    *)
(* (nothing, or a PKCS#7 blob); a blob is the body it commits to, whether  *)
(* a signer signed it, its envelope ("native" as Windows wants it, or      *)
(* "wrapped" as RFC 5652 has it) and how often it was time-stamped.        *)
(***************************************************************************)
EXTENDS Integers

CONSTANTS
    Paths,       \* file names
    Contents,    \* path -> what it holds initially
    Strays,      \* PKCS#7 that stray bytes of an image may be taken for, see Drafts
    Workers,     \* processes that may run at a time
    Invocations, \* command lines: [cmd, in, sigin, out, lists]; lists is how
                 \* many lists of time-stamping URLs (-t, --ts) they name
    MaxCommands  \* how many commands are run in all

Nothing == [kind |-> "nothing"]     \* absent, or truncated to nothing
Garbage == [kind |-> "garbage"]     \* neither an image nor PKCS#7
Torn    == "torn"                   \* a body put together from pieces
NoBlob  == [none |-> TRUE]

Pe(body, table) == [kind |-> "pe", body |-> body, table |-> table]
Pkcs7(blob)     == [kind |-> "pkcs7", blob |-> blob]

Forms  == {"native", "wrapped"}
Bodies == {Contents[p].body : p \in {q \in Paths : Contents[q].kind = "pe"}} \cup {Torn}
Blobs  == [covers : Bodies, signed : BOOLEAN, form : Forms, stamps : Nat]
Files  == {Nothing, Garbage} \cup [kind : {"pkcs7"}, blob : Blobs]
          \cup [kind : {"pe"}, body : Bodies, table : Blobs \cup {NoBlob}]

CommandNames == {"sign", "add", "attach", "remove", "extract-signature", "extract-data", "remote"}

ASSUME CommandsAssumption ==
    /\ MaxCommands \in Nat
    /\ Contents \in [Paths -> Files]
    /\ Strays \subseteq Blobs
    /\ Invocations \subseteq [cmd : CommandNames, in : Paths, sigin : Paths, out : Paths,
                              lists : 0 .. 2]

VARIABLES
    disk,      \* path -> contents
    jobs,      \* worker -> the command it runs, see Idle
    started    \* commands started so far

vars == << disk, jobs, started >>

\* phase: where the command is; seen: the image as it was parsed; blob: the
\* PKCS#7 in memory; disturbed: another process wrote to one of the command's
\* paths since, so that what it reads again or wrote need not be what it takes it
\* for (Alone, Mixed).  History: before, what the output held at the start.
Idle == [phase |-> "idle", disturbed |-> FALSE]

Job(i) == [phase |-> "begin", inv |-> i, seen |-> Nothing, blob |-> NoBlob,
           before |-> disk[i.out], disturbed |-> FALSE]

Init ==
    /\ disk = Contents
    /\ jobs = [w \in Workers |-> Idle]
    /\ started = 0

----------------------------------------------------------------------------
(* Helpers *)

Cmd(w)   == jobs[w].inv.cmd
In(w)    == jobs[w].inv.in
SigIn(w) == jobs[w].inv.sigin
Out(w)   == jobs[w].inv.out
Lists(w) == jobs[w].inv.lists
At(w, phase) == jobs[w].phase = phase

Running(w) == jobs[w].phase \notin {"idle", "done", "refused"}

\* The command ends with an error, without writing.
Refuse(w) == jobs' = [jobs EXCEPT ![w].phase = "refused"] /\ UNCHANGED disk

\* Worker w writes to its output: every other job that uses the path is told,
\* or, when it has ended, forgotten.
Write(w, file, phase) ==
    /\ disk' = [disk EXCEPT ![Out(w)] = file]
    /\ jobs' = [v \in Workers |->
           IF v = w THEN [jobs[v] EXCEPT !.phase = phase]
           ELSE IF jobs[v] # Idle /\ Out(w) \in {In(v), SigIn(v), Out(v)}
                THEN IF Running(v) THEN [jobs[v] EXCEPT !.disturbed = TRUE] ELSE Idle
           ELSE jobs[v]]

\* Mutant: the envelope is left as it came.
Normalized_Not(blob) == blob

Normalized(blob) == [blob EXCEPT !.form = "native"]

IsImage(file)  == file.kind = "pe"
IsSigned(file) == IsImage(file) /\ file.table # NoBlob

\* verify: the envelope, the digest and the signature.
Verifies(file) ==
    /\ IsSigned(file)
    /\ file.table.form = "native"
    /\ file.table.covers = file.body
    /\ file.table.signed

----------------------------------------------------------------------------
(* Starting a command *)

Start(w) ==
    /\ ~Running(w)
    /\ started < MaxCommands
    /\ \E i \in Invocations : jobs' = [jobs EXCEPT ![w] = Job(i)]
    /\ started' = started + 1
    /\ UNCHANGED disk

----------------------------------------------------------------------------
(* Reading: File::open, parse_pe and what each command takes from the image *)

\* cmd_attach_signature reads and normalizes --sigin before it opens --in.
ReadSignature(w) ==
    /\ At(w, "begin") /\ Cmd(w) = "attach"
    /\ disk[SigIn(w)].kind = "pkcs7"
    /\ jobs' = [jobs EXCEPT ![w].blob = Normalized(disk[SigIn(w)].blob),
                            ![w].phase = "open_input"]
    /\ UNCHANGED disk

ReadSignatureFails(w) ==
    /\ At(w, "begin") /\ Cmd(w) = "attach"
    /\ disk[SigIn(w)].kind # "pkcs7"
    /\ Refuse(w)

AtOpenInput(w) ==
    \/ At(w, "begin") /\ Cmd(w) \notin {"attach", "remote"}
    \/ At(w, "open_input")

\* Mutant: any image will do.
InputAccepted_Unsigned(w) ==
    /\ Cmd(w) = "add" => Lists(w) > 0
    /\ IsImage(disk[In(w)])

\* add wants a URL to ask; add and extract-signature want a signature to be
\* there.
InputAccepted(w) ==
    /\ Cmd(w) = "add" => Lists(w) > 0
    /\ IsImage(disk[In(w)])
    /\ Cmd(w) \in {"add", "extract-signature"} => IsSigned(disk[In(w)])

\* The PKCS#7 a command holds once it has read the image: a commitment to its
\* digest that nobody signed yet, the embedded signature, or what it had.
BlobRead(w) ==
    LET image == disk[In(w)]
        fresh == [covers |-> image.body, signed |-> FALSE,
                  form |-> "wrapped", stamps |-> 0]
    IN  CASE Cmd(w) \in {"sign", "extract-data"}        -> fresh
          [] Cmd(w) \in {"add", "extract-signature"}    -> image.table
          [] OTHER                                      -> jobs[w].blob

\* Mutant: the output is opened before the signature is there.
ReadInput_OpensOutput(w) ==
    /\ AtOpenInput(w)
    /\ InputAccepted(w)
    /\ disk' = [disk EXCEPT ![Out(w)] = Nothing]
    /\ jobs' = [jobs EXCEPT
           ![w].seen = disk[In(w)],
           ![w].blob = BlobRead(w),
           ![w].phase = IF Cmd(w) \in {"sign", "add"} THEN "signing" ELSE "writing"]

ReadInput(w) ==
    /\ AtOpenInput(w)
    /\ InputAccepted(w)
    /\ jobs' = [jobs EXCEPT
           ![w].seen = disk[In(w)],
           ![w].blob = BlobRead(w),
           ![w].phase = IF Cmd(w) \in {"sign", "add"} THEN "signing" ELSE "open_output"]
    /\ UNCHANGED disk

ReadInputFails(w) ==
    /\ AtOpenInput(w)
    /\ ~InputAccepted(w)
    /\ Refuse(w)

----------------------------------------------------------------------------
(* Working: the key, the time-stamping authorities *)

\* sign_spc_indirect_data and add_timestamps both end in
\* normalize_authenticode_signature; one stamp for every list that is named.
Made(blob, lists) ==
    [Normalized(blob) EXCEPT !.signed = TRUE, !.stamps = blob.stamps + lists]

\* Mutant: the stamps that were there are replaced.
CreateSignature_Restamps(w) ==
    /\ At(w, "signing")
    /\ Cmd(w) = "add" => jobs[w].blob.signed
    /\ jobs' = [jobs EXCEPT
           ![w].blob = [Normalized(@) EXCEPT !.signed = TRUE, !.stamps = Lists(w)],
           ![w].phase = "open_output"]
    /\ UNCHANGED disk

CreateSignature(w) ==
    /\ At(w, "signing")
    /\ Cmd(w) = "add" => jobs[w].blob.signed
    /\ jobs' = [jobs EXCEPT
           ![w].blob = Made(@, Lists(w)),
           ![w].phase = "open_output"]
    /\ UNCHANGED disk

\* No key, no TSA, or, for add, a PKCS#7 without a signer.
CreateSignatureFails(w) ==
    /\ At(w, "signing")
    /\ Refuse(w)

----------------------------------------------------------------------------
(* Writing *)

\* OpenOptions::truncate, fs::write: the old output is gone.
OpenOutput(w) ==
    /\ At(w, "open_output")
    /\ Write(w, Nothing, "writing")

OpenOutputFails(w) ==
    /\ At(w, "open_output")
    /\ Refuse(w)

\* write_unsigned_pe_to looks for a signature only now.
SignatureMissing(w) == Cmd(w) = "remove" /\ jobs[w].seen.table = NoBlob

NothingToRemove(w) ==
    /\ At(w, "writing")
    /\ SignatureMissing(w)
    /\ Refuse(w)

WritesImage(w) == Cmd(w) \notin {"extract-signature", "extract-data"}

NewTable(w) == IF Cmd(w) = "remove" THEN NoBlob ELSE jobs[w].blob

\* Nobody else wrote to the command's files, nor did it truncate its own input.
Alone(w) == ~jobs[w].disturbed /\ In(w) # Out(w)

\* The result: the input, read a second time with the offsets of the first.
Whole(w) == IF WritesImage(w) THEN Pe(disk[In(w)].body, NewTable(w)) ELSE Pkcs7(jobs[w].blob)

Pieces(w) == {file \in {jobs[w].seen, disk[In(w)], disk[Out(w)]} : IsImage(file)}

\* When the input or the output changed under the command: no image; the body
\* of one of the files that met, with the table as it should be or without; or
\* a mixture under any table, its own or one that came along with the pieces.
Mixed(w) ==
    IF WritesImage(w)
    THEN {Garbage}
         \cup {Pe(body, table) : body \in {Torn} \cup {file.body : file \in Pieces(w)},
                                 table \in {NewTable(w), NoBlob}}
         \cup {Pe(Torn, table) : table \in Strays \cup {file.table : file \in Pieces(w)}}
    ELSE {Garbage, Pkcs7(jobs[w].blob)}

Results(w) == IF Alone(w) THEN {Whole(w)} ELSE Mixed(w)

\* What a write_all may have left when the next one begins or fails: no image; an
\* image without a table, its body whole or in part; a copy cut short so that an
\* entry the input ignores becomes trailing, or whose old entry is cleared in
\* part, where stray bytes pass for a table (PeWriter, NoTornSignature); the
\* changed input as it is; the complete file, but for its checksum.
Drafts(w) ==
    LET unsigned == {Pe(body, NoBlob) : body \in {Torn, jobs[w].seen.body}}
        exposed  == {Pe(Torn, stray) : stray \in Strays}
        changed  == IF Alone(w) THEN {} ELSE {disk[In(w)]}
    IN  {Garbage} \cup Results(w)
        \cup (IF WritesImage(w) THEN unsigned \cup exposed \cup changed ELSE {})

\* Part is written, and others can read it.
WriteDraft(w) ==
    /\ At(w, "writing")
    /\ ~SignatureMissing(w)
    /\ \E file \in Drafts(w) : Write(w, file, "writing")

WriteOutput(w) ==
    /\ At(w, "writing")
    /\ ~SignatureMissing(w)
    /\ \E file \in Results(w) : Write(w, file, "done")

\* An I/O error or a kill: what was written stays.
WriteFails(w) ==
    /\ At(w, "writing")
    /\ jobs' = [jobs EXCEPT ![w] = Idle]
    /\ UNCHANGED disk

----------------------------------------------------------------------------
(* The remote signer of the extract-data flow, a process of another machine:  *)
(* it signs the content it is sent verbatim and answers in either envelope.   *)

RemoteSigns(w) ==
    /\ At(w, "begin") /\ Cmd(w) = "remote"
    /\ disk[SigIn(w)].kind = "pkcs7"
    /\ \E form \in Forms :
           Write(w, Pkcs7([disk[SigIn(w)].blob EXCEPT !.signed = TRUE, !.form = form,
                                                      !.stamps = 0]), "done")

RemoteRefuses(w) ==
    /\ At(w, "begin") /\ Cmd(w) = "remote"
    /\ disk[SigIn(w)].kind # "pkcs7"
    /\ Refuse(w)

----------------------------------------------------------------------------

Command(w) ==
    \/ ReadSignature(w) \/ ReadSignatureFails(w)
    \/ ReadInput(w) \/ ReadInputFails(w)
    \/ CreateSignature(w) \/ CreateSignatureFails(w)
    \/ OpenOutput(w) \/ OpenOutputFails(w) \/ NothingToRemove(w)
    \/ WriteDraft(w) \/ WriteOutput(w) \/ WriteFails(w)
    \/ RemoteSigns(w) \/ RemoteRefuses(w)

Next == \E w \in Workers : Start(w) \/ (Command(w) /\ UNCHANGED started)

Spec == Init /\ [][Next]_vars

----------------------------------------------------------------------------
(* Properties *)

\* Types; a command that goes on to sign or write has what it needs for it.
TypeOK ==
    /\ disk \in [Paths -> Files]
    /\ started \in 0 .. MaxCommands
    /\ \A w \in Workers : jobs[w] # Idle =>
           /\ jobs[w].inv \in Invocations
           /\ jobs[w].seen \in Files /\ jobs[w].before \in Files
           /\ At(w, "signing") => jobs[w].blob \in Blobs
           /\ At(w, "writing") => IsImage(jobs[w].seen)
           /\ At(w, "writing") /\ Cmd(w) # "remove" => jobs[w].blob \in Blobs

\* A command that succeeded while nobody else touched its files kept what its
\* name says: the image's body is the input's; sign gives a file that verifies;
\* add keeps a good signature good and its stamps, plus its own; a signature made
\* remotely over this very image verifies once attached; remove leaves none.
SuccessIsWhole ==
    \A w \in Workers :
        /\ At(w, "done") /\ Alone(w)
        /\ Cmd(w) \in {"sign", "add", "attach", "remove"}
        => LET out  == disk[Out(w)]
               seen == jobs[w].seen
           IN  /\ IsImage(out) /\ out.body = seen.body
               /\ Cmd(w) = "sign" => Verifies(out)
               /\ Cmd(w) = "add" =>
                      /\ Verifies(out) <=> seen.table.covers = seen.body
                      /\ out.table.stamps = seen.table.stamps + Lists(w)
               /\ Cmd(w) = "attach" /\ jobs[w].blob.covers = seen.body
                      /\ jobs[w].blob.signed => Verifies(out)
               /\ Cmd(w) = "remove" => ~IsSigned(out)

\* A table that the files had before any command ran, shown or not.
Inherited == Strays \cup {Contents[p].table : p \in {q \in Paths : IsImage(Contents[q])}}

Accounted(file) ==
    IsSigned(file) =>
        \/ file.table.form = "native"
        \/ \E p \in Paths : file = Contents[p]
        \/ file.body = Torn /\ file.table \in Inherited

\* No run of commands, however interleaved or interrupted, embeds a PKCS#7 in
\* the envelope Windows rejects, although signers, remote signers and the inputs
\* of the timestamp code deliver it: a file that shows one, at any moment, is one
\* of the initial files, or pieces of them that show a table they came with.
EmbeddedIsNative == \A p \in Paths : Accounted(disk[p])

\* A command that is refused - a bad input, no key, no TSA answer - leaves the
\* file at its output path as it was.  A remove-signature that finds nothing to
\* remove has emptied it by then, and leaves at least no image.
RefusedKeepsOutput ==
    \A w \in Workers :
        At(w, "refused") /\ ~jobs[w].disturbed =>
            \/ disk[Out(w)] = jobs[w].before
            \/ Cmd(w) = "remove" /\ disk[Out(w)] = Nothing

\* attach-signature rejects a PKCS#7 that commits to the digest of another
\* file (signing.rs:128-130 and 740-742 speak of this check).
AttachChecksDigest ==
    \A w \in Workers :
        At(w, "done") /\ ~jobs[w].disturbed /\ Cmd(w) = "attach" =>
            jobs[w].blob.covers = jobs[w].seen.body

=============================================================================
