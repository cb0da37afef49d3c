# A TLA+ verification of rsigncode

rsigncode signs Windows PE files with Authenticode signatures: it computes the
Authenticode digest of an image, wraps it in a PKCS#7 SignedData, asks
time-stamping authorities (TSAs) for stamps over it, and rewrites the image with
the signature in its certificate table. This directory models that program in
TLA+, checks the models with TLC on small instances, and proves what matters
most with TLAPS for every size of the instance.

## Inventory

| component | source | state | operations | interacts with |
|---|---|---|---|---|
| PE container | `format/pe.rs` | the bytes of a file; `PeInfo` | `parse_pe`, `authenticode_digest`, `extract_signature`, `write_signed_pe`, `write_unsigned_pe`, `pe_calc_checksum` | the file system, directly |
| signing | `crypto/signing.rs` 15-285, 369-420 | none between calls | `create_authenticode_signature`, `sign_spc_indirect_data`, `build_extract_data_pkcs7` | a key (PEM or token), time-stamping, the envelope |
| envelope | `crypto/signing.rs` 302-367, 422-655 | a DER buffer | `normalize_authenticode_signature`, `wrap_authenticode_content`, `check_authenticode_envelope`, `parse_spc_indirect_data` | everything that parses or embeds PKCS#7 |
| time-stamping | `crypto/timestamp.rs` | the parsed SignedData during a call | `add_timestamps` | TSAs over HTTP |
| verification | `crypto/verify.rs` | the result list | `verify_pe_rich`, `all_ok` | PE container, envelope, chain |
| chain | `crypto/chain.rs` | the walk (current, visited) | `verify_chain_to_ca` | certificates of the signature and of the CA file |
| PKCS#11 signer | `crypto/pkcs11.rs` | a key and a session behind a mutex | `open`, `sign_message`, `probe` | a token; the threads that share it |
| key material | `crypto/certs.rs` | the signer's certificate and the others of its bundle | `CertChain`, `KeyMaterial`, `add_extra_certs_pem` | files, signing |
| commands | `rsigncode-cli/src/main.rs` | files on disk | sign, verify, extract-data, extract-signature, attach-signature, remove-signature, add | all of the above; other processes through the file system |

What is hard here, and which property of a component answers for it:

* **One step of several failing.** The writer truncates its output and rewrites
  it in place with nine kinds of write; it has no temporary file and no rename.
  What is left by an error or a kill must not look signed unless it is, but for two
  cases that are named (`NoTornSignature`),
  what is reported as a success must be right (`SignedOutputGood`,
  `StrippedOutputGood`), and a command that fails before it writes must leave
  the output alone (`RefusedKeepsOutput`).
* **Order inside the rewrite.** The position of the table, the directory entry
  and the checksum each depend on what was written before them (`ChecksumFinal`,
  `SignedOutputGood`).
* **Long sequences.** Images are signed, stamped, stripped, extracted from and
  signed again in any order (`ResigningForgets`, `EmbeddedIsNative`,
  `StampedOnce`).
* **32-bit arithmetic** on offsets and lengths taken from the file (the theorems
  `TrailingIsExact` and `WalkReturns`).
* **Lost answers and retries** towards the TSAs (`StampedOnce`,
  `FallbackInOrder`, `Rfc3161Survives`, `Terminates`).
* **Lengths of lengths** in DER, when the content of a blob grows or shrinks by
  the two or three bytes of a wrapper, and **comparisons with a rewritten copy** as
  a check of form (`PromiseKept`, `ContentRecovered`, `CheckIsExact`).
* **Checks that were not made**: the verdict over several signatures with
  optional checks, and a walk up a chain that takes the first issuer it finds
  (`EverySignatureHolds`, `EverySignerTrusted`, `GoodAccepted`, `Sound`, `Complete`).
* **Threads on one token.** A signature takes two calls to the session, which has
  room for one operation; between them a thread may be refused, panic, or find the
  token gone (`Isolated`, `SerialPromise`, `EveryRequestAnswered`). Key and
  certificate are chosen apart, and never compared (`SignedVerifies`).
* **Other processes** that read or write the same paths between a command's
  reads, or read what it has not finished: the envelope is safe from them
  (`EmbeddedIsNative`), the body only of a command they leave alone (`SuccessIsWhole`).

`PROJECT.json` lists every hazard at its line with the properties that cover it.

## Modules

### PeImage: the container as operators

A file is a sequence of bytes, the byte at offset `a` is `f[a+1]`. `parse_pe`,
`authenticode_digest`, `extract_signature`, `pe_calc_checksum` and the two
rewrites are operators of the same names; the digest is the sequence of bytes
that reach the hasher, so two equal digests mean two equal inputs of the hash
(the hash is taken to be injective, nothing else is assumed of it).

*Scaling.* Bytes are `0..Base-1`. `Base` is 256 in the program; with `Base` = 4
a u32 holds 0..255 and an image of 40 bytes is in reach of every wrap the code
is exposed to. The widths of integers (2 and 4 bytes), of the directory entry
(8) and the alignment are the program's own. The offsets of the header fields
are constants with the assumption `LayoutAssumption`, which the real numbers
(in the comments) and the small ones of the configurations both satisfy; the
proofs use only the assumption.

*Widths.* `filesize`, the sum `sigpos + siglen`, the walk of
`extract_signature`, `total_cert_len`, `new_sigpos` and the checksum are taken
modulo `Word` where the code uses u32 or a cast. A walk of `extract_signature`
that wraps and repeats is the result `NeverReturns`. In a debug build these
sums panic where a release build wraps; the model is the release build.

### PeWriter: the same rewrite, call by call

One process, one command: `Parse` (by the caller, from the same open input),
`OpenOutput` (truncates), `CopyChunk`/`CopyEnds` (one read and one write of
`copy_range` at a time), `ZeroChecksum`, `ZeroCertTable`, `Pad`, `AppendCert`,
`UpdateDir`, `CalcChecksum`, `WriteChecksum`. `AppendCert` is one action for
the five `write_all` calls that append the table, `UpdateDir` for two; the
states between them are those of `TornWrite`, which leaves any strict, nonempty
prefix of what a step writes. `Fails` is an error of any call, or a kill. With
`Meddling`, another process may empty the input at any moment. `Source` and
`Target` are paths, and may be equal.

Two history variables record what the properties compare with: `image`, the input
as it was parsed, and `opened`, whether the output is this command's yet.

`NoTornSignature` says what an output that looks signed may be when the command
dies. Besides the whole result there are two files that only seem to be one. A
copy cut exactly where a table that the input ignores would end makes the input's
own directory entry trailing; what is left is a plain beginning of the input. And
the eight bytes that clear the old entry are one write: cut short (`EntryCutShort`),
it leaves an address without its low bytes beside the old size, which may add up to
the length of the file. The proof of `SignatureIsNeverTorn` found the second; the
image `Misread` has it in the run.

### Publish: what a user of the output path may rely on

An output is what it was, a draft, or the result; it becomes a draft only after the
input was accepted, a draft becomes nothing but the result, a result is turned back
into a draft only by a write that is cut short (the checksum, written into a file
that is complete without it), and a success is reported only of a result. A result
(`IsResult`) is a file with the digest of the input and the new signature, or none,
that could be the input of the next command. `PeWriter` implements `Publish`
(`OutputPublished`) when the paths differ, for inputs that fit (`InputsFit`, which
`MCPeWriter` assumes of its own and TLC evaluates).

### Timestamp: one call of add_timestamps

State: where the call is (`pc`), the parsed blob (`signed_data`), the indexes of
the two loops (`url`, `attempt`), the request on the wire, the result. Requests
are counted for each entry of a list, so that a URL may be named twice, or in both
lists. The authorities are external: `Grant` issues a token and delivers it,
`Reset` drops the connection before *or after* a token was issued, `Refuse` is an
unsuccessful status or an undecodable answer. They are honest: every answer covers the
signature that was sent, which the code never compares. A legacy authority answers with a
counter-signature, an RFC 3161 token or a PKCS#7 without a signer, with any of
`TsaCerts`. The wait between attempts has no state and is left out.

### SerialSigner, Pkcs11: a signer that threads share

`SerialSigner` is the promise: every request is answered once, with the one key's
signature of this request or with an error, as if no other thread were there, and a
signer that broke never signs again. `Pkcs11` is the code: `open` (slot, the key
by id or label, the mechanism list and the fallback without it), and
`sign_message` as lock, `C_SignInit`, `C_Sign` and unlock, one action each. The
session is external and strict: a second `C_SignInit` is refused, a `C_Sign` takes
the mechanism of whatever operation there is. Between any two steps the token may
refuse, the session may be lost (a token pulled out, or the module finalized by
`probe` in the same process), or a thread may panic, which unwinds through the
guard and poisons the mutex.

### Signing, SignVerify: from a request to an accepted signature

`Signing` extends `Pkcs11` with what a thread of a signing service does around the
call: the checks that refuse a request, the content (fresh from an image, or the
client's own, kept as it is), the signed attributes, the certificates of the bundle
and of `--ac`, the stamps, the normalization. With a key in a file the same steps
run without the session. `SignVerify` hands each blob to the operators of `Verify`,
with the walk of `Chain` over the certificates that came along; `SignedVerifies`
says which blobs must be accepted: those of a signer whose key belongs to the first
certificate, and whose bundle is in order and complete.

### Commands: several commands on shared files

The level above: an image is its body and its certificate table, a blob is the
body it commits to, whether it was signed, its envelope and its stamps. Two
processes start any of the given command lines, `MaxCommands` in all, and
interleave at every read, at the opening of the output, at every unfinished state
of it that the other may read (`WriteDraft`), at its completion, and at an error or a
kill (`WriteFails`), which leaves what was written so far. The states of an
unfinished output (`Drafts`) are the outcomes of `PeWriter`'s `NoTornSignature`, and
more, since they may follow each other in any order: no image; an image without a
table; the complete signed file, before its checksum is stored (pe.rs:254-263); and
the two in which stray bytes of the input pass for a table, a beginning of it that
makes an ignored directory entry trailing, and an old entry cleared in part. What such
bytes may be taken for is the constant `Strays`; in the run it is the signature, in
the envelope Windows rejects, of an image to which something was appended.

As soon as another process wrote to one of a command's files (`Alone` fails), its
result is any mixture of what it saw, what its input and its output hold and the table
it made (`Mixed`); a body put together from pieces, or a file two processes write at
a time, is `Torn`. Reading is one step, from `File::open` to the digest or the
extracted signature; that the file may change within it is left out. An ended command
is forgotten when another one writes to its files. The remote signer of the
`extract-data` flow is an external actor and writes its answer in one step.

`EmbeddedIsNative` therefore says what the program embeds, not what any file shows: a
signed file whose envelope is not native is an initial one, or `Torn` with a table that
the initial files came with.

### Envelope, Blob: the DER fix-up

`Envelope` works on bytes. A length below `Half` (0x80) is one byte, any other takes as
many digits as it needs; with `Base` = 16 in the run, contents of a few bytes and tails
of some hundred bring each of the five containers across every boundary. `read_header`
is the code's; `children` gives the values of a container as a set, each where the one
before it ends, of which `First` takes the first with a tag, as `iter().find` does, if
all of them could be read. `Spine` is the walk down the five containers, which
`RewriteAlong` decides on, and `Spliced` the splice, from the inside out. `Encode` is
independent of them up to the writing of a length: it lays out a SignedData with given
parts. `Blob` is the abstract specification: a blob is its parts, form, version and
padding, and `Normalize`, `Wrap` and `Embed` change them as the comments of the code
promise. `Envelope` implements it through the history variable `view`, which is what the
bytes decode to after each step (`PromiseKept`); a result that is no encoding of the
parts is "garbled", which no step of `Blob` allows.

`InputsAssumption` says what the parts are: a content is one value that leads with a
SEQUENCE, what follows encapContentInfo is a row of values, and no length needs more
than three digits (16 MB in the program). `read_header` takes four digits, and the
inputs include lengths written with one digit more than they need. The inputs are well
nested: what the program does with a child that reaches beyond its container (the
bounds check at signing.rs:487 is against the buffer) is not modelled.

### Chain: the walk to a trusted certificate

One action per outcome of a round of the loop. Certificates are distinct from
their keys, because `verify_signed_by_certificate` compares only a signature
with a key: cross-signed certificates share one. The check after `find_issuer`
(chain.rs:77) repeats the one `find_issuer` has just made and cannot fail.

### Verify: the verdict over all signatures

One action per blob of the loop, and one for each way it ends. What a single
check finds out (digest, signature, chain, leaf hash, each timestamp) is a field
of the input, so that every combination occurs; which checks are made, on which
signer, and what is concluded from them is the code's. The outcome of `Chain` is
the field `certificate`.

### MC modules and configurations

| run | configuration | question | size |
|---|---|---|---|
| `pe_writer` | `PeWriter.cfg` | Are outputs good, and failures never mistaken for signed files? | 11 images, 3 blobs, both operations, every torn write; also that it implements `Publish` |
| `pe_writer_live` | `PeWriterLive.cfg` | Does a command end even if its input shrinks? | the same, with `Meddling`, `FairSpec` |
| `pe_writer_in_place` | `PeWriterInPlace.cfg` | What if `--in` and `--out` are one file? (violated) | `Source = Target` |
| `timestamp` | `Timestamp.cfg` | Do retries and fallback stamp exactly once, correctly, and end? | 0-2 URLs a list, 3 blobs, 7 resets, 1 refusal |
| `timestamp_legacy` | `TimestampLegacy.cfg` | Does one reset fail a legacy request? (violated) | one legacy URL |
| `commands` | `Commands.cfg` | What do success, refusal and the envelope promise to interleaved commands? | 3 commands, 2 processes, 9 command lines |
| `commands_attach` | `CommandsAttach.cfg` | Does attach-signature check the digest? (violated) | 3 commands |
| `envelope` | `Envelope.cfg` | Do the rewrites change form and version only? | 13 contents, 8 tails, 2 forms, 2 versions, minimal and longer lengths, 9 unreadable buffers |
| `chain` | `Chain.cfg` | Does the walk find a chain exactly when there is one? | 5 certificates, 4 keys, depth 3 |
| `signing` | `Signing.cfg` | Do threads on one signer get their own signatures, always an answer, and one that verifies? | 3 threads, 2 sets of jobs, 3 tokens, 4 ways to name a key, 4 bundles |
| `verify` | `Verify.cfg` | What has been checked of an accepted file? | any single signer, 36 pairs, up to 2 nested, 8 options |
| `verify_timestamps` | `VerifyTimestamps.cfg` | Is every timestamp verified? (violated) | the same |

*Why the bounds are enough.* The images of `MCPeWriter` cover both formats,
lengths that are and are not quad-word multiples, headers that overlap the DOS
header, a checksum field at an odd offset, a signed image, one whose first
table entry is not PKCS#7, an entry that does not end the file, an entry with
only one field set, one whose entry still adds up when its first byte is cleared, and
two files that do not parse. The three blobs have
lengths 1, 8 and 9. `Buf` is 16, so that a copy takes several reads and the
last is a partial one. Seven resets and a refusal let both URLs of an RFC 3161
list fail completely (six requests) and still leave faults for the legacy list.
Three commands are the longest documented flow (extract-data, remote signature,
attach; one image comes signed, so that a command on a result takes two) and two
processes are every pair; the theorems hold for any number of both.
`MaxCommands`, `Resets` and `Refusals` are the only bounds on behaviours; the
other counters are bounded by the code. In `MCEnvelope` each tail puts another
container next to a boundary and the contents move it across; the unreadable
buffers stop the walk at each of its levels. As every unpadded form of every blob
is an initial state and padding is at most seven bytes, the state graph is only
two steps deep although behaviours are not bounded. In `MCChain` four candidates
and a depth of three make chains that are just short enough and just too long,
cycles, self-signed leaves and cross-signed twins on either side of the leaf. In
`MCSigning` three threads are one that holds the mutex, one that waits, and one that
comes when the mutex is free or poisoned; each makes one request, which any of its
steps may end. The tokens hold no key, the wrong one, or two with one label; the
bundles are complete, lack the intermediate certificate, are in the wrong order, or
empty; three of the requests are refused before the signer is asked. In
`MCVerify` two nested signatures are enough for one to fail before, after and
between good ones.

*Deadlock.* Every model is of a finite call or of a finite set of commands and
stops when it is done, so the configurations switch the deadlock check off;
that the calls do reach their end is `Terminates`.

*Fairness.* `PeWriter` assumes weak fairness of the program's own steps only:
it takes no lock and waits for no peer. `Timestamp` assumes it of the program
and of the answer to a request under way: the HTTP client ends every request,
with an answer or an error. `Signing` assumes weak fairness of each thread's next
step: a call to the token returns (a reader that waits for a PIN is outside the
model), and the mutex is free again after it. A mutex of the standard library is not
fair, but a thread waits for at most as many others as there are, each of which
makes one request. Neither the number of faults nor their kind is
assumed fair.

## What the runs show to be wrong

* `pe_writer_in_place`: signing in place reports success and destroys the image,
  because the output is truncated before the input is copied and `copy_range`
  takes the early end of the input for the end of its range.
* `timestamp_legacy`: the comment on `TIMESTAMP_ATTEMPTS` says that one reset must
  not fail a signing request; the legacy loop makes one attempt per URL.
* `commands_attach`: comments speak of a digest check in `attach-signature`;
  there is none.
* `verify_timestamps`: "Verify any timestamp present" leaves out counter-signatures,
  and drops the error of a standard token that does not verify; both pass.

A test's comment (signing.rs:675-676) says that wrapping leaves the version at 1;
`Blob!Wrap` has 3, which is what the code writes. The doc of `verify_chain_to_ca`
speaks of a self-signed end (chain.rs:42-44); the code, and a comment at its line 69,
want a trusted certificate, and that is what `Sound` states.

Two things no doc speaks of are modelled and excepted by the properties: a token
without a signer counts as verified, and of several certificates with one key
the walk tries the first only.

## What is proved

All theorems hold for every value of the constants that satisfies the named
assumptions, most of which only say what type a constant has: every layout, every
input, every blob, every buffer size; every number of threads, signers, URLs,
attempts, faults, commands and processes.

`BasicLemmas` has what several of the proofs need: division, equality of sequences, and
induction, which appears wherever the model has a recursive function. The library's
induction theorems take an operator as a parameter, which the provers cannot
instantiate. A set of numbers has a least one (`Least`, from the well-foundedness of
`<`), and induction (`UpTo`) and the existence of a function defined by recursion on
`0..n` (`Recursion`, `RecursionExists`) are stated of sets and functions, of which the
least counterexample is taken.

`PeProofs` begins with the operators of `PeImage`.

* Little-endian integers: what is written is read back (`RoundTrip32`), reads
  stay in range. `write_at` and `Bytes`: lengths, which bytes change, which stay.
* `TrailingIsExact`: the wrapping sum in `parse_pe` never accepts an entry that
  does not end the file.
* `SignedFileGood`, `StrippedFileGood`: the file that the rewrite assembles
  parses, is seen as signed (unsigned), has the digest of the input, and gives
  the blob back. The argument: the rewrite keeps every byte below the end of the
  data except the checksum field and the directory entry (`Keeps`); the header
  checks of `parse_pe` read none of these (`HeadersKept`), the digest skips
  exactly these, and the padding that the digest adds at the old end is the
  padding that the rewrite puts there. They hold for any four checksum bytes, so
  they need nothing of `pe_calc_checksum`.
* `ResignedFileSame`, `StrippedFileSame`: to sign such a file again is to sign the
  original. Both files are the same up to their data, except for the fields that
  the rewrite overwrites, and the padding of the one is what the other gets.
* The checksum is a 16-bit sum that folds its carries, a recursive function.
  `ChecksumStored` needs of it only that it exists (`RecursionExists`), stays in 16
  bits, and depends on nothing but the words: those of the field count as zero, so
  storing it changes none.
* `WalkReturns`: `extract_signature` comes to an end in any certificate table, with any
  number of entries of any kind, unless an entry it passes over claims a length within
  the table's own and eight bytes of 2^32. The walk is a recursive function; after `k`
  rounds it is over or at least `8k` bytes into the table, as long as no sum wraps
  (`WalkAdvances`). The exception is real: a second entry that claims 2^32 - 8 bytes
  leads back to the first, and the loop does not end.

It goes on with the behaviours of `PeWriter`.

* `TypeCorrect`: `Spec => []TypeOK`, also in place and with `Meddling`. That the
  two signature fields of `PeInfo` are zero together comes from `parse_pe`.
* `SignedOutputIsGood`, `StrippedOutputIsGood`: for `Source # Target` and
  without `Meddling`, `Spec => []SignedOutputGood` and `[]StrippedOutputGood`.
  Neither is inductive: nothing is said of the output before the last step. The
  invariant `SafeInv` adds that the input still is what was parsed and that `pe`
  belongs to it, and says for every `pc` what the output holds then: the first
  `copied` bytes during the copy, and after each write the file of the
  corresponding operator of `PeImage` (`Copied`, `ZeroedChecksum`, `Zeroed`,
  `Padded`, `Certified`, `Directed`), up to the four checksum bytes at the end
  (`Unsummed`). A step of the program maps each of these to the next; a fault
  leads to a state in which nothing is claimed. Both assumptions are needed: the
  run `pe_writer_in_place` violates the property without the first, and
  an input emptied by another process gives a short output and a success.
* `StoredChecksumIsFinal`, `ResigningIsForgetful`: under the same assumptions. The
  invariant `Memory` adds where the command is from (its image, what the output was
  before it was opened) and that the checksum at hand is that of `Unsummed`.
* `SignatureIsNeverTorn`: here something has to be said of every file a fault may
  leave. `NeverTorn(image, op, der, output)` is a property of the file alone, so it
  survives whatever comes after the last write; `TornInv` says it holds once the
  output is open. The proof goes through the writes and, for each, through every
  prefix of it (`WriteNeverTorn`). Part of a copy is a beginning of the input; a
  complete copy is shorter than its own entry says, or as long as an entry that was
  not accepted (`ChecksumCutShort`); a cleared address is none, and one that is
  cleared in part is the exception (`EntryTorn`); while the table is appended the entry
  is zero (`NotYetSigned`); and while the new entry is written, its size, which comes
  last, is zero or lacks its high bytes.
* `WriterPublishes`: `Spec => OutputPublished`, under `InputsFit`. When signing, no
  file before the new entry is whole is a result; when removing, the copy becomes one
  when it has what the digest covers, and the later writes leave it one, unless they
  are cut short. That the file may be a result long before the end is why `Publish`
  has `Complete` and `Succeed` apart.

`ChainProofs`, for any certificates, keys, bags and depth:

* `ChainSound`: `Spec => []Sound`. Sound says nothing of a walk under way, so the
  invariant `IInv` adds that the certificates climbed so far are a path of issuers
  from the signer to the current one, of the length of `rounds`. A climb makes it one
  longer, by what `find_issuer` returns (`IssuerFound`, which needs that a set of
  positions has a least one); the path is the witness when the walk ends in
  "trusted". The proof uses neither the visited set nor uniqueness of keys.
* `ChainComplete`: `Spec => []Complete`. Of the paths to a trusted certificate within
  the depth there is a shortest one; it visits no certificate twice (`NoRoundTrip`:
  the round trip could be cut out). With unique keys whatever passes for an issuer of a
  certificate on the path is the next one on it (`NextOnPath`), so the walk stays on
  the path (`CompleteInv`) and never meets a visited certificate, nor the limit.

`SigningProofs`, for any threads, keys, tokens and messages:

* `Isolation`: whoever has an operation on the session holds the mutex, so no thread
  finds another's operation there, or its own gone.
* `Serialization`: `Pkcs11` implements `SerialSigner`. The invariant relates the
  operation of the session to the stage of the holder; every step maps to a step of
  the promise or to a stutter, and a poisoned or lost signer to one that is not usable.
* `UsesSigner`: every behaviour of `Signing` is, seen from the signer, one of `Pkcs11`,
  whence `SigningIsolated` and `SigningSerialized`; `TypeCorrect` adds that a thread's
  phase agrees with the stage of its call.
* `WhatIsSignedVerifies`: `Spec => []SignedVerifies`, for any bundle, CA file and depth.
  The invariant `VInv` follows a signature from the token to the blob: it is of the
  thread's own request (`BlobsAsMade`), by the key that `open` found to be the only one
  asked for (`OwnSignatures`), and neither a stamp nor the normalization changes what
  it was made of (`Made`). What the verifier sees of such a blob is the same record up
  to two facts (`AsItIsSeen`), whether the key is the certificate's and whether `Chain`
  has a path, and its verdict is their conjunction (`ResultOfSeen`).

`VerifyProofs`, for any signatures, signers and options: `NothingSkipped`,
`SignersTrusted`, `InvalidTokens` and `NothingGoodRejected` state the four invariants
of the run. The invariant (`Progress`) is that the results so far are those of the
first blobs, in order and each native; acceptance then speaks of every one of them.

`CommandsProofs`, for any files, strays, command lines and number of processes:
`TypeCorrect`, `SuccessWhole`, `OnlyNativeEmbedded`, `RefusalIsHarmless`. The
invariant gives each job what it must hold in its phase (`Shape`, `Ready`) and, as long
as nobody disturbed it, how it relates to the files (`Linked`): the output is as it was
until it is opened, the input as it was seen. A write by another process either
tells the job or touches none of its files (`Bystander`). `EmbeddedIsNative` is about
every file at every moment, drafts included; it is inductive together with the fact that
what a job has seen is `Accounted` for as well, since a mixture may show the table of
any of the files it is made of (`TornIsAccounted`, `MixedOK`).

`TimestampProofs`, for any lists, blobs, attempts and faults: `TypeCorrect`,
`StampsOnce`, `FallsBackInOrder`, `NoUrlGivenUpEarly`. The invariant counts the
requests of every entry of the list under way (`Counted`: all attempts before the
current entry, none after it), and has the stamps so far as a sequence that was
appended to the first signer's (`Stamping`), each of a loop that is over (`Past`), so
that its count no longer changes. `StampsFitTheirSigner` (for authorities
that stamp what they were sent) and `HoistingIsOrderly` add
the certificates (`CertInv`): those of the blob are a prefix of the list, in which
none appears twice unless it did before, and those of every counter-signature are in
it. `Hoisted` is a recursive function; `HoistedIs` proves by induction over the answer's
certificates that it keeps the list, adds all of them, and adds none twice.

`EnvelopeProofs`, for any base, tags, contents and tails that satisfy
`EnvelopeAssumption` and `InputsAssumption`:

* `EnvelopeImplementsBlob`: `Spec => PromiseKept`; `ContentIsRecovered`,
  `CheckIsExactAlways`, `OnlyUnreadableFails`: the three invariants of the run. They
  follow from `EnvelopeInv`: the bytes are `Encode(v)` and some zeros for one of the
  views `v` of the parts, and `view` is that view with the number of the zeros; or there
  is nothing to read, and nothing will be. None of the properties is inductive: they say
  what a rewrite of the blob would give, not what the blob is.
* `NormalizeUndoesWrap`: the round trip of the test of that name, for every blob.

The argument, from the inside out. Digits are read back (`DigitsRoundTrip`), so a header
written by `emit_tlv`, or with a digit more, is the one `read_header` returns (`EmitIs`,
`LongIs`), wherever in a buffer the value is (`HeaderWithin`, `TlvAt`). `children` is
defined by recursion over the bytes, from the back; its values are those at the offsets
which can be reached from the start (`Reach`, the least set closed under "the next value
begins where this one ends"), because both solve the same equation and the least offset
at which they differ does not exist (`ChildrenIs`). Hence what is in a container does not
depend on where the container is (`ChildrenWithin`), nor on what follows it, and the
spine of a blob is where `Encode` put it (`Layout`, `EncodeIs`). The splice then has the
five contents in hand and writes the blob of the wanted form (`SplicedIs`, `RewriteIs`).
That `view` is what the bytes decode to needs that no two views have the same bytes, also
with zeros at the end (`SameView`): form, version and content are read off the spine, and
the digit too many off the first length, whose leading digit is zero.

## What is only model-checked

* Liveness (`Terminates`, `EveryRequestAnswered`), which needs fairness and ENABLED.
* What holds of one layout and no other, such as the violated properties.

## What is not modelled, and why

* Cryptography, and DER outside the envelope: a signature is who made it over what.
* `probe` as a command: it changes nothing of a signer but what `SessionLost` has.
* What verification extracts for display only, and signatures nested in a nested one,
  which the code does not collect (verify.rs:281).
* ASN.1 types, OIDs and errors: no behaviour of their own.
* Short reads of regular files (an odd one would shift the words of the checksum,
  pe.rs:327), and files that change while `parse_pe` or the digest runs: each of these
  is one action.
* Files of 4 GiB and more are modelled with their wraps, but nothing is promised of
  them.
* Text: messages, PEM armour, option parsing.

## Plan

1. A bag of certificates in `Verify` instead of what the walk finds, as `SignVerify`
   does for signatures made here.
2. Blobs whose values reach beyond their containers, and where the rewrite of one
   panics or returns a blob of other parts.
